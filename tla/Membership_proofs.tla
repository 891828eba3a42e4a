-------------------------- MODULE Membership_proofs --------------------------
(***************************************************************************)
(* Proofs about Membership, for any number of sessions, people, invites and *)
(* overlapping requests.                                                    *)
(***************************************************************************)
EXTENDS Membership, FiniteSetTheorems, TLAPS

\* The rows of a session: none before it exists, the owner's own row from then
\* on, nobody gone while it is active.
RowsInv ==
  \A s \in Sessions :
    /\ status[s] = "none" => left[s] = {} /\ \A p \in People : seat[s][p] = "none"
    /\ status[s] = "active" => left[s] = {}
    /\ status[s] # "none" => seat[s][Owner] = "owner"
    /\ \A p \in People : seat[s][p] = "owner" => p = Owner

\* What an invite's row says, and where the people are whom it admitted.
InvitesInv ==
  \A i \in Invites :
    /\ state[i] = "none" => used[i] = 0 /\ admitted[i] = {}
    /\ state[i] # "none" =>
         opens[i] \in Sessions /\ gives[i] \in Given /\ status[opens[i]] # "none"
    /\ \A p \in admitted[i] : seat[opens[i]][p] # "none"

\* What a request found still holds when it writes, but for the status.
RequestsInv ==
  /\ \A c \in Closers : closing[c] # "none" => status[closing[c]] # "none"
  /\ mint # "none" => status[mint] # "none"
  /\ put # NoPut =>
       put.who # Owner /\ status[put.to] # "none" /\ seat[put.to][put.who] # "none"
  /\ \A h \in Redeemers : rpc[h] # "idle" =>
       /\ rinv[h] \in Invites /\ state[rinv[h]] # "none"
       /\ rwho[h] \in People \cup {"new"}
       /\ rwho[h] \in Guests => home[rwho[h]] = opens[rinv[h]]

MemInv ==
  /\ TypeOK /\ RowsInv /\ InvitesInv /\ RequestsInv
  /\ UsesAreMemberships /\ ClosedIsEmpty /\ GuestsStayHome

LEMMA MemInit == Init => MemInv
<1> SUFFICES ASSUME Init PROVE MemInv
  OBVIOUS
<1> USE MembershipAssumption DEF Init
<1>1. TypeOK BY DEF TypeOK, People, Given, Roles, NoPut
<1>2. RowsInv BY DEF RowsInv
<1>3. InvitesInv BY DEF InvitesInv
<1>4. RequestsInv BY DEF RequestsInv
<1>5. UsesAreMemberships BY FS_EmptySet DEF UsesAreMemberships
<1>6. ClosedIsEmpty BY DEF ClosedIsEmpty
<1>7. GuestsStayHome BY DEF GuestsStayHome, People
<1> QED BY <1>1, <1>2, <1>3, <1>4, <1>5, <1>6, <1>7 DEF MemInv

\* A session begins with its owner's row.
LEMMA CreateKeeps ==
  ASSUME MemInv, NEW s \in Sessions, CreateSession(s)
  PROVE  MemInv'
<1> USE MembershipAssumption
    DEF MemInv, CreateSession, inviteVars, useVars, redeemVars, limitVars
<1>0. Owner \in People /\ Owner \notin Guests BY DEF People
<1>1. TypeOK' BY <1>0 DEF TypeOK, Roles
<1>2. RowsInv' BY <1>0 DEF RowsInv, TypeOK
<1>3. InvitesInv' BY <1>0 DEF InvitesInv, TypeOK
<1>4. RequestsInv' BY <1>0 DEF RequestsInv, TypeOK, NoPut
<1>5. UsesAreMemberships' BY DEF UsesAreMemberships
<1>6. ClosedIsEmpty' BY <1>0 DEF ClosedIsEmpty, Active, TypeOK
<1>7. GuestsStayHome' BY <1>0 DEF GuestsStayHome, TypeOK, People
<1> QED BY <1>1, <1>2, <1>3, <1>4, <1>5, <1>6, <1>7

\* A close empties the session in its own transaction.
LEMMA CloseKeeps ==
  ASSUME MemInv, NEW c \in Closers,
         CloseStore(c) \/ \E s \in Sessions : CloseCheck(c, s)
  PROVE  MemInv'
<1> USE MembershipAssumption
    DEF MemInv, seatVars, inviteVars, useVars, redeemVars, limitVars
<1>1. ASSUME NEW s \in Sessions, CloseCheck(c, s) PROVE MemInv'
  <2> USE <1>1 DEF CloseCheck, Asks
  <2>1. TypeOK' BY DEF TypeOK
  <2>2. RowsInv' /\ InvitesInv' BY DEF RowsInv, InvitesInv
  <2>3. RequestsInv' BY DEF RequestsInv, TypeOK
  <2>4. UsesAreMemberships' BY DEF UsesAreMemberships
  <2>5. ClosedIsEmpty' /\ GuestsStayHome'
    BY DEF ClosedIsEmpty, GuestsStayHome, Active
  <2> QED BY <2>1, <2>2, <2>3, <2>4, <2>5
<1>2. ASSUME CloseStore(c) PROVE MemInv'
  <2> USE <1>2 DEF CloseStore, Empties
  <2>0. closing[c] \in Sessions BY DEF TypeOK
  <2>1. TypeOK'
    <3>1. CASE status[closing[c]] = "active"
      <4>1. left' \in [Sessions -> SUBSET People]
        <5>1. left' = [s \in Sessions |->
                        IF s \in {closing[c]}
                          THEN left[s] \cup {p \in People : seat[s][p] # "none"}
                          ELSE left[s]]
          BY <3>1
        <5> QED BY <5>1 DEF TypeOK
      <4>2. /\ status' \in [Sessions -> {"none", "active", "closed"}]
            /\ closing' \in [Closers -> Sessions \cup {"none"}]
        BY <3>1 DEF TypeOK
      <4>0. reason' \in [Sessions -> Closers \cup {"none", "startup"}]
        <5>1. reason \in [Sessions -> Closers \cup {"none", "startup"}]
          BY DEF TypeOK
        <5>2. reason' = [reason EXCEPT ![closing[c]] = c] BY <3>1
        <5> HIDE <1>2 DEF CloseStore, Empties
        <5> QED BY <5>1, <5>2
      <4>3. UNCHANGED <<seat, home, state, opens, gives, max, used, expired, mint,
                        rpc, rinv, rwho, put, admitted, ghosts, asked, boots>>
        OBVIOUS
      <4> HIDE <1>2 DEF CloseStore, Empties
      <4> QED BY <4>0, <4>1, <4>2, <4>3 DEF TypeOK
    <3>2. CASE status[closing[c]] # "active" BY <2>0, <3>2 DEF TypeOK
    <3> QED BY <3>1, <3>2
  <2>2. RowsInv' BY <2>0 DEF RowsInv, TypeOK
  <2>3. InvitesInv' BY <2>0 DEF InvitesInv, TypeOK
  <2>4. RequestsInv' BY <2>0 DEF RequestsInv, TypeOK
  <2>5. UsesAreMemberships' BY DEF UsesAreMemberships
  <2>6. ClosedIsEmpty' BY <2>0 DEF ClosedIsEmpty, Active, TypeOK
  <2>7. GuestsStayHome' BY DEF GuestsStayHome
  <2> QED BY <2>1, <2>2, <2>3, <2>4, <2>5, <2>6, <2>7
<1> QED BY <1>1, <1>2

LEMMA BootKeeps == MemInv /\ CrashAndBoot => MemInv'
<1> SUFFICES ASSUME MemInv, CrashAndBoot PROVE MemInv'
  OBVIOUS
<1> USE MembershipAssumption
    DEF MemInv, CrashAndBoot, Empties, inviteVars, useVars
<1>1. TypeOK' BY DEF TypeOK
<1>2. RowsInv' BY DEF RowsInv, TypeOK
<1>3. InvitesInv' BY DEF InvitesInv, TypeOK
<1>4. RequestsInv' BY DEF RequestsInv
<1>5. UsesAreMemberships' BY DEF UsesAreMemberships
<1>6. ClosedIsEmpty' BY DEF ClosedIsEmpty, Active, TypeOK
<1>7. GuestsStayHome' BY DEF GuestsStayHome
<1> QED BY <1>1, <1>2, <1>3, <1>4, <1>5, <1>6, <1>7

\* An invite opens a session that existed when its owner asked for it.
LEMMA InviteKeeps ==
  ASSUME MemInv,
         \/ \E s \in Sessions : MintCheck(s)
         \/ \E i \in Invites : \/ \E r \in Roles, n \in 1..UseLimit : MintStore(i, r, n)
                               \/ Expire(i) \/ Revoke(i)
  PROVE  MemInv'
<1> USE MembershipAssumption
    DEF MemInv, sessionVars, seatVars, useVars, redeemVars, limitVars
<1>1. ASSUME NEW s \in Sessions, MintCheck(s) PROVE MemInv'
  <2> USE <1>1 DEF MintCheck, Asks, inviteVars
  <2>1. TypeOK' BY DEF TypeOK
  <2>2. RowsInv' /\ InvitesInv' BY DEF RowsInv, InvitesInv
  <2>3. RequestsInv' BY DEF RequestsInv, TypeOK
  <2>4. UsesAreMemberships' BY DEF UsesAreMemberships
  <2>5. ClosedIsEmpty' /\ GuestsStayHome'
    BY DEF ClosedIsEmpty, GuestsStayHome, Active
  <2> QED BY <2>1, <2>2, <2>3, <2>4, <2>5
<1>2. ASSUME NEW i \in Invites, NEW r \in Roles, NEW n \in 1..UseLimit,
             MintStore(i, r, n)
      PROVE  MemInv'
  <2> USE <1>2 DEF MintStore
  <2>0. mint \in Sessions /\ r \in Given /\ n \in 0..UseLimit
    BY DEF TypeOK, Roles
  <2>1. TypeOK' BY <2>0 DEF TypeOK
  <2>2. RowsInv' BY DEF RowsInv
  <2>3. InvitesInv' BY <2>0 DEF InvitesInv, RequestsInv, TypeOK
  <2>4. RequestsInv' BY <2>0 DEF RequestsInv, TypeOK
  <2>5. UsesAreMemberships' BY <2>0, FS_EmptySet DEF UsesAreMemberships, InvitesInv, TypeOK
  <2>6. ClosedIsEmpty' /\ GuestsStayHome'
    BY DEF ClosedIsEmpty, GuestsStayHome, Active
  <2> QED BY <2>1, <2>2, <2>3, <2>4, <2>5, <2>6
<1>3. ASSUME NEW i \in Invites, Expire(i) \/ Revoke(i) PROVE MemInv'
  <2> USE <1>3 DEF Expire, Revoke
  <2>1. TypeOK'
    <3>1. CASE Expire(i) BY <3>1 DEF TypeOK
    <3>2. CASE Revoke(i) BY <3>2 DEF TypeOK
    <3> QED BY <3>1, <3>2
  <2>2. RowsInv' BY DEF RowsInv
  <2>3. InvitesInv' BY DEF InvitesInv, TypeOK
  <2>4. RequestsInv' BY DEF RequestsInv, TypeOK
  <2>5. UsesAreMemberships' BY DEF UsesAreMemberships
  <2>6. ClosedIsEmpty' /\ GuestsStayHome'
    BY DEF ClosedIsEmpty, GuestsStayHome, Active
  <2> QED BY <2>1, <2>2, <2>3, <2>4, <2>5, <2>6
<1> QED BY <1>1, <1>2, <1>3

\* Letting a person in who has no active row: the count follows the set.
LEMMA AdmitKeeps ==
  ASSUME MemInv, NEW h \in Redeemers, NEW i \in Invites, NEW p \in People,
         state[i] = "live", used[i] < max[i], status[opens[i]] = "active",
         ~Active(opens[i], p),
         Admit(i, p), Finish(h),
         home' \in [Guests -> Sessions \cup {"none"}],
         \A g \in Guests : home[g] # "none" => home'[g] = home[g],
         p \in Guests => home'[p] = opens[i],
         UNCHANGED <<sessionVars, ghosts, inviteVars, mint, put, limitVars>>
  PROVE  MemInv'
<1> USE MembershipAssumption
    DEF MemInv, Admit, Finish, sessionVars, inviteVars, limitVars
<1>0. /\ opens[i] \in Sessions /\ gives[i] \in Given
      /\ p # Owner /\ seat[opens[i]][p] = "none" /\ p \notin admitted[i]
  BY DEF InvitesInv, RowsInv, Active, People, TypeOK
<1>1. TypeOK' BY <1>0 DEF TypeOK, Roles
<1>2. RowsInv' BY <1>0 DEF RowsInv, TypeOK, Given
<1>3. InvitesInv'
  <2> SUFFICES ASSUME NEW j \in Invites PROVE InvitesInv!(j)'
    BY DEF InvitesInv
  <2>1. InvitesInv!(j) BY DEF InvitesInv
  <2>2. CASE j = i BY <2>1, <2>2, <1>0 DEF TypeOK, Given
  <2>3. CASE j # i BY <2>1, <2>3, <1>0 DEF TypeOK, Given
  <2> QED BY <2>2, <2>3
<1>4. RequestsInv'
  <2>1. put' # NoPut => /\ put'.who # Owner /\ status'[put'.to] # "none"
                        /\ seat'[put'.to][put'.who] # "none"
    BY <1>0 DEF RequestsInv, TypeOK, Given
  <2>2. \A k \in Redeemers : rpc'[k] # "idle" =>
          /\ rinv'[k] \in Invites /\ state'[rinv'[k]] # "none"
          /\ rwho'[k] \in People \cup {"new"}
          /\ rwho'[k] \in Guests => home'[rwho'[k]] = opens'[rinv'[k]]
    BY <1>0 DEF RequestsInv, InvitesInv, TypeOK
  <2> QED BY <2>1, <2>2 DEF RequestsInv
<1>5. UsesAreMemberships'
  <2>1. IsFiniteSet(admitted[i]) BY FS_Subset DEF TypeOK
  <2>2. Cardinality(admitted[i] \cup {p}) = Cardinality(admitted[i]) + 1
    BY <2>1, <1>0, FS_AddElement
  <2> QED BY <2>2 DEF UsesAreMemberships, TypeOK
<1>6. ClosedIsEmpty' BY <1>0 DEF ClosedIsEmpty, Active, TypeOK
<1>7. GuestsStayHome' BY <1>0 DEF GuestsStayHome, TypeOK, People
<1> QED BY <1>1, <1>2, <1>3, <1>4, <1>5, <1>6, <1>7

\* A redemption: what it found is still an invite of the same session, and the
\* transaction asks again whether the session is open and the caller outside.
LEMMA RedeemKeeps ==
  ASSUME MemInv, NEW h \in Redeemers,
         \/ RedeemStep(h)
         \/ \E p \in Callers, i \in Invites : RedeemFind(h, p, i)
  PROVE  MemInv'
<1> USE MembershipAssumption DEF MemInv
<1>1. ASSUME NEW p \in Callers, NEW i \in Invites, RedeemFind(h, p, i)
      PROVE  MemInv'
  <2> USE <1>1 DEF RedeemFind, Callers, BoundTo, Asks, sessionVars, seatVars, inviteVars,
                   useVars
  <2>1. TypeOK' BY DEF TypeOK
  <2>2. RowsInv' /\ InvitesInv' BY DEF RowsInv, InvitesInv
  <2>3. RequestsInv' BY DEF RequestsInv, TypeOK
  <2>4. UsesAreMemberships' BY DEF UsesAreMemberships
  <2>5. ClosedIsEmpty' /\ GuestsStayHome'
    BY DEF ClosedIsEmpty, GuestsStayHome, Active
  <2> QED BY <2>1, <2>2, <2>3, <2>4, <2>5
<1>2. ASSUME \/ RedeemCheck(h)
             \/ RedeemStore(h) /\ UNCHANGED <<useVars, seat, left>>
      PROVE  MemInv'
  <2> USE DEF RedeemCheck, RedeemStore, Finish, sessionVars, seatVars, inviteVars,
              useVars, limitVars
  <2>0. UNCHANGED <<sessionVars, seatVars, inviteVars, useVars, mint, put, limitVars>>
    BY <1>2
  <2> DEFINE Settled ==
        /\ rpc' \in [Redeemers -> {"idle", "found", "outsider"}]
        /\ rinv' \in [Redeemers -> Invites \cup {"none"}]
        /\ rwho' \in [Redeemers -> People \cup {"new", "none"}]
        /\ \A k \in Redeemers : rpc'[k] # "idle" =>
             rpc[k] # "idle" /\ rinv'[k] = rinv[k] /\ rwho'[k] = rwho[k]
  <2>1. Settled
    <3>1. CASE Finish(h) BY <3>1 DEF TypeOK
    <3>2. CASE rpc[h] = "found" /\ rpc' = [rpc EXCEPT ![h] = "outsider"]
               /\ UNCHANGED <<rinv, rwho>>
      BY <3>2 DEF TypeOK
    <3> QED BY <1>2, <3>1, <3>2
  <2>2. TypeOK' BY <2>0, <2>1 DEF TypeOK
  <2>3. RowsInv' /\ InvitesInv' BY <2>0 DEF RowsInv, InvitesInv
  <2>4. RequestsInv' BY <2>0, <2>1 DEF RequestsInv
  <2>5. UsesAreMemberships' BY <2>0 DEF UsesAreMemberships
  <2>6. ClosedIsEmpty' /\ GuestsStayHome'
    BY <2>0 DEF ClosedIsEmpty, GuestsStayHome, Active
  <2> QED BY <2>2, <2>3, <2>4, <2>5, <2>6
<1>3. ASSUME RedeemStore(h), Consumable(rinv[h], rwho[h]) PROVE MemInv'
  <2>0. rinv[h] \in Invites /\ rwho[h] \in People \cup {"new"}
    BY <1>3 DEF RedeemStore, RequestsInv
  <2> USE <1>3 DEF RedeemStore, Consumable
  <2>1. CASE rwho[h] # "new" /\ Admit(rinv[h], rwho[h]) /\ UNCHANGED home
    <3>1. rwho[h] \in Guests => home[rwho[h]] = opens[rinv[h]]
      BY DEF RequestsInv
    <3> QED BY <2>0, <2>1, <3>1, AdmitKeeps DEF TypeOK
  <2>2. ASSUME NEW g \in Guests, home[g] = "none", Admit(rinv[h], g),
               home' = [home EXCEPT ![g] = opens[rinv[h]]]
        PROVE  MemInv'
    <3>1. opens[rinv[h]] \in Sessions BY <2>0 DEF InvitesInv
    <3>2. ~Active(opens[rinv[h]], g) BY <2>2, <3>1 DEF GuestsStayHome, Active
    <3>3. g \in People BY DEF People
    <3> QED BY <2>0, <2>2, <3>1, <3>2, <3>3, AdmitKeeps DEF TypeOK
  <2> QED BY <2>1, <2>2
<1> QED BY <1>1, <1>2, <1>3 DEF RedeemStep, RedeemStore

\* A role change, which may bring a ghost into a closed session.
LEMMA PutKeeps ==
  ASSUME MemInv,
         \/ PutStore
         \/ \E s \in Sessions, p \in People, r \in Roles : PutCheck(s, p, r)
  PROVE  MemInv'
<1> USE MembershipAssumption
    DEF MemInv, sessionVars, inviteVars, useVars, redeemVars, limitVars
<1>1. ASSUME NEW s \in Sessions, NEW p \in People, NEW r \in Roles,
             PutCheck(s, p, r)
      PROVE  MemInv'
  <2> USE <1>1 DEF PutCheck, Member, Asks, seatVars
  <2>1. TypeOK' BY DEF TypeOK, Roles, NoPut
  <2>2. RowsInv' /\ InvitesInv' BY DEF RowsInv, InvitesInv
  <2>3. RequestsInv' BY DEF RequestsInv, Active
  <2>4. UsesAreMemberships' BY DEF UsesAreMemberships
  <2>5. ClosedIsEmpty' /\ GuestsStayHome'
    BY DEF ClosedIsEmpty, GuestsStayHome, Active
  <2> QED BY <2>1, <2>2, <2>3, <2>4, <2>5
<1>2. ASSUME PutStore PROVE MemInv'
  <2> USE <1>2 DEF PutStore
  <2>0. put.to \in Sessions /\ put.who \in People /\ put.role \in Given
    BY DEF TypeOK
  <2>1. TypeOK' BY <2>0 DEF TypeOK, Roles
  <2>2. RowsInv' BY <2>0 DEF RowsInv, RequestsInv, TypeOK, Given
  <2>3. InvitesInv'
    <3> SUFFICES ASSUME NEW i \in Invites PROVE InvitesInv!(i)'
      BY DEF InvitesInv
    <3>1. InvitesInv!(i) BY DEF InvitesInv
    <3> QED BY <2>0, <3>1 DEF TypeOK, Given
  <2>4. RequestsInv' BY <2>0 DEF RequestsInv, TypeOK
  <2>5. UsesAreMemberships' BY DEF UsesAreMemberships
  <2>6. ClosedIsEmpty' BY <2>0 DEF ClosedIsEmpty, Active, TypeOK
  <2>7. GuestsStayHome' BY <2>0 DEF GuestsStayHome, RequestsInv, TypeOK, People
  <2> QED BY <2>1, <2>2, <2>3, <2>4, <2>5, <2>6, <2>7
<1> QED BY <1>1, <1>2

LEMMA MemStep == MemInv /\ [Next]_vars => MemInv'
<1>1. ASSUME MemInv, UNCHANGED vars PROVE MemInv'
  BY <1>1 DEF MemInv, vars, sessionVars, seatVars, inviteVars, useVars, redeemVars,
     limitVars, TypeOK, RowsInv, InvitesInv, RequestsInv, UsesAreMemberships,
     ClosedIsEmpty, GuestsStayHome, Active
<1>2. ASSUME MemInv, Next PROVE MemInv'
  BY <1>2, CreateKeeps, CloseKeeps, BootKeeps, InviteKeeps, RedeemKeeps, PutKeeps
     DEF Next
<1> QED BY <1>1, <1>2

\* Sessions, participants and invites keep their types.
THEOREM MembershipTypeCorrect == Spec => []TypeOK
<1>1. MemInv => TypeOK BY DEF MemInv
<1> QED BY <1>1, MemInit, MemStep, PTL DEF Spec

\* One use of an invite, one membership, however redemptions overlap
\* (redeem_invite, sqlite.rs:1257).
THEOREM UsesCountMemberships == Spec => []UsesAreMemberships
<1>1. MemInv => UsesAreMemberships BY DEF MemInv
<1> QED BY <1>1, MemInit, MemStep, PTL DEF Spec

\* A closed session has no active participant but those a late role change
\* wrote (close_session, sqlite.rs:851).
THEOREM ClosedSessionsEmpty == Spec => []ClosedIsEmpty
<1>1. MemInv => ClosedIsEmpty BY DEF MemInv
<1> QED BY <1>1, MemInit, MemStep, PTL DEF Spec

\* The owner of an active session is its one participant with that role
\* (update_participant_role, http.rs:893; redeem_invite, sqlite.rs:1257).
THEOREM OwnerSeated == Spec => []OwnerKeepsSeat
<1>1. MemInv => OwnerKeepsSeat
  BY MembershipAssumption DEF MemInv, RowsInv, OwnerKeepsSeat, Active, People, TypeOK
<1> QED BY <1>1, MemInit, MemStep, PTL DEF Spec

\* A guest takes part in the session it was minted for only
\* (InviteService::redeem, invite_service.rs:295).
THEOREM GuestsScoped == Spec => []GuestsStayHome
<1>1. MemInv => GuestsStayHome BY DEF MemInv
<1> QED BY <1>1, MemInit, MemStep, PTL DEF Spec

\* The owner's and the guests' seats stay theirs.
THEOREM SeatsKept == Spec => []SeatsInOrder
  BY OwnerSeated, GuestsScoped, PTL DEF SeatsInOrder

\* A closed session stays closed, for the reason that was stored first
\* (close_session, sqlite.rs:872).
THEOREM ClosedForGood == Spec => CloseIsFinal
<1> DEFINE Stays(s) == status[s] = "closed" =>
                         status'[s] = "closed" /\ reason'[s] = reason[s]
<1>1. ASSUME MemInv, [Next]_vars, NEW s \in Sessions PROVE Stays(s)
  <2>1. TypeOK BY <1>1 DEF MemInv
  <2>2. CASE UNCHANGED <<status, reason>> BY <2>2
  <2>3. ASSUME NEW t \in Sessions, CreateSession(t) PROVE Stays(s)
    BY <1>1, <2>1, <2>3 DEF CreateSession, TypeOK
  <2>4. ASSUME NEW c \in Closers, CloseStore(c) PROVE Stays(s)
    BY <1>1, <2>1, <2>4 DEF CloseStore, TypeOK
  <2>5. CASE CrashAndBoot BY <1>1, <2>1, <2>5 DEF CrashAndBoot, TypeOK
  <2>6. CASE UNCHANGED vars
    BY <2>2, <2>6 DEF vars, sessionVars
  <2>7. ASSUME \/ \E t \in Sessions : MintCheck(t)
               \/ \E c \in Closers, t \in Sessions : CloseCheck(c, t)
               \/ \E i \in Invites :
                    \/ \E r \in Roles, n \in 1..UseLimit : MintStore(i, r, n)
                    \/ Expire(i) \/ Revoke(i)
               \/ \E h \in Redeemers :
                    \/ RedeemStep(h)
                    \/ \E p \in Callers, i \in Invites : RedeemFind(h, p, i)
               \/ PutStore
               \/ \E t \in Sessions, p \in People, r \in Roles : PutCheck(t, p, r)
        PROVE  UNCHANGED <<status, reason>>
    BY <2>7
       DEF sessionVars, CloseCheck, MintCheck, MintStore, Expire, Revoke,
           RedeemStep, RedeemCheck, RedeemStore, RedeemFind, PutStore, PutCheck,
           sessionVars
  <2> HIDE DEF Stays
  <2> QED BY <1>1, <2>2, <2>3, <2>4, <2>5, <2>6, <2>7 DEF Next
<1>2. MemInv /\ [Next]_vars =>
        [\A s \in Sessions : status[s] = "closed" =>
           status'[s] = "closed" /\ reason'[s] = reason[s]]_vars
  BY <1>1
<1> QED BY <1>2, MemInit, MemStep, PTL DEF Spec, CloseIsFinal
=============================================================================
