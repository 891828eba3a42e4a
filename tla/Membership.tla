----------------------------- MODULE Membership -----------------------------
(***************************************************************************)
(* Sessions, participants and invites as the database keeps them.  Each     *)
(* storage call is one transaction and so one action; between the calls of  *)
(* a request other requests run.  A request that is refused on the way      *)
(* changes nothing: where it may be refused, it may also stop.              *)
(***************************************************************************)
EXTENDS Naturals, FiniteSets

CONSTANTS
  Sessions,   \* session ids (bounds the creations)
  Owner,      \* who creates the sessions
  Users,      \* other registered users
  Guests,     \* scoped guests that may be minted (bounds the mintings)
  Invites,    \* invite tokens (bounds the invites)
  UseLimit,   \* MAX_INVITE_USES
  Redeemers,  \* POST /api/invite/redeem handlers that may overlap
  Closers,    \* close requests that may overlap, by their CloseReason
  MaxAsked,   \* bound on requests
  MaxBoots    \* bound on crashes

People == {Owner} \cup Users \cup Guests
Given  == {"operator", "viewer"}  \* roles an invite or a change may give
Roles  == Given \cup {"owner"}

ASSUME MembershipAssumption ==
  /\ Owner \notin Users \cup Guests
  /\ Users \cap Guests = {}
  /\ IsFiniteSet(People)
  /\ "none" \notin Sessions \cup Invites \cup People
  /\ "new" \notin People
  /\ Closers \subseteq {"owner", "admin", "reaper", "error"}
  /\ UseLimit \in Nat /\ MaxAsked \in Nat /\ MaxBoots \in Nat

VARIABLES
  status,    \* sessions.status, "none" before the INSERT
  reason,    \* sessions.closed_reason
  seat,      \* participants: the role in the row, "none" without a row
  left,      \* participants: who has left_at set
  home,      \* users.scoped_session_id of a guest, "none" before the INSERT
  state,     \* invites: "none", "live", "revoked" (the row is deleted)
  opens,     \* invite_tokens.session_id
  gives,     \* invite_tokens.role
  max,       \* invite_tokens.max_uses
  used,      \* invite_tokens.used_count
  expired,   \* invites whose expires_at has passed
  mint,      \* POST .../invites: the session that passed the gate, or "none"
  rpc,       \* redeemers: "idle", "found", "outsider"
  rinv,      \* the invite a redeemer found
  rwho,      \* who redeems: a person, or "new" for a guest to be minted
  closing,   \* the session a closer found active, or "none"
  put,       \* PUT .../role: [to, who, role] that passed its checks
  admitted,  \* history: whom each invite made a member
  ghosts,    \* history: <<s, p>> written by a role change after the close
  asked,     \* requests so far
  boots      \* crashes so far

sessionVars == <<status, reason, closing>>
seatVars    == <<seat, left, ghosts>>
inviteVars  == <<state, opens, gives, max, expired>>
useVars     == <<used, home, admitted>>
redeemVars  == <<rpc, rinv, rwho>>
limitVars   == <<asked, boots>>
vars == <<sessionVars, seatVars, inviteVars, useVars, mint, redeemVars, put,
          limitVars>>

NoPut == [to |-> "none", who |-> "none", role |-> "none"]

Asks == asked < MaxAsked /\ asked' = asked + 1

\* p has a row without left_at.
Active(s, p) == p \in People /\ seat[s][p] # "none" /\ p \notin left[s]

\* find_active_participant_role: row and session in one snapshot.
Member(s, p) == status[s] = "active" /\ Active(s, p)

Init ==
  /\ status = [s \in Sessions |-> "none"]
  /\ reason = [s \in Sessions |-> "none"]
  /\ seat = [s \in Sessions |-> [p \in People |-> "none"]]
  /\ left = [s \in Sessions |-> {}]
  /\ home = [g \in Guests |-> "none"]
  /\ state = [i \in Invites |-> "none"]
  /\ opens = [i \in Invites |-> "none"]
  /\ gives = [i \in Invites |-> "none"]
  /\ max = [i \in Invites |-> 0]
  /\ used = [i \in Invites |-> 0]
  /\ expired = {}
  /\ mint = "none"
  /\ rpc = [h \in Redeemers |-> "idle"]
  /\ rinv = [h \in Redeemers |-> "none"]
  /\ rwho = [h \in Redeemers |-> "none"]
  /\ closing = [c \in Closers |-> "none"]
  /\ put = NoPut
  /\ admitted = [i \in Invites |-> {}]
  /\ ghosts = {}
  /\ asked = 0 /\ boots = 0

-----------------------------------------------------------------------------
(* Sessions *)

\* create_session_with_owner: the row and its owner in one transaction.
CreateSession(s) ==
  /\ status[s] = "none"
  /\ status' = [status EXCEPT ![s] = "active"]
  /\ seat' = [seat EXCEPT ![s][Owner] = "owner"]
  /\ UNCHANGED <<reason, closing, left, ghosts, inviteVars, useVars, mint,
                 redeemVars, put, limitVars>>

\* close_session_by_user reads the row; the reaper and the PTY loop read it for
\* the audit entry.  A session that is not active is left alone.
CloseCheck(c, s) ==
  /\ closing[c] = "none"
  /\ status[s] = "active"
  /\ closing' = [closing EXCEPT ![c] = s]
  /\ Asks
  /\ UNCHANGED <<status, reason, seatVars, inviteVars, useVars, mint,
                 redeemVars, put, boots>>

\* Everybody who is in the sessions S leaves them.
Empties(S) ==
  left' = [s \in Sessions |->
             IF s \in S THEN left[s] \cup {p \in People : seat[s][p] # "none"}
                        ELSE left[s]]

\* The closing transaction; without an active row the caller is told that the
\* session is closed, which a DELETE takes for success.
CloseStore(c) ==
  /\ closing[c] # "none"
  /\ IF status[closing[c]] = "active"
       THEN /\ status' = [status EXCEPT ![closing[c]] = "closed"]
            /\ reason' = [reason EXCEPT ![closing[c]] = c]
            /\ Empties({closing[c]})
       ELSE UNCHANGED <<status, reason, left>>
  /\ closing' = [closing EXCEPT ![c] = "none"]
  /\ UNCHANGED <<seat, ghosts, inviteVars, useVars, mint, redeemVars, put,
                 limitVars>>

\* The process dies with its requests; the boot closes what is still active.
CrashAndBoot ==
  /\ boots < MaxBoots
  /\ boots' = boots + 1
  /\ LET stale == {s \in Sessions : status[s] = "active"}
     IN  /\ status' = [s \in Sessions |-> IF s \in stale THEN "closed" ELSE status[s]]
         /\ reason' = [s \in Sessions |-> IF s \in stale THEN "startup" ELSE reason[s]]
         /\ Empties(stale)
  /\ closing' = [c \in Closers |-> "none"]
  /\ mint' = "none"
  /\ rpc' = [h \in Redeemers |-> "idle"]
  /\ rinv' = [h \in Redeemers |-> "none"]
  /\ rwho' = [h \in Redeemers |-> "none"]
  /\ put' = NoPut
  /\ UNCHANGED <<seat, ghosts, inviteVars, useVars, asked>>

-----------------------------------------------------------------------------
(* Invites *)

\* require_active_owned, by the owner.
MintCheck(s) ==
  /\ mint = "none"
  /\ status[s] = "active"
  /\ mint' = s
  /\ Asks
  /\ UNCHANGED <<sessionVars, seatVars, inviteVars, useVars, redeemVars, put,
                 boots>>

\* The role and limit checks, and the INSERT, which does not look at the
\* session again.
MintStore(i, r, n) ==
  /\ mint # "none"
  /\ state[i] = "none"
  /\ r # "owner" /\ 1 <= n /\ n <= UseLimit
  /\ state' = [state EXCEPT ![i] = "live"]
  /\ opens' = [opens EXCEPT ![i] = mint]
  /\ gives' = [gives EXCEPT ![i] = r]
  /\ max' = [max EXCEPT ![i] = n]
  /\ mint' = "none"
  /\ UNCHANGED <<sessionVars, seatVars, expired, useVars, redeemVars, put,
                 limitVars>>

\* An invite with an expires_at reaches it.
Expire(i) ==
  /\ state[i] = "live" /\ i \notin expired
  /\ expired' = expired \cup {i}
  /\ UNCHANGED <<sessionVars, seatVars, state, opens, gives, max, useVars, mint,
                 redeemVars, put, limitVars>>

\* InviteService::revoke deletes the row, whatever became of the session; what
\* it reads before (owner, session of the invite) never changes.
Revoke(i) ==
  /\ state[i] = "live"
  /\ state' = [state EXCEPT ![i] = "revoked"]
  /\ UNCHANGED <<sessionVars, seatVars, opens, gives, max, expired, useVars,
                 mint, redeemVars, put, limitVars>>

-----------------------------------------------------------------------------
(* Redeeming *)

Finish(h) ==
  /\ rpc' = [rpc EXCEPT ![h] = "idle"]
  /\ rinv' = [rinv EXCEPT ![h] = "none"]
  /\ rwho' = [rwho EXCEPT ![h] = "none"]

\* The session a caller is bound to: a guest's only.
BoundTo(p) == IF p \in Guests THEN home[p] ELSE "none"

\* mutant: the scope of a guest is not compared with the invite's session
FindAnywhere(h, p, i) ==
  /\ rpc[h] = "idle"
  /\ state[i] = "live"
  /\ p \in Guests => BoundTo(p) # "none"
  /\ rpc' = [rpc EXCEPT ![h] = "found"]
  /\ rinv' = [rinv EXCEPT ![h] = i]
  /\ rwho' = [rwho EXCEPT ![h] = p]
  /\ Asks
  /\ UNCHANGED <<sessionVars, seatVars, inviteVars, useVars, mint, put, boots>>

\* Who redeems: the person whose token came along, or, with none or one that is
\* not valid, a guest to be minted.
Callers == People \cup {"new"}

\* find_invite, and the scope check for a guest that comes back.
RedeemFind(h, p, i) ==
  /\ rpc[h] = "idle"
  /\ state[i] = "live"
  /\ p \in Guests => BoundTo(p) = opens[i]
  /\ rpc' = [rpc EXCEPT ![h] = "found"]
  /\ rinv' = [rinv EXCEPT ![h] = i]
  /\ rwho' = [rwho EXCEPT ![h] = p]
  /\ Asks
  /\ UNCHANGED <<sessionVars, seatVars, inviteVars, useVars, mint, put, boots>>

\* Two reads: the session must be active (410 otherwise), and a member is
\* answered with the role it has and consumes no use.
RedeemCheck(h) ==
  /\ rpc[h] = "found"
  /\ IF status[opens[rinv[h]]] = "active" /\ ~Member(opens[rinv[h]], rwho[h])
       THEN rpc' = [rpc EXCEPT ![h] = "outsider"] /\ UNCHANGED <<rinv, rwho>>
       ELSE Finish(h)
  /\ UNCHANGED <<sessionVars, seatVars, inviteVars, useVars, mint, put, limitVars>>

\* mutant: the transaction trusts the status that was read before it
ConsumableUnlessFull(i, p) ==
  /\ state[i] = "live" /\ i \notin expired
  /\ used[i] < max[i]
  /\ ~Active(opens[i], p)

\* mutant: the transaction trusts the membership that was looked up before it
ConsumableByMember(i, p) ==
  /\ state[i] = "live" /\ i \notin expired
  /\ used[i] < max[i]
  /\ status[opens[i]] = "active"

\* The UPDATE's predicate for caller p; the diagnosis of a refusal changes nothing.
Consumable(i, p) ==
  /\ state[i] = "live" /\ i \notin expired
  /\ used[i] < max[i]
  /\ status[opens[i]] = "active"
  /\ ~Active(opens[i], p)

\* p takes a use of i and its seat.
Admit(i, p) ==
  /\ used' = [used EXCEPT ![i] = @ + 1]
  /\ seat' = [seat EXCEPT ![opens[i]][p] = gives[i]]
  /\ left' = [left EXCEPT ![opens[i]] = @ \ {p}]
  /\ admitted' = [admitted EXCEPT ![i] = @ \cup {p}]

\* Storage::redeem_invite: one transaction.  A new guest is inserted by it and
\* bound to the session; a collision of guest names rolls it back and retries.
RedeemStore(h) ==
  /\ rpc[h] = "outsider"
  /\ IF Consumable(rinv[h], rwho[h])
       THEN \/ /\ rwho[h] # "new"
               /\ Admit(rinv[h], rwho[h])
               /\ UNCHANGED home
            \/ /\ rwho[h] = "new"
               /\ \E g \in Guests :
                    /\ home[g] = "none"
                    /\ home' = [home EXCEPT ![g] = opens[rinv[h]]]
                    /\ Admit(rinv[h], g)
       ELSE UNCHANGED <<useVars, seat, left>>
  /\ Finish(h)
  /\ UNCHANGED <<sessionVars, ghosts, inviteVars, mint, put, limitVars>>

-----------------------------------------------------------------------------
(* Role changes *)

\* update_participant_role up to the write: an active owned session, neither
\* oneself nor the owner role, an active participant, another role than it has.
PutCheck(s, p, r) ==
  /\ put = NoPut
  /\ p # Owner /\ r # "owner"
  /\ Member(s, p) /\ seat[s][p] # r
  /\ put' = [to |-> s, who |-> p, role |-> r]
  /\ Asks
  /\ UNCHANGED <<sessionVars, seatVars, inviteVars, useVars, mint, redeemVars,
                 boots>>

\* upsert_participant clears left_at and does not look at the session.
PutStore ==
  /\ put # NoPut
  /\ seat' = [seat EXCEPT ![put.to][put.who] = put.role]
  /\ left' = [left EXCEPT ![put.to] = @ \ {put.who}]
  /\ ghosts' = IF status[put.to] = "active" THEN ghosts
                                           ELSE ghosts \cup {<<put.to, put.who>>}
  /\ put' = NoPut
  /\ UNCHANGED <<sessionVars, inviteVars, useVars, mint, redeemVars, limitVars>>

-----------------------------------------------------------------------------
RedeemStep(h) == RedeemCheck(h) \/ RedeemStore(h)

Next ==
  \/ \E s \in Sessions : CreateSession(s) \/ MintCheck(s)
  \/ \E c \in Closers : CloseStore(c) \/ \E s \in Sessions : CloseCheck(c, s)
  \/ CrashAndBoot
  \/ \E i \in Invites :
       \/ \E r \in Roles, n \in 1..UseLimit : MintStore(i, r, n)
       \/ Expire(i) \/ Revoke(i)
  \/ \E h \in Redeemers :
       \/ RedeemStep(h)
       \/ \E p \in Callers, i \in Invites : RedeemFind(h, p, i)
  \/ PutStore
  \/ \E s \in Sessions, p \in People, r \in Roles : PutCheck(s, p, r)

Spec == Init /\ [][Next]_vars

-----------------------------------------------------------------------------
(* Safety *)

TypeOK ==
  /\ status \in [Sessions -> {"none", "active", "closed"}]
  /\ reason \in [Sessions -> Closers \cup {"none", "startup"}]
  /\ seat \in [Sessions -> [People -> Roles \cup {"none"}]]
  /\ left \in [Sessions -> SUBSET People]
  /\ home \in [Guests -> Sessions \cup {"none"}]
  /\ state \in [Invites -> {"none", "live", "revoked"}]
  /\ opens \in [Invites -> Sessions \cup {"none"}]
  /\ gives \in [Invites -> Given \cup {"none"}]
  /\ max \in [Invites -> 0..UseLimit]
  /\ used \in [Invites -> Nat]
  /\ expired \subseteq Invites
  /\ mint \in Sessions \cup {"none"}
  /\ rpc \in [Redeemers -> {"idle", "found", "outsider"}]
  /\ rinv \in [Redeemers -> Invites \cup {"none"}]
  /\ rwho \in [Redeemers -> People \cup {"new", "none"}]
  /\ closing \in [Closers -> Sessions \cup {"none"}]
  /\ \/ put = NoPut
     \/ put \in [to : Sessions, who : People, role : Given]
  /\ admitted \in [Invites -> SUBSET People]
  /\ ghosts \subseteq Sessions \X People
  /\ asked \in Nat /\ boots \in Nat

\* sqlite.rs:1276-1287: one use, one membership.  However redemptions overlap,
\* double clicks of one user included, an invite's count is the number of people
\* it let in, and never exceeds its maximum.
UsesAreMemberships ==
  \A i \in Invites :
    used[i] = Cardinality(admitted[i]) /\ used[i] <= max[i]

\* sqlite.rs:854-865: once a session is closed everybody is consistently marked
\* gone, whoever was redeeming an invite or had a role changed meanwhile.  The
\* exception is a role change that passed its checks before the close and is
\* stored after it: upsert_participant clears left_at again.
ClosedIsEmpty ==
  \A s \in Sessions : status[s] = "closed" =>
    \A p \in People : Active(s, p) => <<s, p>> \in ghosts

\* http.rs:918: the owner role is immutable.  While a session is active its
\* owner is its one participant with that role: neither an invite the owner
\* clicks nor a role change takes it away or gives it to another.
OwnerKeepsSeat ==
  \A s \in Sessions : status[s] = "active" =>
    \A p \in People : (p = Owner) <=> (Active(s, p) /\ seat[s][p] = "owner")

\* auth.rs:60-64: a guest's credentials are bound to the session whose invite
\* minted it; it is a participant there and nowhere else.
GuestsStayHome ==
  \A s \in Sessions, g \in Guests : seat[s][g] # "none" => home[g] = s

\* No invite, redemption or role change moves the owner or a guest from the
\* seat it has.
SeatsInOrder == OwnerKeepsSeat /\ GuestsStayHome

\* session_service.rs:94-98: the history row tells why a session ended.  Of the
\* owner, an admin, the reaper and the boot sweep the first one closes it; none
\* of the others rewrites the reason, and no session comes back.
CloseIsFinal ==
  [][\A s \in Sessions : status[s] = "closed" =>
       status'[s] = "closed" /\ reason'[s] = reason[s]]_vars
=============================================================================
