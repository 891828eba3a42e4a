--------------------------- MODULE Targets_proofs ---------------------------
(***************************************************************************)
(* Proofs about Targets, for any number of targets, sessions, handshakes and *)
(* overlapping reloads.                                                      *)
(***************************************************************************)
EXTENDS Targets, TLAPS

\* A row exists from its INSERT on, which create_session makes only once, and
\* before anything else may hold its session.
RowsFirst ==
  /\ \A s \in Sessions : row[s] # "none" => cpc[s] \in {"stored", "done"}
  /\ \A s \in Sessions : cpc[s] = "stored" => row[s] # "none"
  /\ \A s \in Sessions : hub[s] # "none" => row[s] # "none"
  /\ \A w \in Conns : wpc[w] # "idle" => wsess[w] \in Sessions /\ row[wsess[w]] # "none"
  /\ \A a \in Reloads : rpc[a] = "counted" => \A s \in seen[a] : row[s] # "none"

\* A reload that counted drops no target of a session it saw.
CountHolds ==
  \A a \in Reloads : rpc[a] = "counted" => \A s \in seen[a] : Defines(rnew[a], Named(of[s]))

\* What a handshake resolved is still fit for its active session.
ResolutionHolds ==
  \A w \in Conns : wpc[w] = "resolved" /\ row[wsess[w]] = "active" =>
    Faithful(wsess[w], wcmd[w])

\* The target of an active session was there once, and while it is, its edition
\* is among those the session has had.
EditionsHeld ==
  \A s \in Sessions :
    /\ of[s] \in UserTargets => user[of[s]] # "none"
    /\ row[s] = "active" /\ Exists(of[s]) => Edition(of[s]) \in held[s]

\* A reload under way that was previewed has parsed what was previewed.
PreviewHolds ==
  \A a \in Reloads : rpc[a] # "idle" /\ preview[a] # {} => preview[a] = {rnew[a]}

TargetInv ==
  /\ TypeOK /\ RowsFirst /\ CountHolds /\ ResolutionHolds /\ EditionsHeld /\ PreviewHolds
  /\ SessionKeepsTarget /\ ShellMatchesTarget

LEMMA TargetInit == Init => TargetInv
<1> SUFFICES ASSUME Init PROVE TargetInv
  OBVIOUS
<1> USE TargetsAssumption DEF Init
<1>1. TypeOK
  <2>1. file \in Engines
    <3>1. (IF Wordings = 0 THEN 0 ELSE 1) \in Nat OBVIOUS
    <3> QED BY <3>1 DEF Engines
  <2>2. NoTargets \in Engines BY DEF NoTargets, Engines
  <2> QED BY <2>1, <2>2 DEF TypeOK
<1>2. RowsFirst BY DEF RowsFirst
<1>3. CountHolds BY DEF CountHolds
<1>4. ResolutionHolds BY DEF ResolutionHolds
<1>5. PreviewHolds BY DEF PreviewHolds
<1>6. SessionKeepsTarget BY DEF SessionKeepsTarget
<1>7. ShellMatchesTarget BY DEF ShellMatchesTarget
<1>8. EditionsHeld BY DEF EditionsHeld, Exists, Defines, Edition
<1> QED BY <1>1, <1>2, <1>3, <1>4, <1>5, <1>6, <1>7, <1>8 DEF TargetInv

\* What a target was resolved to is an edition of it.
LEMMA ResolvesIsEdition ==
  ASSUME NEW t, NEW c \in Resolves(t)
  PROVE  c = Edition(t) /\ Exists(t)
BY DEF Resolves

\* An edition is one of its target.
LEMMA EditionTyped ==
  ASSUME TypeOK, NEW t \in AllTargets
  PROVE  Edition(t) \in Editions
<1>1. CASE t \in UserTargets BY <1>1 DEF TypeOK, Edition, Editions, AllTargets
<1>2. CASE t \notin UserTargets
  <2>1. t \in Globals /\ engine[t] \in Nat BY <1>2 DEF TypeOK, Engines, AllTargets
  <2> QED BY <1>2, <2>1 DEF Edition, Editions, AllTargets
<1> QED BY <1>1, <1>2

\* create_session and the expiry of its reservation.
LEMMA CreateKeeps ==
  ASSUME TargetInv, NEW s \in Sessions,
         \/ \E t \in AllTargets : Create(s, t)
         \/ CreateStores(s) \/ CreateReserves(s) \/ CreateEnds(s) \/ ReservationExpires(s)
  PROVE  TargetInv'
<1> USE TargetsAssumption
    DEF TargetInv, userVars, sessVars, hubVars, connVars, reloadVars, NoLimit, Asks
<1>1. ASSUME NEW t \in AllTargets, Create(s, t) PROVE TargetInv'
  <2> USE <1>1 DEF Create
  <2>0. row[s] = "none" BY DEF TypeOK, RowsFirst
  <2>1. TypeOK' BY DEF TypeOK
  <2>2. RowsFirst' BY <2>0 DEF RowsFirst, TypeOK
  <2>3. CountHolds' BY <2>0 DEF CountHolds, RowsFirst, TypeOK, Named, Defines
  <2>4. ResolutionHolds' BY <2>0 DEF ResolutionHolds, RowsFirst, TypeOK, Faithful, Edition
  <2>5. PreviewHolds' BY DEF PreviewHolds
  <2>6. SessionKeepsTarget' BY <2>0 DEF SessionKeepsTarget, TypeOK, Exists, Defines
  <2>7. ShellMatchesTarget' BY <2>0 DEF ShellMatchesTarget, TypeOK, Faithful, Edition
  <2>8. EditionsHeld'
    <3> SUFFICES ASSUME NEW q \in Sessions
                 PROVE  (/\ of[q] \in UserTargets => user[of[q]] # "none"
                         /\ row[q] = "active" /\ Exists(of[q]) =>
                              Edition(of[q]) \in held[q])'
      BY DEF EditionsHeld
    <3>1. CASE q = s
      <4>1. of'[q] = t /\ row'[q] = "none" BY <2>0, <3>1 DEF TypeOK
      <4>2. t \in UserTargets => user[t] = "kept" BY DEF Exists, Defines
      <4> QED BY <4>1, <4>2
    <3>2. CASE q # s
      <4>1. of'[q] = of[q] BY <3>2 DEF TypeOK
      <4> QED BY <4>1 DEF EditionsHeld, Exists, Defines, Edition
    <3> QED BY <3>1, <3>2
  <2> QED BY <2>1, <2>2, <2>3, <2>4, <2>5, <2>6, <2>7, <2>8
<1>2. CASE CreateStores(s)
  <2> USE <1>2 DEF CreateStores
  <2>0. row[s] = "none" BY DEF TypeOK, RowsFirst
  <2>1. TypeOK'
    <3>1. {Edition(t) : t \in {q \in {of[s]} : Exists(q)}} \subseteq Editions
      <4>1. \A t \in {q \in {of[s]} : Exists(q)} : t \in AllTargets
        BY DEF Exists, Defines, AllTargets
      <4>2. \A t \in AllTargets : Edition(t) \in Editions BY EditionTyped
      <4> QED BY <4>1, <4>2
    <3>2. held' \in [Sessions -> SUBSET Editions] BY <3>1 DEF TypeOK
    <3> QED BY <3>2 DEF TypeOK
  <2>2. RowsFirst' BY <2>0 DEF RowsFirst, TypeOK
  <2>3. CountHolds' BY DEF CountHolds, Named, Defines
  <2>4. ResolutionHolds' BY <2>0 DEF ResolutionHolds, RowsFirst, TypeOK, Faithful, Edition
  <2>5. PreviewHolds' BY DEF PreviewHolds
  <2>6. SessionKeepsTarget' BY DEF SessionKeepsTarget, TypeOK, Exists, Defines
  <2>7. ShellMatchesTarget' BY <2>0 DEF ShellMatchesTarget, TypeOK, Faithful, Edition, RowsFirst
  <2>8. EditionsHeld'
    <3> SUFFICES ASSUME NEW q \in Sessions
                 PROVE  (/\ of[q] \in UserTargets => user[of[q]] # "none"
                         /\ row[q] = "active" /\ Exists(of[q]) =>
                              Edition(of[q]) \in held[q])'
      BY DEF EditionsHeld
    <3>1. CASE q = s
      <4>1. held'[q] = {Edition(t) : t \in {r \in {of[s]} : Exists(r)}}
        BY <3>1 DEF TypeOK
      <4>2. (Exists(of[q]))' = Exists(of[q]) /\ (Edition(of[q]))' = Edition(of[q])
        BY DEF Exists, Defines, Edition
      <4> QED BY <3>1, <4>1, <4>2 DEF EditionsHeld
    <3>2. CASE q # s
      <4>1. held'[q] = held[q] /\ row'[q] = row[q] BY <3>2 DEF TypeOK
      <4> QED BY <4>1 DEF EditionsHeld, Exists, Defines, Edition
    <3> QED BY <3>1, <3>2
  <2> QED BY <2>1, <2>2, <2>3, <2>4, <2>5, <2>6, <2>7, <2>8
<1>3. CASE CreateReserves(s)
  <2> USE <1>3 DEF CreateReserves
  <2>1. TypeOK' BY DEF TypeOK
  <2>2. RowsFirst' BY DEF RowsFirst, TypeOK
  <2>3. CountHolds' BY DEF CountHolds, Named, Defines
  <2>4. ResolutionHolds' BY DEF ResolutionHolds, Faithful, Edition
  <2>5. PreviewHolds' BY DEF PreviewHolds
  <2>6. SessionKeepsTarget' BY DEF SessionKeepsTarget, Exists, Defines
  <2>7. ShellMatchesTarget' BY DEF ShellMatchesTarget, TypeOK, Faithful, Edition
  <2>8. EditionsHeld' BY DEF EditionsHeld, Exists, Defines, Edition, TypeOK
  <2> QED BY <2>1, <2>2, <2>3, <2>4, <2>5, <2>6, <2>7, <2>8
<1>4. CASE CreateEnds(s)
  <2> USE <1>4 DEF CreateEnds
  <2>1. TypeOK' BY DEF TypeOK
  <2>2. RowsFirst' BY DEF RowsFirst, TypeOK
  <2>3. CountHolds' BY DEF CountHolds, Named, Defines
  <2>4. ResolutionHolds' BY DEF ResolutionHolds, Faithful, Edition
  <2>5. PreviewHolds' BY DEF PreviewHolds
  <2>6. SessionKeepsTarget' BY DEF SessionKeepsTarget, Exists, Defines
  <2>7. ShellMatchesTarget' BY DEF ShellMatchesTarget, Faithful, Edition
  <2>8. EditionsHeld' BY DEF EditionsHeld, Exists, Defines, Edition, TypeOK
  <2> QED BY <2>1, <2>2, <2>3, <2>4, <2>5, <2>6, <2>7, <2>8
<1>5. CASE ReservationExpires(s)
  <2> USE <1>5 DEF ReservationExpires
  <2>1. TypeOK' BY DEF TypeOK
  <2>2. RowsFirst' BY DEF RowsFirst, TypeOK
  <2>3. CountHolds' BY DEF CountHolds, Named, Defines
  <2>4. ResolutionHolds' BY DEF ResolutionHolds, Faithful, Edition
  <2>5. PreviewHolds' BY DEF PreviewHolds
  <2>6. SessionKeepsTarget' BY DEF SessionKeepsTarget, Exists, Defines
  <2>7. ShellMatchesTarget' BY DEF ShellMatchesTarget, TypeOK, Faithful, Edition
  <2>8. EditionsHeld' BY DEF EditionsHeld, Exists, Defines, Edition, TypeOK
  <2> QED BY <2>1, <2>2, <2>3, <2>4, <2>5, <2>6, <2>7, <2>8
<1> QED BY <1>1, <1>2, <1>3, <1>4, <1>5

\* The start of a handshake.
LEMMA LookKeeps ==
  ASSUME TargetInv, NEW w \in Conns, NEW s \in Sessions,
         \/ AttachLooks(w, s)
  PROVE  TargetInv'
<1> USE TargetsAssumption
    DEF TargetInv, userVars, sessVars, hubVars, connVars, reloadVars, NoLimit, Asks
<1>1. CASE AttachLooks(w, s)
  <2> USE <1>1 DEF AttachLooks
  <2>1. TypeOK' BY DEF TypeOK
  <2>2. RowsFirst' BY DEF RowsFirst, TypeOK
  <2>3. CountHolds' BY DEF CountHolds, Named, Defines
  <2>4. ResolutionHolds' BY DEF ResolutionHolds, Faithful, Edition, TypeOK
  <2>5. PreviewHolds' BY DEF PreviewHolds
  <2>6. SessionKeepsTarget' BY DEF SessionKeepsTarget, Exists, Defines
  <2>7. ShellMatchesTarget' BY DEF ShellMatchesTarget, Faithful, Edition
  <2>8. EditionsHeld' BY DEF EditionsHeld, Exists, Defines, Edition, TypeOK
  <2> QED BY <2>1, <2>2, <2>3, <2>4, <2>5, <2>6, <2>7, <2>8
<1> QED BY <1>1

\* The rest of a handshake, with its cleanup.
LEMMA AttachKeeps ==
  ASSUME TargetInv, NEW w \in Conns,
         \/ AttachResolves(w)
         \/ AttachJoins(w)
         \/ AttachFails(w)
         \/ AttachReleases(w)
         \/ AttachCloses(w)
  PROVE  TargetInv'
<1> USE TargetsAssumption
    DEF TargetInv, userVars, sessVars, hubVars, connVars, reloadVars, NoLimit, Asks
<1>1. CASE AttachResolves(w)
  <2> USE <1>1 DEF AttachResolves
  <2>0. \A t : \A c \in Resolves(t) : c \in Editions
    <3> TAKE t
    <3> TAKE c \in Resolves(t)
    <3>1. c = Edition(t) /\ t \in AllTargets
      BY ResolvesIsEdition DEF Exists, Defines, AllTargets
    <3> QED BY <3>1, EditionTyped
  <2>1. TypeOK'
    <3>0. /\ \E to \in {"idle", "resolved", "orphan"} : wpc' = [wpc EXCEPT ![w] = to]
          /\ \/ wcmd' = wcmd
             \/ \E c \in Resolves(of[wsess[w]]) : wcmd' = [wcmd EXCEPT ![w] = c]
      OBVIOUS
    <3> HIDE <1>1
    <3>1. wpc' \in [Conns -> {"idle", "looked", "resolved", "orphan", "closing"}]
      BY <3>0 DEF TypeOK
    <3>2. wcmd \in [Conns -> Editions \cup {<<>>}]
      BY DEF TypeOK
    <3>3. wcmd' \in [Conns -> Editions \cup {<<>>}]
      <4>1. CASE wcmd' = wcmd BY <3>2, <4>1
      <4>2. ASSUME NEW c \in Resolves(of[wsess[w]]),
                   wcmd' = [wcmd EXCEPT ![w] = c]
            PROVE  wcmd' \in [Conns -> Editions \cup {<<>>}]
        <5>1. c \in Editions BY <2>0
        <5> HIDE DEF TargetInv
        <5> QED BY <3>2, <4>2, <5>1
      <4> QED BY <3>0, <4>1, <4>2
    <3> QED BY <1>1, <3>1, <3>3, <3>2 DEF TypeOK
  <2>2. RowsFirst' BY DEF RowsFirst, TypeOK
  <2>3. CountHolds' BY DEF CountHolds, Named, Defines
  <2>4. ResolutionHolds'
    <3> SUFFICES ASSUME NEW x \in Conns, wpc'[x] = "resolved", row[wsess[x]] = "active"
                 PROVE  Faithful(wsess[x], wcmd[x])'
      BY DEF ResolutionHolds
    <3>1. CASE x = w
      <4>1. PICK c \in Resolves(of[wsess[w]]) : wcmd'[w] = c BY <3>1 DEF TypeOK
      <4>2. wsess[w] \in Sessions BY DEF RowsFirst
      <4>3. c = Edition(of[wsess[w]]) /\ Exists(of[wsess[w]])
        BY ResolvesIsEdition
      <4>4. c \in held[wsess[w]] BY <3>1, <4>2, <4>3 DEF EditionsHeld
      <4> QED BY <3>1, <4>1, <4>3, <4>4 DEF Faithful, Edition
    <3>2. CASE x # w
      <4>1. wpc'[x] = wpc[x] /\ wcmd'[x] = wcmd[x] BY <3>2 DEF TypeOK
      <4> QED BY <4>1 DEF ResolutionHolds, Faithful, Edition
    <3> QED BY <3>1, <3>2
  <2>5. PreviewHolds' BY DEF PreviewHolds
  <2>6. SessionKeepsTarget' BY DEF SessionKeepsTarget, Exists, Defines
  <2>7. ShellMatchesTarget' BY DEF ShellMatchesTarget, Faithful, Edition
  <2>8. EditionsHeld' BY DEF EditionsHeld, Exists, Defines, Edition, TypeOK
  <2> QED BY <2>1, <2>2, <2>3, <2>4, <2>5, <2>6, <2>7, <2>8
<1>2. CASE AttachJoins(w)
  <2>0. wcmd[w] \in Editions \cup {<<>>} BY DEF TypeOK
  <2>1. TypeOK'
    <3>1. /\ hub' \in [Sessions -> {"none", "pending", "live"}]
          /\ launched' \in [Sessions -> Editions \cup {<<>>}]
      <4>1. CASE hub[wsess[w]] = "live"
        BY <1>2, <4>1 DEF AttachJoins, TypeOK
      <4>2. CASE hub[wsess[w]] # "live"
        <5>1. /\ hub' = [hub EXCEPT ![wsess[w]] = "live"]
              /\ launched' = [launched EXCEPT ![wsess[w]] = wcmd[w]]
          BY <1>2, <4>2 DEF AttachJoins
        <5>2. /\ hub \in [Sessions -> {"none", "pending", "live"}]
              /\ launched \in [Sessions -> Editions \cup {<<>>}]
          BY DEF TypeOK
        <5> HIDE DEF TargetInv
        <5> QED BY <2>0, <5>1, <5>2
      <4> QED BY <4>1, <4>2
    <3>2. wpc' \in [Conns -> {"idle", "looked", "resolved", "orphan", "closing"}]
      BY <1>2 DEF AttachJoins, TypeOK
    <3> QED BY <1>2, <3>1, <3>2 DEF AttachJoins, TypeOK
  <2> USE <1>2 DEF AttachJoins
  <2>2. RowsFirst' BY DEF RowsFirst, TypeOK
  <2>3. CountHolds' BY DEF CountHolds, Named, Defines
  <2>4. ResolutionHolds' BY DEF ResolutionHolds, Faithful, Edition, TypeOK
  <2>5. PreviewHolds' BY DEF PreviewHolds
  <2>6. SessionKeepsTarget' BY DEF SessionKeepsTarget, Exists, Defines
  <2>7. ShellMatchesTarget' BY DEF ShellMatchesTarget, Faithful, Edition, TypeOK, RowsFirst, ResolutionHolds
  <2>8. EditionsHeld' BY DEF EditionsHeld, Exists, Defines, Edition, TypeOK
  <2> QED BY <2>1, <2>2, <2>3, <2>4, <2>5, <2>6, <2>7, <2>8
<1>3. CASE AttachFails(w)
  <2> USE <1>3 DEF AttachFails
  <2>1. TypeOK' BY DEF TypeOK
  <2>2. RowsFirst' BY DEF RowsFirst, TypeOK
  <2>3. CountHolds' BY DEF CountHolds, Named, Defines
  <2>4. ResolutionHolds' BY DEF ResolutionHolds, Faithful, Edition, TypeOK
  <2>5. PreviewHolds' BY DEF PreviewHolds
  <2>6. SessionKeepsTarget' BY DEF SessionKeepsTarget, Exists, Defines
  <2>7. ShellMatchesTarget' BY DEF ShellMatchesTarget, Faithful, Edition
  <2>8. EditionsHeld' BY DEF EditionsHeld, Exists, Defines, Edition, TypeOK
  <2> QED BY <2>1, <2>2, <2>3, <2>4, <2>5, <2>6, <2>7, <2>8
<1>4. CASE AttachReleases(w)
  <2> USE <1>4 DEF AttachReleases
  <2>1. TypeOK' BY DEF TypeOK
  <2>2. RowsFirst' BY DEF RowsFirst, TypeOK
  <2>3. CountHolds' BY DEF CountHolds, Named, Defines
  <2>4. ResolutionHolds' BY DEF ResolutionHolds, Faithful, Edition, TypeOK
  <2>5. PreviewHolds' BY DEF PreviewHolds
  <2>6. SessionKeepsTarget' BY DEF SessionKeepsTarget, Exists, Defines
  <2>7. ShellMatchesTarget' BY DEF ShellMatchesTarget, Faithful, Edition, TypeOK, RowsFirst
  <2>8. EditionsHeld' BY DEF EditionsHeld, Exists, Defines, Edition, TypeOK
  <2> QED BY <2>1, <2>2, <2>3, <2>4, <2>5, <2>6, <2>7, <2>8
<1>5. CASE AttachCloses(w)
  <2> USE <1>5 DEF AttachCloses, Closes
  <2>1. TypeOK' BY DEF TypeOK
  <2>2. RowsFirst' BY DEF RowsFirst, TypeOK
  <2>3. CountHolds' BY DEF CountHolds, Named, Defines
  <2>4. ResolutionHolds' BY DEF ResolutionHolds, Faithful, Edition, RowsFirst, TypeOK
  <2>5. PreviewHolds' BY DEF PreviewHolds
  <2>6. SessionKeepsTarget' BY DEF SessionKeepsTarget, Exists, Defines, TypeOK
  <2>7. ShellMatchesTarget' BY DEF ShellMatchesTarget, Faithful, Edition, TypeOK
  <2>8. EditionsHeld' BY DEF EditionsHeld, Exists, Defines, Edition, TypeOK
  <2> QED BY <2>1, <2>2, <2>3, <2>4, <2>5, <2>6, <2>7, <2>8
<1> QED BY <1>1, <1>2, <1>3, <1>4, <1>5

\* The end of a session.
LEMMA EndKeeps ==
  ASSUME TargetInv, NEW s \in Sessions,
         \/ ShellEnds(s)
         \/ EndCloses(s)
         \/ OwnerCloses(s)
         \/ StopSession(s)
  PROVE  TargetInv'
<1> USE TargetsAssumption
    DEF TargetInv, userVars, sessVars, hubVars, connVars, reloadVars, NoLimit, Asks
<1>1. CASE ShellEnds(s)
  <2> USE <1>1 DEF ShellEnds
  <2>1. TypeOK' BY DEF TypeOK
  <2>2. RowsFirst' BY DEF RowsFirst, TypeOK
  <2>3. CountHolds' BY DEF CountHolds, Named, Defines
  <2>4. ResolutionHolds' BY DEF ResolutionHolds, Faithful, Edition
  <2>5. PreviewHolds' BY DEF PreviewHolds
  <2>6. SessionKeepsTarget' BY DEF SessionKeepsTarget, Exists, Defines
  <2>7. ShellMatchesTarget' BY DEF ShellMatchesTarget, Faithful, Edition, TypeOK
  <2>8. EditionsHeld' BY DEF EditionsHeld, Exists, Defines, Edition, TypeOK
  <2> QED BY <2>1, <2>2, <2>3, <2>4, <2>5, <2>6, <2>7, <2>8
<1>2. CASE EndCloses(s)
  <2> USE <1>2 DEF EndCloses, Closes
  <2>1. TypeOK' BY DEF TypeOK
  <2>2. RowsFirst' BY DEF RowsFirst, TypeOK
  <2>3. CountHolds' BY DEF CountHolds, Named, Defines
  <2>4. ResolutionHolds' BY DEF ResolutionHolds, Faithful, Edition, RowsFirst, TypeOK
  <2>5. PreviewHolds' BY DEF PreviewHolds
  <2>6. SessionKeepsTarget' BY DEF SessionKeepsTarget, Exists, Defines, TypeOK
  <2>7. ShellMatchesTarget' BY DEF ShellMatchesTarget, Faithful, Edition, TypeOK
  <2>8. EditionsHeld' BY DEF EditionsHeld, Exists, Defines, Edition, TypeOK
  <2> QED BY <2>1, <2>2, <2>3, <2>4, <2>5, <2>6, <2>7, <2>8
<1>3. CASE OwnerCloses(s)
  <2> USE <1>3 DEF OwnerCloses, Closes
  <2>1. TypeOK' BY DEF TypeOK
  <2>2. RowsFirst' BY DEF RowsFirst, TypeOK
  <2>3. CountHolds' BY DEF CountHolds, Named, Defines
  <2>4. ResolutionHolds' BY DEF ResolutionHolds, Faithful, Edition, RowsFirst, TypeOK
  <2>5. PreviewHolds' BY DEF PreviewHolds
  <2>6. SessionKeepsTarget' BY DEF SessionKeepsTarget, Exists, Defines, TypeOK
  <2>7. ShellMatchesTarget' BY DEF ShellMatchesTarget, Faithful, Edition, TypeOK
  <2>8. EditionsHeld' BY DEF EditionsHeld, Exists, Defines, Edition, TypeOK
  <2> QED BY <2>1, <2>2, <2>3, <2>4, <2>5, <2>6, <2>7, <2>8
<1>4. CASE StopSession(s)
  <2> USE <1>4 DEF StopSession
  <2>1. TypeOK' BY DEF TypeOK
  <2>2. RowsFirst' BY DEF RowsFirst, TypeOK
  <2>3. CountHolds' BY DEF CountHolds, Named, Defines
  <2>4. ResolutionHolds' BY DEF ResolutionHolds, Faithful, Edition
  <2>5. PreviewHolds' BY DEF PreviewHolds
  <2>6. SessionKeepsTarget' BY DEF SessionKeepsTarget, Exists, Defines
  <2>7. ShellMatchesTarget' BY DEF ShellMatchesTarget, Faithful, Edition, TypeOK
  <2>8. EditionsHeld' BY DEF EditionsHeld, Exists, Defines, Edition, TypeOK
  <2> QED BY <2>1, <2>2, <2>3, <2>4, <2>5, <2>6, <2>7, <2>8
<1> QED BY <1>1, <1>2, <1>3, <1>4

\* The users' own targets.
LEMMA UserTargetKeeps ==
  ASSUME TargetInv, NEW u \in UserTargets,
         \/ CreateUserTarget(u)
         \/ UpdateUserTarget(u)
         \/ DeleteUserTarget(u)
  PROVE  TargetInv'
<1> USE TargetsAssumption
    DEF TargetInv, userVars, sessVars, hubVars, connVars, reloadVars, NoLimit, Asks
<1>1. CASE CreateUserTarget(u)
  <2> USE <1>1 DEF CreateUserTarget, StoresTarget
  <2>1. TypeOK' BY DEF TypeOK
  <2>2. RowsFirst' BY DEF RowsFirst, TypeOK
  <2>3. CountHolds' BY DEF CountHolds, Named, Defines
  <2>4. ResolutionHolds' BY DEF ResolutionHolds, Faithful, Edition
  <2>5. PreviewHolds' BY DEF PreviewHolds
  <2>6. SessionKeepsTarget' BY DEF SessionKeepsTarget, Exists, Defines, TypeOK
  <2>7. ShellMatchesTarget' BY DEF ShellMatchesTarget, Faithful, Edition
  <2>8. EditionsHeld'
    <3>1. \A q \in Sessions : of[q] # u
      BY TargetsAssumption DEF EditionsHeld, TypeOK
    <3>2. \A q \in Sessions : of[q] \in UserTargets => user'[of[q]] = user[of[q]]
      BY <3>1 DEF TypeOK
    <3> QED BY <3>1, <3>2 DEF EditionsHeld, Exists, Defines, Edition
  <2> QED BY <2>1, <2>2, <2>3, <2>4, <2>5, <2>6, <2>7, <2>8
<1>2. CASE UpdateUserTarget(u)
  <2> USE <1>2 DEF UpdateUserTarget
  <2>1. TypeOK' BY DEF TypeOK
  <2>2. RowsFirst' BY DEF RowsFirst, TypeOK
  <2>3. CountHolds' BY DEF CountHolds, Named, Defines
  <2>4. ResolutionHolds' BY DEF ResolutionHolds, Faithful, Edition, TypeOK, RowsFirst, InUse
  <2>5. PreviewHolds' BY DEF PreviewHolds
  <2>6. SessionKeepsTarget' BY DEF SessionKeepsTarget, Exists, Defines, TypeOK, InUse
  <2>7. ShellMatchesTarget' BY DEF ShellMatchesTarget, Faithful, Edition, TypeOK, InUse
  <2>8. EditionsHeld'
    <3>1. \A q \in Sessions : row[q] = "active" => of[q] # u BY DEF InUse
    <3>2. \A q \in Sessions : row[q] = "active" /\ of[q] \in UserTargets =>
            ver'[of[q]] = ver[of[q]]
      BY <3>1 DEF TypeOK
    <3> QED BY <3>1, <3>2 DEF EditionsHeld, Exists, Defines, Edition
  <2> QED BY <2>1, <2>2, <2>3, <2>4, <2>5, <2>6, <2>7, <2>8
<1>3. CASE DeleteUserTarget(u)
  <2> USE <1>3 DEF DeleteUserTarget
  <2>1. TypeOK' BY DEF TypeOK
  <2>2. RowsFirst' BY DEF RowsFirst, TypeOK
  <2>3. CountHolds' BY DEF CountHolds, Named, Defines
  <2>4. ResolutionHolds' BY DEF ResolutionHolds, Faithful, Edition, TypeOK, RowsFirst, InUse
  <2>5. PreviewHolds' BY DEF PreviewHolds
  <2>6. SessionKeepsTarget' BY DEF SessionKeepsTarget, Exists, Defines, TypeOK, InUse
  <2>7. ShellMatchesTarget' BY DEF ShellMatchesTarget, Faithful, Edition, TypeOK, InUse
  <2>8. EditionsHeld' BY DEF EditionsHeld, Exists, Defines, Edition, TypeOK
  <2> QED BY <2>1, <2>2, <2>3, <2>4, <2>5, <2>6, <2>7, <2>8
<1> QED BY <1>1, <1>2, <1>3

\* The reload, with the preview before it.
LEMMA ReloadKeeps ==
  ASSUME TargetInv, NEW a \in Reloads,
         \/ ValidateTargets(a)
         \/ ReloadReads(a)
         \/ ReloadCounts(a)
         \/ ReloadRefuses(a)
         \/ ReloadStores(a)
  PROVE  TargetInv'
<1> USE TargetsAssumption
    DEF TargetInv, userVars, sessVars, hubVars, connVars, reloadVars, NoLimit, Asks
<1>1. CASE ValidateTargets(a)
  <2> USE <1>1 DEF ValidateTargets
  <2>1. TypeOK' BY DEF TypeOK
  <2>2. RowsFirst' BY DEF RowsFirst, TypeOK
  <2>3. CountHolds' BY DEF CountHolds, Named, Defines
  <2>4. ResolutionHolds' BY DEF ResolutionHolds, Faithful, Edition
  <2>5. PreviewHolds' BY DEF PreviewHolds, TypeOK
  <2>6. SessionKeepsTarget' BY DEF SessionKeepsTarget, Exists, Defines
  <2>7. ShellMatchesTarget' BY DEF ShellMatchesTarget, Faithful, Edition
  <2>8. EditionsHeld' BY DEF EditionsHeld, Exists, Defines, Edition, TypeOK
  <2> QED BY <2>1, <2>2, <2>3, <2>4, <2>5, <2>6, <2>7, <2>8
<1>2. CASE ReloadReads(a)
  <2> USE <1>2 DEF ReloadReads
  <2>0. \/ preview[a] \subseteq {file} /\ rpc' = [rpc EXCEPT ![a] = "read"]
           /\ rnew' = [rnew EXCEPT ![a] = file] /\ preview' = preview
        \/ preview' = [preview EXCEPT ![a] = {}] /\ rpc' = rpc /\ rnew' = rnew
    OBVIOUS
  <2>1. TypeOK'
    <3>1. /\ preview' \in [Reloads -> SUBSET Engines]
          /\ rpc' \in [Reloads -> {"idle", "read", "counted"}]
          /\ rnew' \in [Reloads -> Engines]
      <4>1. /\ preview \in [Reloads -> SUBSET Engines]
            /\ rpc \in [Reloads -> {"idle", "read", "counted"}]
            /\ rnew \in [Reloads -> Engines] /\ file \in Engines
        BY DEF TypeOK
      <4> HIDE <1>2 DEF ReloadReads, TargetInv
      <4> QED BY <2>0, <4>1
    <3> QED BY <3>1 DEF TypeOK
  <2>2. RowsFirst' BY DEF RowsFirst, TypeOK
  <2>3. CountHolds' BY DEF CountHolds, Named, Defines, TypeOK
  <2>4. ResolutionHolds' BY DEF ResolutionHolds, Faithful, Edition
  <2>5. PreviewHolds'
    <3> SUFFICES ASSUME NEW b \in Reloads, rpc'[b] # "idle", preview'[b] # {}
                 PROVE  preview'[b] = {rnew'[b]}
      BY DEF PreviewHolds
    <3>1. CASE b = a
      <4>1. preview[a] \subseteq {file} /\ preview'[a] = preview[a] /\ rnew'[a] = file
        BY <2>0, <3>1 DEF TypeOK
      <4> QED BY <3>1, <4>1
    <3>2. CASE b # a
      <4>1. preview'[b] = preview[b] /\ rnew'[b] = rnew[b] /\ rpc'[b] = rpc[b]
        BY <2>0, <3>2 DEF TypeOK
      <4> QED BY <4>1 DEF PreviewHolds
    <3> QED BY <3>1, <3>2
  <2>6. SessionKeepsTarget' BY DEF SessionKeepsTarget, Exists, Defines
  <2>7. ShellMatchesTarget' BY DEF ShellMatchesTarget, Faithful, Edition
  <2>8. EditionsHeld' BY DEF EditionsHeld, Exists, Defines, Edition, TypeOK
  <2> QED BY <2>1, <2>2, <2>3, <2>4, <2>5, <2>6, <2>7, <2>8
<1>3. CASE ReloadCounts(a)
  <2> USE <1>3 DEF ReloadCounts
  <2>1. TypeOK' BY DEF TypeOK
  <2>2. RowsFirst' BY DEF RowsFirst, TypeOK
  <2>3. CountHolds' BY DEF CountHolds, Named, Defines, TypeOK, StillReferenced, Counted
  <2>4. ResolutionHolds' BY DEF ResolutionHolds, Faithful, Edition
  <2>5. PreviewHolds' BY DEF PreviewHolds, TypeOK
  <2>6. SessionKeepsTarget' BY DEF SessionKeepsTarget, Exists, Defines
  <2>7. ShellMatchesTarget' BY DEF ShellMatchesTarget, Faithful, Edition
  <2>8. EditionsHeld' BY DEF EditionsHeld, Exists, Defines, Edition, TypeOK
  <2> QED BY <2>1, <2>2, <2>3, <2>4, <2>5, <2>6, <2>7, <2>8
<1>4. CASE ReloadRefuses(a)
  <2> USE <1>4 DEF ReloadRefuses
  <2>1. TypeOK' BY DEF TypeOK
  <2>2. RowsFirst' BY DEF RowsFirst, TypeOK
  <2>3. CountHolds' BY DEF CountHolds, Named, Defines, TypeOK
  <2>4. ResolutionHolds' BY DEF ResolutionHolds, Faithful, Edition
  <2>5. PreviewHolds' BY DEF PreviewHolds, TypeOK
  <2>6. SessionKeepsTarget' BY DEF SessionKeepsTarget, Exists, Defines
  <2>7. ShellMatchesTarget' BY DEF ShellMatchesTarget, Faithful, Edition
  <2>8. EditionsHeld' BY DEF EditionsHeld, Exists, Defines, Edition, TypeOK
  <2> QED BY <2>1, <2>2, <2>3, <2>4, <2>5, <2>6, <2>7, <2>8
<1>5. CASE ReloadStores(a)
  <2> USE <1>5 DEF ReloadStores
  <2> DEFINE users == {q \in Sessions : row[q] = "active" /\ of[q] \in Globals}
  <2>0. \A q \in Sessions :
          held'[q] = IF q \in users /\ Defines(rnew[a], of[q])
                       THEN held[q] \cup {<<of[q], rnew[a][of[q]]>>} ELSE held[q]
    OBVIOUS
  <2>1. TypeOK'
    <3>1. \A g \in Globals : <<g, rnew[a][g]>> \in Editions
      BY DEF TypeOK, Engines, Editions, AllTargets
    <3>2. held' \in [Sessions -> SUBSET Editions] BY <3>1 DEF TypeOK
    <3>3. slipped' \subseteq Sessions BY DEF TypeOK
    <3> QED BY <3>2, <3>3 DEF TypeOK
  <2>2. RowsFirst' BY DEF RowsFirst, TypeOK
  <2>3. CountHolds' BY DEF CountHolds, Named, Defines, TypeOK
  <2>4. ResolutionHolds'
    <3>1. \A q \in Sessions : held[q] \subseteq held'[q] BY <2>0
    <3> SUFFICES ASSUME NEW w \in Conns, wpc[w] = "resolved", row[wsess[w]] = "active"
                 PROVE  Faithful(wsess[w], wcmd[w])'
      BY DEF ResolutionHolds
    <3>2. wsess[w] \in Sessions /\ Faithful(wsess[w], wcmd[w])
      BY DEF ResolutionHolds, RowsFirst
    <3>3. of[wsess[w]] \in UserTargets =>
            Edition(of[wsess[w]])' = Edition(of[wsess[w]])
      BY DEF Edition
    <3> QED BY <3>1, <3>2, <3>3 DEF Faithful
  <2>5. PreviewHolds' BY DEF PreviewHolds, TypeOK
  <2>6. SessionKeepsTarget' BY DEF SessionKeepsTarget, Exists, Defines, TypeOK, CountHolds, Named, AllTargets
  <2>7. ShellMatchesTarget'
    <3>1. \A q \in Sessions : held[q] \subseteq held'[q] BY <2>0
    <3>2. \A q \in Sessions : of[q] \in UserTargets => (Edition(of[q]))' = Edition(of[q])
      BY DEF Edition
    <3> QED BY <3>1, <3>2 DEF ShellMatchesTarget, Faithful
  <2>8. EditionsHeld'
    <3> SUFFICES ASSUME NEW q \in Sessions, row[q] = "active", (Exists(of[q]))'
                 PROVE  (Edition(of[q]))' \in held'[q]
      BY DEF EditionsHeld
    <3>1. CASE of[q] \in UserTargets
      <4>1. Exists(of[q]) /\ (Edition(of[q]))' = Edition(of[q])
        BY <3>1 DEF Exists, Defines, Edition
      <4> QED BY <2>0, <4>1 DEF EditionsHeld
    <3>2. CASE of[q] \notin UserTargets
      <4>1. Defines(rnew[a], of[q]) /\ (Edition(of[q]))' = <<of[q], rnew[a][of[q]]>>
        BY <3>2 DEF Exists, Defines, Edition
      <4>2. q \in users BY <4>1 DEF Defines
      <4> QED BY <2>0, <4>1, <4>2
    <3> QED BY <3>1, <3>2
  <2> QED BY <2>1, <2>2, <2>3, <2>4, <2>5, <2>6, <2>7, <2>8
<1> QED BY <1>1, <1>2, <1>3, <1>4, <1>5

\* The file, and a crash with the next start.
LEMMA BootKeeps ==
  ASSUME TargetInv,
         \/ \E f \in [Globals -> 0 .. Wordings] : EditFile(f)
         \/ CrashAndBoot
  PROVE  TargetInv'
<1> USE TargetsAssumption
    DEF TargetInv, userVars, sessVars, hubVars, connVars, reloadVars, NoLimit, Asks
<1>1. ASSUME NEW f \in [Globals -> 0 .. Wordings], EditFile(f) PROVE TargetInv'
  <2> USE <1>1 DEF EditFile
  <2>1. TypeOK'
    <3>1. f \in Engines BY DEF Engines
    <3> QED BY <3>1 DEF TypeOK
  <2>2. RowsFirst' BY DEF RowsFirst
  <2>3. CountHolds' BY DEF CountHolds, Named, Defines
  <2>4. ResolutionHolds' BY DEF ResolutionHolds, Faithful, Edition
  <2>5. PreviewHolds' BY DEF PreviewHolds
  <2>6. SessionKeepsTarget' BY DEF SessionKeepsTarget, Exists, Defines
  <2>7. ShellMatchesTarget' BY DEF ShellMatchesTarget, Faithful, Edition
  <2>8. EditionsHeld' BY DEF EditionsHeld, Exists, Defines, Edition, TypeOK
  <2> QED BY <2>1, <2>2, <2>3, <2>4, <2>5, <2>6, <2>7, <2>8
<1>2. CASE CrashAndBoot
  <2> USE <1>2 DEF CrashAndBoot
  <2>1. TypeOK'
    <3>1. NoTargets \in Engines BY DEF NoTargets, Engines
    <3> QED BY <3>1 DEF TypeOK
  <2>2. RowsFirst' BY DEF RowsFirst, TypeOK
  <2>3. CountHolds' BY DEF CountHolds
  <2>4. ResolutionHolds' BY DEF ResolutionHolds
  <2>5. PreviewHolds' BY DEF PreviewHolds
  <2>6. SessionKeepsTarget' BY DEF SessionKeepsTarget, TypeOK
  <2>7. ShellMatchesTarget' BY DEF ShellMatchesTarget
  <2>8. EditionsHeld' BY DEF EditionsHeld, Exists, Defines, Edition, TypeOK
  <2> QED BY <2>1, <2>2, <2>3, <2>4, <2>5, <2>6, <2>7, <2>8
<1> QED BY <1>1, <1>2

LEMMA TargetStutter == TargetInv /\ UNCHANGED vars => TargetInv'
<1> SUFFICES ASSUME TargetInv, UNCHANGED vars PROVE TargetInv'
  OBVIOUS
<1> USE DEF TargetInv, vars, userVars, sessVars, hubVars, connVars, reloadVars
<1>1. TypeOK' BY DEF TypeOK
<1>2. RowsFirst' BY DEF RowsFirst
<1>3. CountHolds' BY DEF CountHolds, Named, Defines
<1>4. ResolutionHolds' BY DEF ResolutionHolds, Faithful, Edition
<1>5. PreviewHolds' BY DEF PreviewHolds
<1>6. SessionKeepsTarget' BY DEF SessionKeepsTarget, Exists, Defines
<1>7. ShellMatchesTarget' BY DEF ShellMatchesTarget, Faithful, Edition
<1>8. EditionsHeld' BY DEF EditionsHeld, Exists, Defines, Edition
<1> QED BY <1>1, <1>2, <1>3, <1>4, <1>5, <1>6, <1>7, <1>8

LEMMA TargetNext == TargetInv /\ [Next]_vars => TargetInv'
BY CreateKeeps, LookKeeps, AttachKeeps, EndKeeps, UserTargetKeeps, ReloadKeeps,
   BootKeeps, TargetStutter DEF Next

LEMMA TargetAlways == Spec => []TargetInv
BY TargetInit, TargetNext, PTL DEF Spec

\* Every variable keeps its type.
THEOREM TargetsTypeCorrect == Spec => []TypeOK
<1>1. TargetInv => TypeOK BY DEF TargetInv
<1> QED BY <1>1, TargetAlways, PTL

\* No reload, deletion or restart takes the target of an active session, save
\* of those that no count could have seen.
THEOREM TargetsHeld == Spec => []SessionKeepsTarget
<1>1. TargetInv => SessionKeepsTarget BY DEF TargetInv
<1> QED BY <1>1, TargetAlways, PTL

\* No edit of a user's target, no file that no reload stored and no name shared
\* between the namespaces changes what an active session runs, whichever of its
\* handshakes spawned the shell: it is its target, in an edition of its time.
THEOREM ShellsFaithful == Spec => []ShellMatchesTarget
<1>1. TargetInv => ShellMatchesTarget BY DEF TargetInv
<1> QED BY <1>1, TargetAlways, PTL

\* What was previewed is what is stored, however the file and other reloads
\* change meanwhile.
THEOREM PreviewsBind == Spec => ApprovedIsApplied
<1> DEFINE Bound ==
      \A a \in Reloads : ReloadStores(a) /\ preview[a] # {} => preview[a] = {engine'}
<1>1. TargetInv /\ [Next]_vars => [Bound]_vars
  BY DEF TargetInv, PreviewHolds, ReloadStores
<1> QED BY <1>1, TargetAlways, PTL DEF Spec, ApprovedIsApplied
=============================================================================
