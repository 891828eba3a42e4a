---------------------------- MODULE Collab_proofs ----------------------------
(***************************************************************************)
(* Proofs about Collab, for any users and connections, any number of role   *)
(* changes, joins and chat lines, a broadcast ring and a chat history of    *)
(* any capacity.                                                            *)
(***************************************************************************)
EXTENDS Collab, FiniteSetTheorems, SequenceTheorems, TLAPS

\* Every action of the specification, as one flat disjunction.
LEMMA NextCases ==
  ASSUME Next
  PROVE  \/ \E c \in Conns :
              \/ ReadRole(c) \/ AttachTo(c) \/ AddParticipant(c) \/ EnterMain(c)
              \/ Forward(c) \/ ForwardLag(c)
              \/ RoleMessage(c) \/ RoleLag(c) \/ Resync(c)
              \/ Chat(c) \/ Leave(c) \/ RemoveParticipant(c) \/ BreakOff(c)
         \/ \E r \in Requests :
              \/ \E u \in Users, role \in Roles : PutCheck(r, u, role)
              \/ PutStore(r) \/ PutApply(r)
  BY DEF Next, ConnStep

-----------------------------------------------------------------------------
(* The broadcast *)

\* What a message makes of the roster.
After(msg) == IF msg.kind = "left" THEN "absent" ELSE msg.role

LEMMA MessageParts ==
  ASSUME NEW msg \in Messages
  PROVE  /\ msg.kind \in {"joined", "role", "left", "chat"}
         /\ msg.kind = "chat" => msg.line \in 1..MaxChats
         /\ msg.kind # "chat" =>
              /\ msg.user \in Users
              /\ After(msg) \in Roles \cup {"absent"}
              /\ After(msg) = "absent" <=> msg.kind = "left"
              /\ msg.kind # "left" => After(msg) = msg.role
  BY DEF Messages, After, Roles

\* A message in the ring is one that may be there.
LEMMA RingHolds ==
  ASSUME TypeOK, Len(ring) <= tail
  PROVE  /\ Oldest \in Nat \ {0} /\ Oldest <= tail + 1 /\ tail \in Nat
         /\ \A n \in Oldest..tail : Message(n) \in Messages
<1>1. ring \in Seq(Messages) /\ Len(ring) \in Nat /\ tail \in Nat
  BY DEF TypeOK
<1>2. Oldest \in Nat \ {0} /\ Oldest <= tail + 1 BY <1>1 DEF Oldest
<1>3. ASSUME NEW n \in Oldest..tail PROVE Message(n) \in Messages
  <2>1. n + 1 - Oldest \in 1..Len(ring) BY <1>1, <1>2, <1>3 DEF Oldest
  <2> QED BY <1>1, <2>1, ElementOfSeq DEF Message
<1> QED BY <1>1, <1>2, <1>3

\* The same, after a step.
LEMMA RingHoldsNext ==
  ASSUME TypeOK', (Len(ring) <= tail)'
  PROVE  \A n \in Oldest'..tail' : Message(n)' \in Messages
<1>1. ring' \in Seq(Messages) /\ Len(ring') \in Nat /\ tail' \in Nat
  BY DEF TypeOK, Messages
<1>2. Oldest' = tail' + 1 - Len(ring') /\ Len(ring') <= tail' BY DEF Oldest
<1>3. ASSUME NEW n \in Oldest'..tail' PROVE Message(n)' \in Messages
  <2>1. n + 1 - Oldest' \in 1..Len(ring') BY <1>1, <1>2, <1>3
  <2>2. Message(n)' = ring'[n + 1 - Oldest'] BY DEF Message
  <2> QED BY <1>1, <2>1, <2>2, ElementOfSeq
<1> QED BY <1>3

\* A broadcast puts one message behind the others and pushes out one at most.
LEMMA BroadcastShifts ==
  ASSUME TypeOK, Len(ring) <= tail, NEW msg \in Messages, Broadcast(msg)
  PROVE  /\ tail' = tail + 1 /\ Oldest' \in Nat
         /\ Oldest' \in {Oldest, Oldest + 1} /\ Oldest' <= tail + 1
         /\ ring' \in Seq(Messages) /\ Len(ring') <= CollabCap
         /\ Len(ring') <= tail'
         /\ \A n \in Oldest'..tail' :
              Message(n)' = IF n = tail + 1 THEN msg ELSE Message(n)
<1> DEFINE all == Append(ring, msg)
<1>0. /\ ring \in Seq(Messages) /\ Len(ring) \in Nat /\ tail \in Nat
      /\ Len(ring) <= CollabCap /\ CollabCap \in Nat \ {0}
      /\ Len(ring) <= tail
  BY CollabAssumption DEF TypeOK
<1>1. /\ all \in Seq(Messages) /\ all # <<>> /\ Len(all) = Len(ring) + 1
      /\ \A i \in 1..Len(ring) : all[i] = ring[i]
      /\ all[Len(ring) + 1] = msg
  BY <1>0, AppendProperties
<1>2. /\ ring' = IF Len(all) > CollabCap THEN Tail(all) ELSE all
      /\ tail' = tail + 1
  BY DEF Broadcast
<1>a. Oldest = tail + 1 - Len(ring) /\ Oldest' = tail' + 1 - Len(ring')
  BY DEF Oldest
<1> HIDE DEF all
<1>b. Len(all) = Len(ring) + 1 BY <1>1
<1>c. tail' = tail + 1 BY <1>2
<1>3. CASE Len(all) > CollabCap
  <2>1. /\ ring' \in Seq(Messages) /\ Len(ring') = Len(ring)
        /\ \A i \in 1..Len(ring) : ring'[i] = all[i + 1]
    BY <1>0, <1>1, <1>2, <1>3, HeadTailProperties
  <2>l. Len(ring') = Len(ring) BY <2>1
  <2>2. Oldest' = Oldest + 1 /\ Oldest' \in Nat /\ Oldest' <= tail + 1 /\ Oldest \in Nat
    BY <1>0, <1>a, <1>b, <1>c, <1>3, <2>l
  <2>3. ASSUME NEW n \in Oldest'..tail'
        PROVE  Message(n)' = IF n = tail + 1 THEN msg ELSE Message(n)
    <3>0. n \in Int /\ Oldest' <= n /\ n <= tail + 1 BY <1>c, <1>0, <2>2
    <3>1. Message(n)' = ring'[n + 1 - Oldest'] BY DEF Message
    <3>2. n + 1 - Oldest' \in 1..Len(ring) /\ (n + 1 - Oldest') + 1 = n + 1 - Oldest
      BY <1>0, <1>a, <1>c, <2>l, <2>2, <3>0
    <3>3. Message(n)' = all[n + 1 - Oldest] BY <2>1, <3>1, <3>2
    <3>4. CASE n = tail + 1
      <4>1. n + 1 - Oldest = Len(ring) + 1 BY <1>0, <1>a, <3>4
      <4> QED BY <1>1, <3>3, <3>4, <4>1
    <3>5. CASE n # tail + 1
      <4>1. n + 1 - Oldest \in 1..Len(ring) BY <1>0, <1>a, <2>2, <3>0, <3>5
      <4> QED BY <1>1, <3>3, <3>5, <4>1 DEF Message
    <3> QED BY <3>4, <3>5
  <2> QED BY <1>0, <1>c, <2>1, <2>2, <2>3
<1>4. CASE ~(Len(all) > CollabCap)
  <2>1. ring' = all BY <1>2, <1>4
  <2>l. Len(ring') = Len(ring) + 1 BY <1>b, <2>1
  <2>2. Oldest' = Oldest /\ Oldest' \in Nat /\ Oldest' <= tail + 1
    BY <1>0, <1>a, <1>c, <2>l
  <2>3. ASSUME NEW n \in Oldest'..tail'
        PROVE  Message(n)' = IF n = tail + 1 THEN msg ELSE Message(n)
    <3>0. n \in Int /\ Oldest <= n /\ n <= tail + 1 BY <1>c, <1>0, <2>2
    <3>1. Message(n)' = all[n + 1 - Oldest] BY <2>1, <2>2 DEF Message
    <3>2. CASE n = tail + 1
      <4>1. n + 1 - Oldest = Len(ring) + 1 BY <1>0, <1>a, <3>2
      <4> QED BY <1>1, <3>1, <3>2, <4>1
    <3>3. CASE n # tail + 1
      <4>1. n + 1 - Oldest \in 1..Len(ring) BY <1>0, <1>a, <3>0, <3>3
      <4> QED BY <1>1, <3>1, <3>3, <4>1 DEF Message
    <3> QED BY <3>2, <3>3
  <2>4. Len(all) <= CollabCap /\ Len(all) <= tail' BY <1>0, <1>b, <1>c, <1>4
  <2> QED BY <1>0, <1>1, <1>c, <2>1, <2>2, <2>3, <2>4
<1> QED BY <1>3, <1>4

-----------------------------------------------------------------------------
(* Types, and how many handlers hold a user in the session *)

\* The handlers that registered the user and will deregister it.  One that
\* breaks off during the replay does not: the count may stay above.
Counted(u) == {c \in Conns : UserOf[c] = u /\ pc[c] \in {"added", "main", "exiting"}}

CountInv ==
  \A u \in Users :
    /\ roster[u] # "absent" <=> count[u] > 0
    /\ Cardinality(Counted(u)) <= count[u]

TypeInv == TypeOK /\ Len(ring) <= tail /\ CountInv

LEMMA CountedFinite ==
  \A u : IsFiniteSet(Counted(u)) /\ Cardinality(Counted(u)) \in Nat
<1>1. \A u : IsFiniteSet(Counted(u))
  <2> TAKE u
  <2>1. Counted(u) \subseteq Conns BY DEF Counted
  <2> QED BY <2>1, CollabAssumption, FS_Subset
<1> QED BY <1>1, FS_CardinalityType

\* A user with a handler in the session is on the roster.
LEMMA CountedIsPresent ==
  ASSUME TypeOK, CountInv, NEW c \in Conns, pc[c] \in {"added", "main", "exiting"}
  PROVE  count[UserOf[c]] > 0 /\ roster[UserOf[c]] # "absent"
<1> DEFINE u == UserOf[c]
<1>1. u \in Users BY CollabAssumption
<1>2. c \in Counted(u) BY DEF Counted
<1>3. IsFiniteSet(Counted(u)) /\ Cardinality(Counted(u)) \in Nat BY CountedFinite
<1>4. Cardinality(Counted(u)) # 0 BY <1>2, <1>3, FS_EmptySet
<1>5. Cardinality(Counted(u)) <= count[u] /\ count[u] \in Nat
  BY <1>1 DEF CountInv, TypeOK
<1>6. count[u] > 0 BY <1>3, <1>4, <1>5
<1> QED BY <1>1, <1>6 DEF CountInv

\* With a count of one, no second handler is in the session.
LEMMA LastOne ==
  ASSUME TypeOK, CountInv, NEW c \in Conns, NEW d \in Conns, c # d,
         pc[c] \in {"added", "main", "exiting"}, pc[d] \in {"added", "main", "exiting"},
         UserOf[c] = UserOf[d]
  PROVE  count[UserOf[c]] # 1
<1> DEFINE u == UserOf[c]
<1>1. u \in Users BY CollabAssumption
<1>2. c \in Counted(u) /\ d \in Counted(u) \ {c} BY DEF Counted
<1>3. IsFiniteSet(Counted(u)) /\ Cardinality(Counted(u)) \in Nat BY CountedFinite
<1>4. /\ IsFiniteSet(Counted(u) \ {c})
      /\ Cardinality(Counted(u) \ {c}) = Cardinality(Counted(u)) - 1
  BY <1>2, <1>3, FS_RemoveElement
<1>5. Cardinality(Counted(u) \ {c}) # 0 BY <1>2, <1>4, FS_EmptySet
<1>6. Cardinality(Counted(u)) <= count[u] /\ count[u] \in Nat
  BY <1>1 DEF CountInv, TypeOK
<1>7. IsFiniteSet(Counted(u) \ {c}) /\ Cardinality(Counted(u) \ {c}) \in Nat
  BY <1>4, FS_CardinalityType
<1> HIDE DEF u
<1>8. count[u] # 1 BY <1>3, <1>4, <1>5, <1>6, <1>7
<1> QED BY <1>8 DEF u

LEMMA TypeInit == Init => TypeInv
<1> SUFFICES ASSUME Init PROVE TypeInv OBVIOUS
<1>1. TypeOK
  <2>1. <<>> \in Seq(Messages) /\ Len(<<>>) = 0 /\ <<>> \in Seq(1..MaxChats)
    BY EmptySeq
  <2> QED BY <2>1, CollabAssumption DEF Init, TypeOK, Empty, Roles, RequestStates
<1>2. CountInv
  <2> SUFFICES ASSUME NEW u \in Users
               PROVE  (roster[u] # "absent" <=> count[u] > 0)
                        /\ Cardinality(Counted(u)) <= count[u]
    BY DEF CountInv
  <2>1. Counted(u) = {} BY DEF Init, Counted
  <2> QED BY <2>1, FS_EmptySet DEF Init, Empty
<1>3. Len(ring) <= tail BY EmptySeq DEF Init
<1> QED BY <1>1, <1>2, <1>3 DEF TypeInv

\* The chat lines an attaching connection is given.
LEMMA HistoryHolds ==
  ASSUME TypeOK
  PROVE  /\ History \in Seq(1..MaxChats)
         /\ \A i \in 1..Len(History) - 1 : History[i + 1] = History[i] + 1
         /\ chats = 0 => History = <<>>
         /\ chats > 0 => History # <<>> /\ Last(History) = chats
<1> DEFINE kept == IF chats < ChatCap THEN chats ELSE ChatCap
<1>1. chats \in 0..MaxChats /\ ChatCap \in Nat \ {0} /\ MaxChats \in Nat
  BY CollabAssumption DEF TypeOK
<1>2. kept \in Nat /\ kept <= chats /\ (chats > 0 => kept > 0) BY <1>1
<1>3. History = [i \in 1..kept |-> chats - kept + i] BY DEF History
<1> HIDE DEF kept
<1>4. \A i \in 1..kept : chats - kept + i \in 1..MaxChats BY <1>1, <1>2
<1>5. History \in [1..kept -> 1..MaxChats] BY <1>3, <1>4
<1>6. History \in Seq(1..MaxChats) BY <1>2, <1>5, SeqDef
<1>7. DOMAIN History = 1..kept BY <1>5
<1>8. DOMAIN History = 1..Len(History) /\ Len(History) \in Nat BY <1>6, LenProperties
<1>9. Len(History) = kept BY <1>2, <1>6, <1>7, <1>8, LenProperties
<1>10. \A i \in 1..Len(History) - 1 : History[i + 1] = History[i] + 1
  <2> TAKE i \in 1..Len(History) - 1
  <2>1. i \in 1..kept /\ i + 1 \in 1..kept BY <1>2, <1>9
  <2>2. History[i + 1] = chats - kept + (i + 1) /\ History[i] = chats - kept + i
    BY <1>3, <2>1
  <2> QED BY <1>1, <1>2, <2>1, <2>2
<1>11. chats = 0 => History = <<>>
  BY <1>1, <1>2, <1>6, <1>9, EmptySeq
<1>12. ASSUME chats > 0 PROVE History # <<>> /\ Last(History) = chats
  <2>1. kept \in 1..kept BY <1>2, <1>12
  <2>2. History[kept] = chats - kept + kept BY <1>3, <2>1
  <2>3. History # <<>> BY <1>2, <1>9, <1>12, EmptySeq
  <2> QED BY <1>1, <1>2, <1>9, <2>2, <2>3 DEF Last
<1> QED BY <1>6, <1>10, <1>11, <1>12

-----------------------------------------------------------------------------
(* What a step does to the hub: nothing that a connection could see, or one *)
(* message, sent together with the change it tells of.                      *)

Still == UNCHANGED <<ring, tail, roster, chats>>

Speaks(msg) ==
  /\ Broadcast(msg)
  /\ msg.kind = "chat" => chats' = chats + 1 /\ msg.line = chats + 1 /\ roster' = roster
  /\ msg.kind # "chat" =>
       chats' = chats /\ roster' = [roster EXCEPT ![msg.user] = After(msg)]
  /\ msg.kind = "role" =>
       /\ roster[msg.user] # "absent"
       /\ \A c \in Conns : UserOf[c] = msg.user /\ pc[c] = "added" => missed'[c]
  /\ msg.kind \in {"joined", "left"} =>
       \A c \in Conns : UserOf[c] = msg.user => pc[c] \notin {"added", "main"}

LEMMA PutApplySpeaks ==
  ASSUME TypeOK, CountInv, NEW r \in Requests, PutApply(r)
  PROVE  Still \/ \E msg \in Messages : Speaks(msg)
<1> DEFINE u == request[r].user
           role == request[r].role
           msg == [kind |-> "role", user |-> u, role |-> role]
<1>1. u \in Users /\ role \in Roles
  <2>1. request[r] \in RequestStates BY DEF TypeOK
  <2> QED BY <2>1 DEF PutApply, RequestStates
<1>2. CASE roster[u] \in {"absent", role}
  BY <1>2 DEF PutApply, Still, NoBroadcast
<1>3. CASE roster[u] \notin {"absent", role}
  <2>1. msg \in Messages BY <1>1 DEF Messages
  <2>2. Broadcast(msg) /\ roster' = [roster EXCEPT ![u] = role] /\ chats' = chats
        /\ Misses(u)
    BY <1>3 DEF PutApply
  <2>3. \A c \in Conns : UserOf[c] = u /\ pc[c] = "added" => missed'[c]
    BY <2>2 DEF Misses
  <2>4. After(msg) = role BY DEF After
  <2>5. Speaks(msg) BY <1>3, <2>2, <2>3, <2>4 DEF Speaks
  <2> QED BY <2>1, <2>5
<1> QED BY <1>2, <1>3

LEMMA AddParticipantSpeaks ==
  ASSUME TypeOK, CountInv, NEW c \in Conns, AddParticipant(c)
  PROVE  Still \/ \E msg \in Messages : Speaks(msg)
<1> DEFINE u == UserOf[c]
           msg == [kind |-> "joined", user |-> u, role |-> gate[c]]
<1>1. u \in Users /\ gate[c] \in Roles BY CollabAssumption DEF TypeOK
<1>2. CASE count[u] # 0 BY <1>2 DEF AddParticipant, Still, NoBroadcast
<1>3. CASE count[u] = 0
  <2>1. msg \in Messages BY <1>1 DEF Messages
  <2>2. Broadcast(msg) /\ roster' = [roster EXCEPT ![u] = gate[c]] /\ chats' = chats
    BY <1>3 DEF AddParticipant
  <2>3. \A d \in Conns : UserOf[d] = u => pc[d] \notin {"added", "main"}
    BY <1>3, CountedIsPresent
  <2>4. After(msg) = gate[c] BY DEF After
  <2>5. Speaks(msg) BY <2>2, <2>3, <2>4 DEF Speaks
  <2> QED BY <2>1, <2>5
<1> QED BY <1>2, <1>3

LEMMA RemoveParticipantSpeaks ==
  ASSUME TypeOK, CountInv, NEW c \in Conns, RemoveParticipant(c)
  PROVE  Still \/ \E msg \in Messages : Speaks(msg)
<1> DEFINE u == UserOf[c]
           msg == [kind |-> "left", user |-> u]
<1>1. u \in Users BY CollabAssumption
<1>2. CASE count[u] # 1 BY <1>2 DEF RemoveParticipant, Still, NoBroadcast
<1>3. CASE count[u] = 1
  <2>1. msg \in Messages BY <1>1 DEF Messages
  <2>2. /\ Broadcast(msg) /\ roster' = [roster EXCEPT ![u] = "absent"]
        /\ chats' = chats /\ pc[c] = "exiting"
    BY <1>3 DEF RemoveParticipant
  <2>3. \A d \in Conns : UserOf[d] = u => pc[d] \notin {"added", "main"}
    <3> SUFFICES ASSUME NEW d \in Conns, UserOf[d] = u, pc[d] \in {"added", "main"}
                 PROVE  FALSE
      OBVIOUS
    <3>1. d # c BY <2>2
    <3> QED BY <1>3, <2>2, <3>1, LastOne
  <2>4. After(msg) = "absent" BY DEF After
  <2>5. Speaks(msg) BY <2>2, <2>3, <2>4 DEF Speaks
  <2> QED BY <2>1, <2>5
<1> QED BY <1>2, <1>3

LEMMA ChatSpeaks ==
  ASSUME TypeOK, NEW c \in Conns, Chat(c)
  PROVE  \E msg \in Messages : Speaks(msg)
<1> DEFINE msg == [kind |-> "chat", line |-> chats + 1]
<1>1. chats + 1 \in 1..MaxChats BY CollabAssumption DEF TypeOK, Chat
<1>2. msg \in Messages BY <1>1 DEF Messages
<1>3. Speaks(msg) BY DEF Speaks, Chat
<1> QED BY <1>2, <1>3

LEMMA HubSteps ==
  ASSUME TypeOK, CountInv, [Next]_vars
  PROVE  Still \/ \E msg \in Messages : Speaks(msg)
<1> USE DEF Still, hubVars
<1>1. CASE UNCHANGED vars BY <1>1 DEF vars
<1>2. CASE Next
  <2>1. ASSUME NEW r \in Requests,
               (\E u \in Users, role \in Roles : PutCheck(r, u, role)) \/ PutStore(r)
        PROVE  Still
    BY <2>1 DEF PutCheck, PutStore
  <2>2. ASSUME NEW c \in Conns, ReadRole(c) \/ AttachTo(c) \/ EnterMain(c)
        PROVE  Still
    BY <2>2 DEF ReadRole, AttachTo, EnterMain
  <2>3. ASSUME NEW c \in Conns,
               Forward(c) \/ ForwardLag(c) \/ RoleMessage(c) \/ RoleLag(c) \/ Resync(c)
        PROVE  Still
    BY <2>3 DEF Forward, ForwardLag, RoleMessage, RoleLag, Resync
  <2>4. ASSUME NEW c \in Conns, Leave(c) \/ BreakOff(c) PROVE Still
    BY <2>4 DEF Leave, BreakOff, Gone
  <2> QED
    BY <1>2, <2>1, <2>2, <2>3, <2>4, NextCases, PutApplySpeaks, ChatSpeaks,
       AddParticipantSpeaks, RemoveParticipantSpeaks
<1> QED BY <1>1, <1>2

LEMMA HubTyped ==
  ASSUME TypeInv, [Next]_vars
  PROVE  /\ ring' \in Seq(Messages) /\ Len(ring') <= CollabCap
         /\ tail' \in Nat /\ Len(ring') <= tail'
         /\ chats' \in 0..MaxChats
         /\ roster' \in [Users -> Roles \cup {"absent"}]
<1>0. TypeOK /\ CountInv /\ Len(ring) <= tail BY DEF TypeInv
<1>1. CASE Still BY <1>0, <1>1 DEF Still, TypeOK
<1>2. ASSUME NEW msg \in Messages, Speaks(msg)
      PROVE  /\ ring' \in Seq(Messages) /\ Len(ring') <= CollabCap
             /\ tail' \in Nat /\ Len(ring') <= tail'
             /\ chats' \in 0..MaxChats
             /\ roster' \in [Users -> Roles \cup {"absent"}]
  <2>1. Broadcast(msg) BY <1>2 DEF Speaks
  <2>2. /\ ring' \in Seq(Messages) /\ Len(ring') <= CollabCap
        /\ tail' = tail + 1 /\ Len(ring') <= tail'
    BY <1>0, <2>1, BroadcastShifts
  <2>3. tail' \in Nat BY <1>0, <2>2 DEF TypeOK
  <2>4. CASE msg.kind = "chat"
    <3>1. chats' = msg.line /\ roster' = roster BY <1>2, <2>4 DEF Speaks
    <3>2. msg.line \in 1..MaxChats BY <2>4, MessageParts
    <3>3. chats' \in 0..MaxChats BY <3>1, <3>2, CollabAssumption
    <3> QED BY <1>0, <2>2, <2>3, <3>1, <3>3 DEF TypeOK
  <2>5. CASE msg.kind # "chat"
    <3>1. chats' = chats /\ roster' = [roster EXCEPT ![msg.user] = After(msg)]
      BY <1>2, <2>5 DEF Speaks
    <3>2. After(msg) \in Roles \cup {"absent"} BY <2>5, MessageParts
    <3>3. roster' \in [Users -> Roles \cup {"absent"}] BY <1>0, <3>1, <3>2 DEF TypeOK
    <3> QED BY <1>0, <2>2, <2>3, <3>1, <3>3 DEF TypeOK
  <2> QED BY <2>4, <2>5
<1> QED BY <1>0, <1>1, <1>2, HubSteps

Phases == {"off", "read", "attached", "added", "main", "exiting"}

\* The part of TypeOK that is not the hub's.
RestTyped ==
  /\ dbRole \in [Users -> Roles] /\ count \in [Users -> Nat]
  /\ request \in [Requests -> RequestStates]
  /\ pc \in [Conns -> Phases] /\ gate \in [Conns -> Roles]
  /\ fwdAt \in [Conns -> Nat] /\ roleAt \in [Conns -> Nat]
  /\ resync \in [Conns -> BOOLEAN] /\ missed \in [Conns -> BOOLEAN]
  /\ view \in [Conns -> [Users -> Roles \cup {"absent"}]]
  /\ heard \in [Conns -> Seq(1..MaxChats)]
  /\ joins \in 0..MaxJoins

LEMMA RequestTyped ==
  ASSUME TypeOK, NEW r \in Requests,
         (\E u \in Users, role \in Roles : PutCheck(r, u, role)) \/ PutStore(r)
           \/ PutApply(r)
  PROVE  RestTyped'
<1>0. request[r] \in RequestStates BY DEF TypeOK
<1> USE DEF hubVars, connVars, RestTyped, TypeOK, Phases
<1>1. ASSUME NEW u \in Users, NEW role \in Roles, PutCheck(r, u, role) PROVE RestTyped'
  <2>1. [step |-> "store", user |-> u, role |-> role] \in RequestStates
    BY DEF RequestStates
  <2>2. request' \in [Requests -> RequestStates] BY <1>1, <2>1 DEF PutCheck
  <2> QED BY <1>1, <2>2 DEF PutCheck
<1>2. CASE PutStore(r)
  <2>1. /\ request[r].step = "store" /\ request[r].user \in Users
        /\ request[r].role \in Roles
        /\ request[r] = [step |-> "store", user |-> request[r].user,
                         role |-> request[r].role]
    BY <1>0, <1>2 DEF PutStore, RequestStates
  <2>a. \A u, role :
          [[step |-> "store", user |-> u, role |-> role] EXCEPT !.step = "apply"]
            = [step |-> "apply", user |-> u, role |-> role]
    OBVIOUS
  <2>2. [request[r] EXCEPT !.step = "apply"]
          = [step |-> "apply", user |-> request[r].user, role |-> request[r].role]
    <3> DEFINE v == request[r].user
               w == request[r].role
    <3>1. request[r] = [step |-> "store", user |-> v, role |-> w] BY <2>1
    <3> HIDE DEF v, w
    <3>2. [request[r] EXCEPT !.step = "apply"]
            = [[step |-> "store", user |-> v, role |-> w] EXCEPT !.step = "apply"]
      BY <3>1
    <3>3. [request[r] EXCEPT !.step = "apply"] = [step |-> "apply", user |-> v, role |-> w]
      BY <3>2, <2>a
    <3> QED BY <3>3 DEF v, w
  <2>3. [request[r] EXCEPT !.step = "apply"] \in RequestStates
    BY <2>1, <2>2 DEF RequestStates
  <2>4. request' \in [Requests -> RequestStates] BY <1>2, <2>3 DEF PutStore
  <2>5. dbRole' \in [Users -> Roles] BY <1>2, <2>1 DEF PutStore
  <2> QED BY <1>2, <2>4, <2>5 DEF PutStore
<1>3. CASE PutApply(r)
  <2>1. [step |-> "done"] \in RequestStates BY DEF RequestStates
  <2>2. request' \in [Requests -> RequestStates] BY <1>3, <2>1 DEF PutApply
  <2>3. missed' \in [Conns -> BOOLEAN] BY <1>3 DEF PutApply, Misses
  <2> QED BY <1>3, <2>2, <2>3 DEF PutApply
<1> QED BY <1>1, <1>2, <1>3

LEMMA ConnTyped ==
  ASSUME TypeInv, TypeOK, [Next]_vars, NEW c \in Conns, ConnStep(c)
  PROVE  RestTyped'
<1>0. UserOf[c] \in Users /\ MaxJoins \in Nat BY CollabAssumption
<1>r. roster' \in [Users -> Roles \cup {"absent"}] BY HubTyped
<1>e. Empty \in [Users -> Roles \cup {"absent"}] /\ <<>> \in Seq(1..MaxChats)
  BY EmptySeq DEF Empty
<1>o. Len(ring) <= tail BY DEF TypeInv
<1> USE <1>0 DEF hubVars, RestTyped, TypeOK, Phases, Goto
<1>1. CASE ReadRole(c)
  <2>1. joins' \in 0..MaxJoins BY <1>1 DEF ReadRole
  <2> QED BY <1>1, <2>1 DEF ReadRole
<1>2. CASE AttachTo(c) BY <1>2, HistoryHolds DEF AttachTo
<1>3. CASE AddParticipant(c)
  <2>1. missed' \in [Conns -> BOOLEAN] BY <1>3 DEF AddParticipant
  <2>2. view' \in [Conns -> [Users -> Roles \cup {"absent"}]]
    BY <1>3, <1>r DEF AddParticipant
  <2>3. count' \in [Users -> Nat] BY <1>3 DEF AddParticipant
  <2> QED BY <1>3, <2>1, <2>2, <2>3 DEF AddParticipant
<1>4. CASE EnterMain(c) BY <1>4 DEF EnterMain
<1>5. CASE Forward(c)
  <2> DEFINE msg == Message(fwdAt[c])
  <2>1. msg \in Messages BY <1>5, <1>o, RingHolds DEF Forward, InRing
  <2>2. Seen(view[c], msg) \in [Users -> Roles \cup {"absent"}]
    <3>1. view[c] \in [Users -> Roles \cup {"absent"}] OBVIOUS
    <3>2. msg.kind \in {"joined", "role"} => msg.role \in Roles
      BY <2>1, MessageParts DEF Messages
    <3> HIDE DEF msg
    <3> QED BY <3>1, <3>2 DEF Seen
  <2>3. view' \in [Conns -> [Users -> Roles \cup {"absent"}]] BY <1>5, <2>2 DEF Forward
  <2>4. msg.kind = "chat" => Append(heard[c], msg.line) \in Seq(1..MaxChats)
    BY <2>1, MessageParts, AppendProperties
  <2>5. heard' \in [Conns -> Seq(1..MaxChats)] BY <1>5, <2>4 DEF Forward
  <2>6. fwdAt' \in [Conns -> Nat] BY <1>5 DEF Forward
  <2> QED BY <1>5, <2>3, <2>5, <2>6 DEF Forward
<1>6. CASE ForwardLag(c) BY <1>6 DEF ForwardLag
<1>7. CASE RoleMessage(c)
  <2> DEFINE msg == Message(roleAt[c])
  <2>1. msg \in Messages BY <1>7, <1>o, RingHolds DEF RoleMessage, InRing
  <2>2. msg.kind = "role" => msg.role \in Roles BY <2>1 DEF Messages
  <2>3. gate' \in [Conns -> Roles] BY <1>7, <2>2 DEF RoleMessage
  <2>4. roleAt' \in [Conns -> Nat] BY <1>7 DEF RoleMessage
  <2> QED BY <1>7, <2>3, <2>4 DEF RoleMessage
<1>8. CASE RoleLag(c)
  <2>1. Oldest \in Nat BY <1>o, RingHolds
  <2> QED BY <1>8, <2>1 DEF RoleLag
<1>9. CASE Resync(c)
  <2>1. roster[UserOf[c]] # "absent" => roster[UserOf[c]] \in Roles OBVIOUS
  <2>2. gate' \in [Conns -> Roles] BY <1>9, <2>1 DEF Resync
  <2> QED BY <1>9, <2>2 DEF Resync
<1>10. CASE Chat(c) BY <1>10 DEF Chat, connVars
<1>11. CASE Leave(c) BY <1>11, <1>e DEF Leave, Gone, Roles
<1>12. CASE BreakOff(c) BY <1>12, <1>e DEF BreakOff, Gone, Roles
<1>13. CASE RemoveParticipant(c)
  <2>1. count[UserOf[c]] > 0
    BY <1>13, CountedIsPresent DEF TypeInv, RemoveParticipant
  <2>2. count' \in [Users -> Nat] BY <1>13, <2>1 DEF RemoveParticipant
  <2> QED BY <1>13, <2>2 DEF RemoveParticipant
<1> QED
  BY <1>1, <1>2, <1>3, <1>4, <1>5, <1>6, <1>7, <1>8, <1>9, <1>10, <1>11, <1>12, <1>13
     DEF ConnStep

\* A step that leaves the count alone and registers nobody keeps CountInv, when
\* it takes nobody on or off the roster.
LEMMA CountStays ==
  ASSUME CountInv, TypeOK, UNCHANGED count,
         \A u \in Users : roster'[u] # "absent" <=> roster[u] # "absent",
         \A c \in Conns : pc'[c] \in {"added", "main", "exiting"} =>
                            pc[c] \in {"added", "main", "exiting"}
  PROVE  CountInv'
<1> SUFFICES ASSUME NEW u \in Users
             PROVE  /\ roster'[u] # "absent" <=> count'[u] > 0
                    /\ Cardinality(Counted(u)') <= count'[u]
  BY DEF CountInv
<1>1. Counted(u)' \subseteq Counted(u) BY DEF Counted
<1>2. IsFiniteSet(Counted(u)) /\ Cardinality(Counted(u)) \in Nat BY CountedFinite
<1>3. Cardinality(Counted(u)') <= Cardinality(Counted(u)) /\ IsFiniteSet(Counted(u)')
  BY <1>1, <1>2, FS_Subset
<1>4. Cardinality(Counted(u)') \in Nat BY <1>3, FS_CardinalityType
<1>5. count[u] \in Nat /\ count'[u] = count[u] BY DEF TypeOK
<1>6. Cardinality(Counted(u)) <= count[u] BY DEF CountInv
<1>7. roster[u] # "absent" <=> count[u] > 0 BY DEF CountInv
<1>8. roster'[u] # "absent" <=> count'[u] > 0 BY <1>5, <1>7
<1>9. Cardinality(Counted(u)') <= count'[u] BY <1>2, <1>3, <1>4, <1>5, <1>6
<1> QED BY <1>8, <1>9

LEMMA AddParticipantCounts ==
  ASSUME CountInv, TypeOK, NEW c \in Conns, AddParticipant(c)
  PROVE  CountInv'
<1> SUFFICES ASSUME NEW u \in Users
             PROVE  /\ roster'[u] # "absent" <=> count'[u] > 0
                    /\ Cardinality(Counted(u)') <= count'[u]
  BY DEF CountInv
<1>0. /\ count \in [Users -> Nat] /\ roster \in [Users -> Roles \cup {"absent"}]
      /\ gate[c] \in Roles /\ "absent" \notin Roles /\ UserOf[c] \in Users
      /\ count[u] \in Nat
  BY CollabAssumption DEF TypeOK, Roles
<1>1. /\ Cardinality(Counted(u)) <= count[u] /\ (roster[u] # "absent" <=> count[u] > 0)
      /\ IsFiniteSet(Counted(u)) /\ Cardinality(Counted(u)) \in Nat
  BY CountedFinite DEF CountInv
<1>2. /\ pc[c] = "attached" /\ pc' = [pc EXCEPT ![c] = "added"]
      /\ count' = [count EXCEPT ![UserOf[c]] = @ + 1]
      /\ count[UserOf[c]] = 0 => roster' = [roster EXCEPT ![UserOf[c]] = gate[c]]
      /\ count[UserOf[c]] # 0 => roster' = roster
  BY DEF AddParticipant, Goto
<1>3. CASE u = UserOf[c]
  <2>1. Counted(u)' = Counted(u) \cup {c} BY <1>2, <1>3 DEF Counted, TypeOK
  <2>2. Cardinality(Counted(u) \cup {c}) \in {Cardinality(Counted(u)), Cardinality(Counted(u)) + 1}
    BY <1>1, FS_AddElement
  <2>3. count'[u] = count[u] + 1 BY <1>0, <1>2, <1>3
  <2>4. Cardinality(Counted(u)') <= count'[u] BY <1>0, <1>1, <2>1, <2>2, <2>3
  <2>5. roster'[u] # "absent"
    <3>1. CASE count[u] = 0 BY <1>0, <1>2, <1>3, <3>1
    <3>2. CASE count[u] # 0 BY <1>0, <1>1, <1>2, <1>3, <3>2
    <3> QED BY <3>1, <3>2
  <2> QED BY <1>0, <2>3, <2>4, <2>5
<1>4. CASE u # UserOf[c]
  <2>1. Counted(u)' = Counted(u) BY <1>2, <1>4 DEF Counted, TypeOK
  <2>2. count'[u] = count[u] /\ roster'[u] = roster[u] BY <1>0, <1>2, <1>4
  <2> QED BY <1>1, <2>1, <2>2
<1> QED BY <1>3, <1>4

LEMMA RemoveParticipantCounts ==
  ASSUME CountInv, TypeOK, NEW c \in Conns, RemoveParticipant(c)
  PROVE  CountInv'
<1> SUFFICES ASSUME NEW u \in Users
             PROVE  /\ roster'[u] # "absent" <=> count'[u] > 0
                    /\ Cardinality(Counted(u)') <= count'[u]
  BY DEF CountInv
<1>0. /\ count \in [Users -> Nat] /\ roster \in [Users -> Roles \cup {"absent"}]
      /\ UserOf[c] \in Users /\ count[u] \in Nat
  BY CollabAssumption DEF TypeOK
<1>1. /\ Cardinality(Counted(u)) <= count[u] /\ (roster[u] # "absent" <=> count[u] > 0)
      /\ IsFiniteSet(Counted(u)) /\ Cardinality(Counted(u)) \in Nat
  BY CountedFinite DEF CountInv
<1>2. /\ pc[c] = "exiting" /\ pc' = [pc EXCEPT ![c] = "off"]
      /\ count' = [count EXCEPT ![UserOf[c]] = @ - 1]
      /\ count[UserOf[c]] = 1 => roster' = [roster EXCEPT ![UserOf[c]] = "absent"]
      /\ count[UserOf[c]] # 1 => roster' = roster
  BY DEF RemoveParticipant, Goto
<1>3. CASE u = UserOf[c]
  <2>1. Counted(u)' = Counted(u) \ {c} /\ c \in Counted(u)
    BY <1>2, <1>3 DEF Counted, TypeOK
  <2>2. Cardinality(Counted(u) \ {c}) = Cardinality(Counted(u)) - 1
    BY <1>1, <2>1, FS_RemoveElement
  <2>3. count'[u] = count[u] - 1 BY <1>0, <1>2, <1>3
  <2>4. Cardinality(Counted(u)') <= count'[u] BY <1>0, <1>1, <2>1, <2>2, <2>3
  <2>5. Cardinality(Counted(u)) # 0 BY <1>1, <2>1, FS_EmptySet
  <2>6. count[u] > 0 BY <1>0, <1>1, <2>5
  <2>7. roster'[u] # "absent" <=> count'[u] > 0
    <3>1. CASE count[u] = 1
      <4>1. roster'[u] = "absent" BY <1>0, <1>2, <1>3, <3>1
      <4> QED BY <2>3, <3>1, <4>1
    <3>2. CASE count[u] # 1
      <4>1. roster'[u] # "absent" BY <1>1, <1>2, <1>3, <2>6, <3>2
      <4>2. count'[u] > 0 BY <1>0, <2>3, <2>6, <3>2
      <4> QED BY <4>1, <4>2
    <3> QED BY <3>1, <3>2
  <2> QED BY <2>4, <2>7
<1>4. CASE u # UserOf[c]
  <2>1. Counted(u)' = Counted(u) BY <1>2, <1>4 DEF Counted, TypeOK
  <2>2. count'[u] = count[u] /\ roster'[u] = roster[u] BY <1>0, <1>2, <1>4
  <2> QED BY <1>1, <2>1, <2>2
<1> QED BY <1>3, <1>4

LEMMA PutApplyCounts ==
  ASSUME CountInv, TypeOK, NEW r \in Requests, PutApply(r)
  PROVE  CountInv'
<1>1. request[r].user \in Users /\ request[r].role \in Roles
  <2>1. request[r] \in RequestStates BY DEF TypeOK
  <2> QED BY <2>1 DEF PutApply, RequestStates
<1>2. "absent" \notin Roles BY DEF Roles
<1>3. \A u \in Users : roster'[u] # "absent" <=> roster[u] # "absent"
  BY <1>1, <1>2 DEF PutApply, TypeOK
<1>4. UNCHANGED <<count, pc>> BY DEF PutApply
<1> QED BY <1>3, <1>4, CountStays

LEMMA CountNext ==
  ASSUME CountInv, TypeOK, [Next]_vars
  PROVE  CountInv'
<1>0. CountInv /\ TypeOK OBVIOUS
<1> USE DEF hubVars, connVars, Goto, TypeOK
<1>1. CASE UNCHANGED vars BY <1>1, CountStays DEF vars
<1>2. ASSUME NEW r \in Requests,
             (\E u \in Users, role \in Roles : PutCheck(r, u, role)) \/ PutStore(r)
      PROVE  CountInv'
  <2>1. UNCHANGED <<count, pc, roster>> BY <1>2 DEF PutCheck, PutStore
  <2> QED BY <1>0, <2>1, CountStays
<1>3. ASSUME NEW c \in Conns,
             \/ ReadRole(c) \/ AttachTo(c) \/ EnterMain(c)
             \/ Forward(c) \/ ForwardLag(c) \/ RoleMessage(c) \/ RoleLag(c) \/ Resync(c)
             \/ Chat(c) \/ Leave(c) \/ BreakOff(c)
      PROVE  CountInv'
  <2>1. UNCHANGED <<count, roster>>
    BY <1>3 DEF ReadRole, AttachTo, EnterMain, Forward, ForwardLag, RoleMessage, RoleLag,
                Resync, Chat, Leave, BreakOff, Gone
  <2>2. \A d \in Conns : pc'[d] \in {"added", "main", "exiting"} =>
                           pc[d] \in {"added", "main", "exiting"}
    <3>1. CASE ReadRole(c) BY <3>1 DEF ReadRole
    <3>2. CASE AttachTo(c) BY <3>2 DEF AttachTo
    <3>3. CASE EnterMain(c) BY <3>3 DEF EnterMain
    <3>4. CASE Leave(c) BY <3>4 DEF Leave, Gone
    <3>5. CASE BreakOff(c) BY <3>5 DEF BreakOff, Gone
    <3>6. CASE \/ Forward(c) \/ ForwardLag(c) \/ RoleMessage(c) \/ RoleLag(c)
               \/ Resync(c) \/ Chat(c)
      BY <3>6 DEF Forward, ForwardLag, RoleMessage, RoleLag, Resync, Chat
    <3> QED BY <1>3, <3>1, <3>2, <3>3, <3>4, <3>5, <3>6
  <2> HIDE DEF TypeOK
  <2> QED BY <1>0, <2>1, <2>2, CountStays
<1> HIDE DEF TypeOK
<1> QED
  BY <1>1, <1>2, <1>3, NextCases, AddParticipantCounts, RemoveParticipantCounts,
     PutApplyCounts

LEMMA TypeNext == TypeInv /\ [Next]_vars => TypeInv'
<1> SUFFICES ASSUME TypeInv, [Next]_vars PROVE TypeInv' OBVIOUS
<1>0. TypeOK /\ CountInv BY DEF TypeInv
<1>1. RestTyped'
  <2>1. CASE UNCHANGED vars
    BY <1>0, <2>1 DEF vars, hubVars, connVars, TypeOK, RestTyped, Phases
  <2>2. CASE Next BY <1>0, <2>2, ConnTyped, RequestTyped DEF Next
  <2> QED BY <2>1, <2>2
<1>2. TypeOK' BY <1>1, HubTyped DEF TypeOK, RestTyped, Phases
<1>3. CountInv' BY <1>0, CountNext
<1>4. (Len(ring) <= tail)' BY HubTyped
<1> QED BY <1>2, <1>3, <1>4 DEF TypeInv

THEOREM TypeInvariant == Spec => []TypeInv
BY TypeInit, TypeNext, PTL DEF Spec

\* Every reachable state has the types TypeOK gives.
THEOREM CollabTypeCorrect == Spec => []TypeOK
<1>1. TypeInv => TypeOK BY DEF TypeInv
<1> QED BY <1>1, TypeInvariant, PTL

-----------------------------------------------------------------------------
(* The roster is what the messages in the ring made of it.                  *)

\* Message n tells who u is now; no message from m to n does.
About(n, u) == Message(n).kind # "chat" /\ Message(n).user = u
Quiet(m, n, u) == \A k \in m..n : ~About(k, u)

\* The last message about a user left the roster as it is (and a message has a
\* last and a next one after it); a role change follows no departure.
Latest == \A u \in Users, n \in Oldest..tail :
  About(n, u) /\ Quiet(n + 1, tail, u) => After(Message(n)) = roster[u]
SomeLatest == \A u \in Users, n \in Oldest..tail :
  About(n, u) => \E m \in n..tail : About(m, u) /\ Quiet(m + 1, tail, u)
SomeNext == \A u \in Users, m \in Oldest..tail :
  ~Quiet(m + 1, tail, u) => \E n \in m + 1..tail : About(n, u) /\ Quiet(m + 1, n - 1, u)
RolesFollow == \A u \in Users, m, n \in Oldest..tail :
  m < n /\ About(m, u) /\ About(n, u) /\ Quiet(m + 1, n - 1, u)
    /\ Message(n).kind = "role" => After(Message(m)) # "absent"

RosterInv == Latest /\ SomeLatest /\ SomeNext /\ RolesFollow

\* The ring after a broadcast, in these words.
LEMMA SpeaksShifts ==
  ASSUME TypeInv, NEW msg \in Messages, Speaks(msg)
  PROVE  /\ tail \in Nat /\ tail' = tail + 1
         /\ Oldest \in Nat \ {0} /\ Oldest' \in Nat \ {0}
         /\ Oldest <= Oldest' /\ Oldest' <= tail + 1
         /\ \A n \in Oldest'..tail : n \in Oldest..tail /\ Message(n)' = Message(n)
         /\ Message(tail)' = msg
<1>1. TypeOK /\ Len(ring) <= tail /\ Broadcast(msg) BY DEF TypeInv, Speaks
<1>2. /\ tail \in Nat /\ tail' = tail + 1
      /\ Oldest \in Nat \ {0} /\ Oldest' \in {Oldest, Oldest + 1} /\ Oldest' <= tail + 1
  BY <1>1, RingHolds, BroadcastShifts
<1>3. Oldest' \in Nat \ {0} /\ Oldest <= Oldest' BY <1>2
<1>4. \A n \in Oldest'..tail' : Message(n)' = IF n = tail + 1 THEN msg ELSE Message(n)
  BY <1>1, BroadcastShifts
<1>5. ASSUME NEW n \in Oldest'..tail
      PROVE  n \in Oldest..tail /\ Message(n)' = Message(n)
  <2>1. n \in Oldest..tail /\ n \in Oldest'..tail' /\ n # tail + 1 BY <1>2, <1>3
  <2> QED BY <1>4, <2>1
<1>6. Message(tail)' = msg
  <2>1. tail' \in Oldest'..tail' BY <1>2, <1>3
  <2>2. \A n \in Oldest'..tail' : n = tail' => Message(n)' = msg BY <1>2, <1>4
  <2>3. Message(tail)' = ring'[tail' + 1 - Oldest'] BY DEF Message
  <2>4. \A n : Message(n)' = ring'[n + 1 - Oldest'] BY DEF Message
  <2> QED BY <2>1, <2>2, <2>3, <2>4
<1> QED BY <1>2, <1>3, <1>5, <1>6

LEMMA AboutShifts ==
  ASSUME TypeInv, NEW msg \in Messages, Speaks(msg), NEW u
  PROVE  /\ \A n \in Oldest'..tail : About(n, u)' <=> About(n, u)
         /\ About(tail, u)' <=> msg.kind # "chat" /\ msg.user = u
         /\ \A m \in Nat, n \in Nat : Oldest' <= m /\ n <= tail =>
              (Quiet(m, n, u)' <=> Quiet(m, n, u))
         /\ \A m \in Nat : Oldest' <= m /\ m <= tail + 1 =>
              (Quiet(m, tail, u)' <=> Quiet(m, tail, u) /\ ~About(tail, u)')
<1>1. /\ tail \in Nat /\ tail' = tail + 1 /\ Oldest' \in Nat /\ Oldest' <= tail + 1
      /\ \A n \in Oldest'..tail : Message(n)' = Message(n)
      /\ Message(tail)' = msg
  BY SpeaksShifts
<1>2. \A n \in Oldest'..tail : About(n, u)' <=> About(n, u) BY <1>1 DEF About
<1>3. About(tail, u)' <=> msg.kind # "chat" /\ msg.user = u BY <1>1 DEF About
<1>4. ASSUME NEW m \in Nat, NEW n \in Nat, Oldest' <= m, n <= tail
      PROVE  Quiet(m, n, u)' <=> Quiet(m, n, u)
  <2>1. \A k \in m..n : k \in Oldest'..tail BY <1>1, <1>4
  <2> QED BY <1>2, <2>1 DEF Quiet
<1>5. ASSUME NEW m \in Nat, Oldest' <= m, m <= tail + 1
      PROVE  Quiet(m, tail, u)' <=> Quiet(m, tail, u) /\ ~About(tail, u)'
  <2>1. m..tail' = (m..tail) \cup {tail'} BY <1>1, <1>5
  <2>2. \A k \in m..tail : k \in Oldest'..tail BY <1>1, <1>5
  <2>3. Quiet(m, tail, u)' <=> \A k \in m..tail' : ~About(k, u)' BY DEF Quiet
  <2>4. \A k : k = tail' => (About(k, u)' <=> About(tail, u)') BY DEF About, Message
  <2> QED BY <1>2, <2>1, <2>2, <2>3, <2>4 DEF Quiet
<1> QED BY <1>2, <1>3, <1>4, <1>5

LEMMA RosterShifts ==
  ASSUME TypeInv, NEW msg \in Messages, Speaks(msg), NEW u \in Users
  PROVE  roster'[u] = IF About(tail, u)' THEN After(msg) ELSE roster[u]
<1>1. About(tail, u)' <=> msg.kind # "chat" /\ msg.user = u BY AboutShifts
<1>2. roster \in [Users -> Roles \cup {"absent"}] BY DEF TypeInv, TypeOK
<1>3. CASE msg.kind = "chat" BY <1>1, <1>3 DEF Speaks
<1>4. CASE msg.kind # "chat" BY <1>1, <1>2, <1>4 DEF Speaks
<1> QED BY <1>3, <1>4

LEMMA RosterSpeaks ==
  ASSUME TypeInv, RosterInv, NEW msg \in Messages, Speaks(msg)
  PROVE  RosterInv'
<1>1. /\ tail \in Nat /\ tail' = tail + 1
      /\ Oldest \in Nat \ {0} /\ Oldest' \in Nat \ {0}
      /\ Oldest <= Oldest' /\ Oldest' <= tail + 1
      /\ \A n \in Oldest'..tail : n \in Oldest..tail /\ Message(n)' = Message(n)
      /\ Message(tail)' = msg
  BY SpeaksShifts
<1>2. \A n \in Oldest'..tail' : n \in Oldest'..tail \/ n = tail' BY <1>1
<1>t. /\ \A n : n = tail' => Message(n)' = msg
      /\ \A u, n : n = tail' => (About(n, u)' <=> About(tail, u)')
  BY <1>1 DEF Message, About
<1>e. \A n, m, u : n = tail' /\ m = n + 1 => Quiet(m, tail, u)' BY <1>1 DEF Quiet
<1>3. Latest'
  <2> SUFFICES ASSUME NEW u \in Users, NEW n \in Oldest'..tail',
                      About(n, u)', Quiet(n + 1, tail, u)'
               PROVE  After(Message(n)') = roster'[u]
    BY DEF Latest, After
  <2>1. CASE n = tail' BY <2>1, <1>t, RosterShifts
  <2>2. CASE n \in Oldest'..tail
    <3>1. n + 1 \in Nat /\ Oldest' <= n + 1 /\ n + 1 <= tail + 1 BY <1>1, <2>2
    <3>2. Quiet(n + 1, tail, u) /\ ~About(tail, u)' BY <3>1, AboutShifts
    <3>a. About(n, u) BY <2>2, AboutShifts
    <3>b. n \in Oldest..tail BY <1>1, <2>2
    <3>3. About(n, u) /\ n \in Oldest..tail BY <3>a, <3>b
    <3>4. After(Message(n)) = roster[u] BY <3>2, <3>3 DEF RosterInv, Latest
    <3>5. roster'[u] = roster[u] BY <3>2, RosterShifts
    <3> QED BY <1>1, <2>2, <3>4, <3>5
  <2> QED BY <1>2, <2>1, <2>2
<1>4. SomeLatest'
  <2> SUFFICES ASSUME NEW u \in Users, NEW n \in Oldest'..tail', About(n, u)'
               PROVE  \E m \in n..tail' : About(m, u)' /\ Quiet(m + 1, tail, u)'
    BY DEF SomeLatest
  <2>1. CASE About(tail, u)'
    <3>1. tail' \in n..tail' BY <1>1
    <3> QED BY <1>t, <1>e, <2>1, <3>1
  <2>2. CASE ~About(tail, u)'
    <3>1. n \in Oldest'..tail BY <1>2, <1>t, <2>2
    <3>2. About(n, u) /\ n \in Oldest..tail BY <1>1, <3>1, AboutShifts
    <3>3. PICK m \in n..tail : About(m, u) /\ Quiet(m + 1, tail, u)
      BY <3>2 DEF RosterInv, SomeLatest
    <3>4. m \in Oldest'..tail /\ m + 1 \in Nat /\ Oldest' <= m + 1 /\ m + 1 <= tail + 1
          /\ m \in n..tail'
      BY <1>1, <3>1
    <3>5. About(m, u)' /\ Quiet(m + 1, tail, u)' BY <2>2, <3>3, <3>4, AboutShifts
    <3> QED BY <3>4, <3>5
  <2> QED BY <2>1, <2>2
<1>5. SomeNext'
  <2> SUFFICES ASSUME NEW u \in Users, NEW m \in Oldest'..tail', ~Quiet(m + 1, tail, u)'
               PROVE  \E n \in m + 1..tail' : About(n, u)' /\ Quiet(m + 1, n - 1, u)'
    BY DEF SomeNext
  <2>1. m \in Oldest'..tail BY <1>2, <1>e
  <2>2. m \in Oldest..tail /\ m + 1 \in Nat /\ Oldest' <= m + 1 /\ m + 1 <= tail + 1
    BY <1>1, <2>1
  <2>3. CASE Quiet(m + 1, tail, u)
    <3>1. About(tail, u)' BY <2>2, <2>3, AboutShifts
    <3>2. tail' \in m + 1..tail' /\ tail' - 1 = tail BY <1>1, <2>1
    <3>3. \A n \in Nat : n <= tail => (Quiet(m + 1, n, u)' <=> Quiet(m + 1, n, u))
      BY <2>2, AboutShifts
    <3>4. \A n : n = tail => n \in Nat /\ n <= tail BY <1>1
    <3>5. \A n : n = tail' => n - 1 = tail BY <3>2
    <3>6. \A n : n = tail' => Quiet(m + 1, n - 1, u)' BY <2>3, <3>3, <3>4, <3>5
    <3> QED BY <1>t, <3>1, <3>2, <3>6
  <2>4. CASE ~Quiet(m + 1, tail, u)
    <3>1. PICK n \in m + 1..tail : About(n, u) /\ Quiet(m + 1, n - 1, u)
      BY <2>2, <2>4 DEF RosterInv, SomeNext
    <3>2. n \in Oldest'..tail /\ n - 1 \in Nat /\ n - 1 <= tail /\ n \in m + 1..tail'
      BY <1>1, <2>2
    <3>3. About(n, u)' /\ Quiet(m + 1, n - 1, u)' BY <2>2, <3>1, <3>2, AboutShifts
    <3> QED BY <3>2, <3>3
  <2> QED BY <2>3, <2>4
<1>6. RolesFollow'
  <2> SUFFICES ASSUME NEW u \in Users, NEW m \in Oldest'..tail', NEW n \in Oldest'..tail',
                      m < n, About(m, u)', About(n, u)', Quiet(m + 1, n - 1, u)',
                      Message(n)'.kind = "role"
               PROVE  After(Message(m)') # "absent"
    BY DEF RolesFollow, After
  <2>1. m \in Oldest'..tail /\ m \in Oldest..tail /\ m + 1 \in Nat /\ Oldest' <= m + 1
        /\ n - 1 \in Nat /\ n - 1 <= tail
    BY <1>1
  <2>2. About(m, u) /\ Quiet(m + 1, n - 1, u) /\ Message(m)' = Message(m)
    BY <1>1, <2>1, AboutShifts
  <2>3. CASE n = tail'
    <3>1. n - 1 = tail BY <1>1, <2>3
    <3>2. After(Message(m)) = roster[u] BY <2>1, <2>2, <3>1 DEF RosterInv, Latest
    <3>3. msg.kind = "role" /\ msg.user = u BY <1>t, <2>3, AboutShifts
    <3>4. roster[u] # "absent" BY <3>3 DEF Speaks
    <3> QED BY <2>2, <3>2, <3>4
  <2>4. CASE n \in Oldest'..tail
    <3>1. n \in Oldest..tail /\ Message(n)' = Message(n) /\ About(n, u)
      BY <1>1, <2>4, AboutShifts
    <3> QED BY <2>1, <2>2, <3>1 DEF RosterInv, RolesFollow
  <2> QED BY <1>2, <2>3, <2>4
<1> QED BY <1>3, <1>4, <1>5, <1>6 DEF RosterInv

LEMMA RosterStep == TypeInv /\ RosterInv /\ [Next]_vars => RosterInv'
<1> SUFFICES ASSUME TypeInv, RosterInv, [Next]_vars PROVE RosterInv' OBVIOUS
<1>1. CASE Still
  <2>1. UNCHANGED <<ring, tail, roster>> BY <1>1 DEF Still
  <2> QED BY <2>1 DEF RosterInv, Latest, SomeLatest, SomeNext, RolesFollow, Quiet, About,
                      Message, Oldest, After
<1> QED BY <1>1, RosterSpeaks, HubSteps DEF TypeInv

LEMMA RosterInit == Init => RosterInv
<1> SUFFICES ASSUME Init PROVE RosterInv OBVIOUS
<1>1. Oldest = 1 /\ tail = 0 BY EmptySeq DEF Init, Oldest
<1>2. Oldest..tail = {} BY <1>1
<1> QED BY <1>2 DEF RosterInv, Latest, SomeLatest, SomeNext, RolesFollow

-----------------------------------------------------------------------------
(* A step seen from one connection: its own, or one that leaves it alone.   *)

Same(c) ==
  /\ pc'[c] = pc[c] /\ gate'[c] = gate[c] /\ fwdAt'[c] = fwdAt[c]
  /\ roleAt'[c] = roleAt[c] /\ resync'[c] = resync[c]
  /\ view'[c] = view[c] /\ heard'[c] = heard[c]
  /\ missed[c] => missed'[c]

Own(c) ==
  \/ ReadRole(c) \/ AttachTo(c) \/ AddParticipant(c) \/ EnterMain(c)
  \/ Forward(c) \/ ForwardLag(c)
  \/ RoleMessage(c) \/ RoleLag(c) \/ Resync(c)
  \/ Leave(c) \/ RemoveParticipant(c) \/ BreakOff(c)

LEMMA OthersLeaveAlone ==
  ASSUME TypeOK, NEW c \in Conns, NEW d \in Conns, c # d, Own(d)
  PROVE  Same(c)
<1> USE DEF Same, TypeOK, Goto, hubVars
<1>1. CASE ReadRole(d) BY <1>1 DEF ReadRole
<1>2. CASE AttachTo(d) BY <1>2 DEF AttachTo
<1>3. CASE AddParticipant(d) BY <1>3 DEF AddParticipant
<1>4. CASE EnterMain(d) BY <1>4 DEF EnterMain
<1>5. CASE Forward(d) BY <1>5 DEF Forward
<1>6. CASE ForwardLag(d) BY <1>6 DEF ForwardLag
<1>7. CASE RoleMessage(d) BY <1>7 DEF RoleMessage
<1>8. CASE RoleLag(d) BY <1>8 DEF RoleLag
<1>9. CASE Resync(d) BY <1>9 DEF Resync
<1>10. CASE Leave(d) BY <1>10 DEF Leave, Gone
<1>11. CASE RemoveParticipant(d) BY <1>11 DEF RemoveParticipant
<1>12. CASE BreakOff(d) BY <1>12 DEF BreakOff, Gone
<1> HIDE DEF Same, TypeOK, Goto, hubVars
<1> QED
  BY <1>1, <1>2, <1>3, <1>4, <1>5, <1>6, <1>7, <1>8, <1>9, <1>10, <1>11, <1>12 DEF Own

LEMMA ConnCases ==
  ASSUME TypeOK, [Next]_vars, NEW c \in Conns
  PROVE  Own(c) \/ Same(c)
<1>1. CASE UNCHANGED vars BY <1>1 DEF vars, connVars, Same
<1>2. CASE Next
  <2>1. ASSUME NEW r \in Requests,
               (\E u \in Users, role \in Roles : PutCheck(r, u, role)) \/ PutStore(r)
        PROVE  Same(c)
    BY <2>1 DEF PutCheck, PutStore, connVars, Same
  <2>2. ASSUME NEW r \in Requests, PutApply(r) PROVE Same(c)
    BY <2>2 DEF PutApply, Misses, Same, TypeOK
  <2>3. ASSUME NEW d \in Conns, Chat(d) PROVE Same(c)
    BY <2>3 DEF Chat, connVars, Same
  <2>4. ASSUME NEW d \in Conns, Own(d) PROVE Own(c) \/ Same(c)
    BY <2>4, OthersLeaveAlone
  <2> QED BY <1>2, <2>1, <2>2, <2>3, <2>4, NextCases DEF Own
<1> QED BY <1>1, <1>2

\* What a connection does by itself the others do not see, but for its coming
\* and going on the roster.
LEMMA OwnIsStill ==
  ASSUME NEW c \in Conns, Own(c)
  PROVE  AddParticipant(c) \/ RemoveParticipant(c) \/ Still
BY DEF Own, Still, hubVars, ReadRole, AttachTo, EnterMain, Forward, ForwardLag,
       RoleMessage, RoleLag, Resync, Leave, BreakOff, Gone

-----------------------------------------------------------------------------
(* The page's view *)

\* The forwarder has not lost a message.
Reads(c) == fwdAt[c] >= Oldest

\* Nothing to come about u: the view has u right.  Something to come: if the
\* view has no u, the first of it brings u or takes u off.
UserSeen(c, u) ==
  /\ Quiet(fwdAt[c], tail, u) => view[c][u] = roster[u]
  /\ view[c][u] = "absent" /\ ~Quiet(fwdAt[c], tail, u) =>
       \E n \in fwdAt[c]..tail : About(n, u) /\ Message(n).kind # "role"

ViewOf(c) ==
  pc[c] \in {"attached", "added", "main"} /\ Reads(c) =>
    /\ fwdAt[c] <= tail + 1
    /\ pc[c] # "attached" => \A u \in Users : UserSeen(c, u)

LEMMA ViewSpeaks ==
  ASSUME TypeInv, NEW msg \in Messages, Speaks(msg), NEW c \in Conns, Same(c), ViewOf(c)
  PROVE  ViewOf(c)'
<1>1. /\ tail \in Nat /\ tail' = tail + 1
      /\ Oldest \in Nat \ {0} /\ Oldest' \in Nat \ {0}
      /\ Oldest <= Oldest' /\ Oldest' <= tail + 1
      /\ \A n \in Oldest'..tail : n \in Oldest..tail /\ Message(n)' = Message(n)
      /\ Message(tail)' = msg
  BY SpeaksShifts
<1>t. /\ \A n : n = tail' => Message(n)' = msg
      /\ \A u, n : n = tail' => (About(n, u)' <=> About(tail, u)')
  BY <1>1 DEF Message, About
<1>s. pc'[c] = pc[c] /\ fwdAt'[c] = fwdAt[c] /\ view'[c] = view[c] BY DEF Same
<1>2. SUFFICES ASSUME pc[c] \in {"attached", "added", "main"}, fwdAt[c] >= Oldest'
               PROVE  /\ fwdAt[c] <= tail' + 1
                      /\ pc[c] # "attached" => \A u \in Users : UserSeen(c, u)'
  BY <1>s DEF ViewOf, Reads
<1>3. fwdAt[c] \in Nat BY DEF TypeInv, TypeOK
<1>4. fwdAt[c] >= Oldest BY <1>1, <1>2, <1>3
<1>5. fwdAt[c] <= tail + 1 BY <1>2, <1>4 DEF ViewOf, Reads
<1>6. fwdAt[c] <= tail' + 1 BY <1>1, <1>3, <1>5
<1>7. ASSUME pc[c] # "attached", NEW u \in Users PROVE UserSeen(c, u)'
  <2> DEFINE f == fwdAt[c]
  <2>0. UserSeen(c, u) BY <1>2, <1>4, <1>7 DEF ViewOf, Reads
  <2>1. Quiet(f, tail, u)' <=> Quiet(f, tail, u) /\ ~About(tail, u)'
    <3>1. \A m \in Nat : Oldest' <= m /\ m <= tail + 1 =>
              (Quiet(m, tail, u)' <=> Quiet(m, tail, u) /\ ~About(tail, u)')
      BY AboutShifts
    <3>2. Oldest' <= fwdAt[c] BY <1>1, <1>2, <1>3
    <3> DEFINE g == fwdAt[c]
    <3> HIDE DEF g
    <3>3. (\A k \in g..tail' : ~About(k, u)') <=> Quiet(g, tail, u) /\ ~About(tail, u)'
      BY <1>3, <1>5, <3>1, <3>2 DEF g, Quiet
    <3> QED BY <1>s, <3>3 DEF g, Quiet
  <2>2. roster'[u] = IF About(tail, u)' THEN After(msg) ELSE roster[u] BY RosterShifts
  <2>3. Quiet(f, tail, u)' => view'[c][u] = roster'[u]
    BY <1>s, <2>0, <2>1, <2>2 DEF UserSeen
  <2>4. ASSUME view'[c][u] = "absent", ~Quiet(f, tail, u)'
        PROVE  \E n \in f..tail' : About(n, u)' /\ Message(n)'.kind # "role"
    <3>1. CASE Quiet(f, tail, u)
      <4>1. About(tail, u)' BY <2>1, <2>4, <3>1
      <4>2. roster[u] = "absent" BY <1>s, <2>0, <2>4, <3>1 DEF UserSeen
      <4>3. msg.user = u BY <4>1, AboutShifts
      <4>4. msg.kind # "role" BY <4>2, <4>3 DEF Speaks
      <4>5. tail' \in f..tail' BY <1>1, <1>3, <1>5
      <4> QED BY <1>t, <4>1, <4>4, <4>5
    <3>2. CASE ~Quiet(f, tail, u)
      <4>1. PICK n \in f..tail : About(n, u) /\ Message(n).kind # "role"
        BY <1>s, <2>0, <2>4, <3>2 DEF UserSeen
      <4>2. n \in Oldest'..tail /\ n \in f..tail' BY <1>1, <1>2, <1>3
      <4>3. About(n, u)' BY <4>1, <4>2, AboutShifts
      <4> QED BY <1>1, <4>1, <4>2, <4>3
    <3> QED BY <3>1, <3>2
  <2> QED BY <1>s, <2>3, <2>4 DEF UserSeen
<1> QED BY <1>6, <1>7

\* The snapshot of the roster is taken while messages from before it are to
\* come: where it has no u, the last of them took u off.
LEMMA ViewAdded ==
  ASSUME TypeInv, TypeInv', RosterInv', NEW c \in Conns, ViewOf(c), AddParticipant(c),
         Still \/ \E msg \in Messages : Speaks(msg)
  PROVE  ViewOf(c)'
<1>1. /\ pc[c] = "attached" /\ pc'[c] = "added" /\ fwdAt' = fwdAt
      /\ view'[c] = roster'
  BY DEF AddParticipant, Goto, TypeInv, TypeOK
<1>2. SUFFICES ASSUME fwdAt[c] >= Oldest'
               PROVE  fwdAt[c] <= tail' + 1 /\ \A u \in Users : UserSeen(c, u)'
  BY <1>1 DEF ViewOf, Reads
<1>3. /\ tail' \in {tail, tail + 1} /\ tail \in Nat /\ Oldest' >= Oldest
      /\ Oldest \in Nat /\ Oldest' \in Nat \ {0} /\ tail' \in Nat
  <2>1. CASE Still
    <3>1. ring' = ring /\ tail' = tail BY <2>1 DEF Still
    <3>2. Oldest' = Oldest BY <3>1 DEF Oldest
    <3>3. Oldest \in Nat \ {0} /\ tail \in Nat BY RingHolds DEF TypeInv
    <3> QED BY <3>1, <3>2, <3>3
  <2>2. ASSUME NEW msg \in Messages, Speaks(msg)
        PROVE  /\ tail' \in {tail, tail + 1} /\ tail \in Nat /\ Oldest' >= Oldest
               /\ Oldest \in Nat /\ Oldest' \in Nat \ {0} /\ tail' \in Nat
    BY <2>2, SpeaksShifts
  <2> QED BY <2>1, <2>2
<1>4. fwdAt[c] \in Nat BY DEF TypeInv, TypeOK
<1>5. fwdAt[c] >= Oldest BY <1>2, <1>3, <1>4
<1>6. fwdAt[c] <= tail + 1 BY <1>1, <1>5 DEF ViewOf, Reads
<1>7. fwdAt[c] <= tail' + 1 BY <1>3, <1>4, <1>6
<1>8. ASSUME NEW u \in Users, roster'[u] = "absent", ~Quiet(fwdAt[c], tail, u)'
      PROVE  \E n \in fwdAt[c]..tail' : About(n, u)' /\ Message(n)'.kind # "role"
  <2>1. PICK k \in fwdAt[c]..tail' : About(k, u)' BY <1>1, <1>8 DEF Quiet
  <2>2. k \in Oldest'..tail' BY <1>2, <1>3, <1>4
  <2>3. PICK n \in k..tail' : About(n, u)' /\ Quiet(n + 1, tail, u)'
    BY <2>1, <2>2 DEF RosterInv, SomeLatest
  <2>4. n \in Oldest'..tail' /\ n \in fwdAt[c]..tail' BY <1>2, <1>3, <1>4, <2>1
  <2>5. After(Message(n)') = "absent"
    BY <1>8, <2>3, <2>4 DEF RosterInv, Latest, After
  <2>6. Message(n)' \in Messages BY <2>4, RingHoldsNext DEF TypeInv
  <2>7. Message(n)'.kind # "chat" BY <2>3 DEF About
  <2>8. Message(n)'.kind = "left" BY <2>5, <2>6, <2>7, MessageParts
  <2> QED BY <2>3, <2>4, <2>8
<1>9. \A u \in Users : UserSeen(c, u)' BY <1>1, <1>8 DEF UserSeen
<1> QED BY <1>7, <1>9

\* Not the last message, but the next one to be shown.
LEMMA ViewForward ==
  ASSUME TypeInv, RosterInv, NEW c \in Conns, ViewOf(c), Forward(c)
  PROVE  ViewOf(c)'
<1> DEFINE f == fwdAt[c]
           msg == Message(f)
<1>1. /\ pc[c] = "main" /\ pc'[c] = "main" /\ fwdAt'[c] = f + 1
      /\ UNCHANGED <<roster, ring, tail>>
      /\ view'[c] = Seen(view[c], msg) /\ f >= Oldest /\ f <= tail
  BY DEF Forward, Forwarding, InRing, TypeInv, TypeOK, hubVars
<1>2. /\ f \in Nat /\ tail \in Nat /\ Oldest \in Nat \ {0} /\ f \in Oldest..tail
      /\ view[c] \in [Users -> Roles \cup {"absent"}] /\ "absent" \notin Roles
  <2>1. f \in Nat /\ view[c] \in [Users -> Roles \cup {"absent"}]
    BY DEF TypeInv, TypeOK
  <2>2. Oldest \in Nat \ {0} /\ tail \in Nat BY RingHolds DEF TypeInv
  <2> QED BY <1>1, <2>1, <2>2 DEF Roles
<1>3. msg \in Messages BY <1>2, RingHolds DEF TypeInv
<1>4. \A n, u : (About(n, u)' <=> About(n, u)) /\ Message(n)' = Message(n)
  BY <1>1 DEF About, Message, Oldest
<1>5. f + 1 <= tail + 1 BY <1>1, <1>2
<1>6. ASSUME NEW u \in Users PROVE UserSeen(c, u)'
  <2>0. UserSeen(c, u) BY <1>1 DEF ViewOf, Reads
  <2>1. Quiet(f, tail, u) <=> ~About(f, u) /\ Quiet(f + 1, tail, u)
    <3>1. f..tail = {f} \cup (f + 1..tail) BY <1>1, <1>2
    <3> QED BY <3>1 DEF Quiet
  <2>2. CASE ~About(f, u)
    <3>1. view'[c][u] = view[c][u]
      <4>1. msg.kind = "chat" \/ msg.user # u BY <2>2 DEF About
      <4> HIDE DEF msg
      <4> QED BY <1>1, <1>2, <1>3, <4>1 DEF Seen, Messages
    <3>2. Quiet(f + 1, tail, u) => view'[c][u] = roster[u]
      BY <2>0, <2>1, <2>2, <3>1 DEF UserSeen
    <3>3. ASSUME view'[c][u] = "absent", ~Quiet(f + 1, tail, u)
          PROVE  \E n \in f + 1..tail : About(n, u) /\ Message(n).kind # "role"
      <4>1. PICK n \in f..tail : About(n, u) /\ Message(n).kind # "role"
        BY <2>0, <2>1, <3>1, <3>3 DEF UserSeen
      <4>2. n # f BY <2>2, <4>1
      <4>3. n \in f + 1..tail BY <1>2, <4>2
      <4> QED BY <4>1, <4>3
    <3> QED BY <1>1, <1>4, <3>2, <3>3 DEF UserSeen, Quiet
  <2>3. CASE About(f, u)
    <3>1. msg.user = u /\ msg.kind \in {"joined", "role", "left"}
      BY <1>3, <2>3, MessageParts DEF About
    <3>2. /\ msg.kind \in {"joined", "left"} => view'[c][u] = After(msg)
          /\ msg.kind = "role" =>
               view'[c][u] = IF view[c][u] = "absent" THEN "absent" ELSE After(msg)
      <4> HIDE DEF msg
      <4> QED BY <1>1, <1>2, <3>1 DEF Seen, After
    <3>3. msg.kind = "role" /\ view[c][u] = "absent" =>
            \E n \in f + 1..tail : About(n, u) /\ Message(n).kind # "role"
      <4> SUFFICES ASSUME msg.kind = "role", view[c][u] = "absent"
                   PROVE  \E n \in f + 1..tail : About(n, u) /\ Message(n).kind # "role"
        OBVIOUS
      <4>1. PICK n \in f..tail : About(n, u) /\ Message(n).kind # "role"
        BY <2>0, <2>1, <2>3 DEF UserSeen
      <4>2. n \in f + 1..tail BY <1>2, <4>1
      <4> QED BY <4>1, <4>2
    <3>4. Quiet(f + 1, tail, u) => After(msg) = roster[u]
      BY <1>2, <2>3 DEF RosterInv, Latest
    <3>5. Quiet(f + 1, tail, u) => view'[c][u] = roster[u]
      BY <3>1, <3>2, <3>3, <3>4 DEF Quiet
    <3>6. ASSUME view'[c][u] = "absent", ~Quiet(f + 1, tail, u)
          PROVE  \E n \in f + 1..tail : About(n, u) /\ Message(n).kind # "role"
      <4>1. CASE msg.kind = "role" /\ view[c][u] = "absent" BY <3>3, <4>1
      <4>2. CASE ~(msg.kind = "role" /\ view[c][u] = "absent")
        <5>1. After(msg) = "absent" BY <3>1, <3>2, <3>6, <4>2
        <5>2. PICK n \in f + 1..tail : About(n, u) /\ Quiet(f + 1, n - 1, u)
          BY <1>2, <3>6 DEF RosterInv, SomeNext
        <5>3. n \in Oldest..tail /\ f < n BY <1>2
        <5>4. Message(n).kind # "role"
          BY <1>2, <2>3, <5>1, <5>2, <5>3 DEF RosterInv, RolesFollow
        <5> QED BY <5>2, <5>4
      <4> QED BY <4>1, <4>2
    <3> QED BY <1>1, <1>4, <3>5, <3>6 DEF UserSeen, Quiet
  <2> QED BY <2>2, <2>3
<1> QED BY <1>1, <1>5, <1>6 DEF ViewOf

LEMMA ViewStep ==
  ASSUME TypeInv, TypeInv', RosterInv, RosterInv', [Next]_vars,
         NEW c \in Conns, ViewOf(c)
  PROVE  ViewOf(c)'
<1>0. /\ TypeOK /\ Oldest \in Nat \ {0} /\ tail \in Nat
      /\ fwdAt[c] \in Nat /\ pc \in [Conns -> Phases]
      /\ fwdAt \in [Conns -> Nat]
  BY RingHolds DEF TypeInv, TypeOK, Phases
<1>h. Still \/ \E msg \in Messages : Speaks(msg) BY HubSteps DEF TypeInv
<1>s. Still => /\ roster' = roster /\ tail' = tail /\ Oldest' = Oldest
               /\ \A n, u : (About(n, u)' <=> About(n, u)) /\ Message(n)' = Message(n)
  BY DEF Still, Oldest, About, Message
<1>1. CASE Same(c)
  <2>1. CASE Still
    BY <1>s, <1>1, <2>1 DEF Same, ViewOf, Reads, UserSeen, Quiet
  <2> QED BY <1>h, <1>1, <2>1, ViewSpeaks
<1>2. CASE AddParticipant(c) BY <1>h, <1>2, ViewAdded
<1>3. CASE RemoveParticipant(c)
  <2>1. pc'[c] = "off" BY <1>0, <1>3 DEF RemoveParticipant, Goto
  <2> QED BY <2>1 DEF ViewOf
<1>4. CASE Still /\ Own(c)
  <2> USE <1>0 DEF Goto
  <2>1. CASE ReadRole(c) BY <2>1 DEF ViewOf, ReadRole
  <2>2. CASE AttachTo(c)
    <3>1. pc'[c] = "attached" /\ fwdAt'[c] = tail + 1 BY <2>2 DEF AttachTo
    <3>2. fwdAt'[c] <= tail' + 1 BY <1>s, <1>4, <3>1
    <3> QED BY <3>1, <3>2 DEF ViewOf
  <2>3. CASE EnterMain(c)
    <3>1. /\ pc[c] = "added" /\ pc'[c] = "main" /\ fwdAt' = fwdAt /\ view' = view
      BY <2>3 DEF EnterMain
    <3> QED BY <1>s, <1>4, <3>1 DEF ViewOf, Reads, UserSeen, Quiet
  <2>4. CASE Forward(c) BY <2>4, ViewForward
  <2>5. CASE ForwardLag(c)
    <3>1. fwdAt'[c] = 0 BY <2>5 DEF ForwardLag
    <3>2. Oldest' \in Nat \ {0} BY <1>s, <1>4
    <3> QED BY <3>1, <3>2 DEF ViewOf, Reads
  <2>6. CASE RoleMessage(c) \/ RoleLag(c)
    <3>1. UNCHANGED <<pc, fwdAt, view>> BY <2>6 DEF RoleMessage, RoleLag
    <3> QED BY <1>s, <1>4, <3>1 DEF ViewOf, Reads, UserSeen, Quiet
  <2>7. CASE Resync(c)
    <3>1. UNCHANGED <<pc, fwdAt, view>> BY <2>7 DEF Resync
    <3> QED BY <1>s, <1>4, <3>1 DEF ViewOf, Reads, UserSeen, Quiet
  <2>8. CASE Leave(c) \/ BreakOff(c)
    <3>1. pc'[c] \in {"exiting", "off"} BY <2>8 DEF Leave, BreakOff, Gone
    <3> QED BY <3>1 DEF ViewOf
  <2>9. CASE AddParticipant(c) \/ RemoveParticipant(c) BY <1>2, <1>3, <2>9
  <2> HIDE DEF Goto
  <2> QED
    BY <1>4, <2>1, <2>2, <2>3, <2>4, <2>5, <2>6, <2>7, <2>8, <2>9 DEF Own
<1> QED BY <1>0, <1>1, <1>2, <1>3, <1>4, ConnCases, OwnIsStill

ViewInv == TypeInv /\ RosterInv /\ \A c \in Conns : ViewOf(c)

LEMMA ViewInvariant == Spec => []ViewInv
<1>1. Init => ViewInv
  <2>1. Init => \A c \in Conns : ViewOf(c) BY DEF Init, ViewOf
  <2> QED BY <2>1, TypeInit, RosterInit DEF ViewInv
<1>2. ViewInv /\ [Next]_vars => ViewInv'
  <2> SUFFICES ASSUME ViewInv, [Next]_vars PROVE ViewInv' OBVIOUS
  <2>1. TypeInv' /\ RosterInv' BY TypeNext, RosterStep DEF ViewInv
  <2>2. ASSUME NEW c \in Conns PROVE ViewOf(c)'
    BY <2>1, ViewStep DEF ViewInv
  <2> QED BY <2>1, <2>2 DEF ViewInv
<1> QED BY <1>1, <1>2, PTL DEF Spec

\* A page that received all there is shows the roster of the hub, although
\* joins, leaves and role changes older than its snapshot of the roster are
\* applied to that snapshot again.
THEOREM RosterIsShown == Spec => []RosterConverges
<1>1. ViewInv => RosterConverges
  <2> SUFFICES ASSUME ViewInv, NEW c \in Conns, Drained(c) PROVE view[c] = roster
    BY DEF RosterConverges
  <2>1. TypeOK /\ Len(ring) <= tail BY DEF ViewInv, TypeInv
  <2>2. /\ pc[c] = "main" /\ fwdAt[c] = tail + 1 BY DEF Drained, Forwarding
  <2>3. Oldest <= tail + 1 /\ tail \in Nat BY <2>1, RingHolds
  <2>4. Reads(c) BY <2>1, <2>2, <2>3, RingHolds DEF Reads
  <2>5. \A u \in Users : UserSeen(c, u) BY <2>2, <2>4 DEF ViewInv, ViewOf
  <2>6. \A u : Quiet(tail + 1, tail, u) BY <2>3 DEF Quiet
  <2>7. \A u \in Users : view[c][u] = roster[u] BY <2>2, <2>5, <2>6 DEF UserSeen
  <2>8. /\ view[c] \in [Users -> Roles \cup {"absent"}]
        /\ roster \in [Users -> Roles \cup {"absent"}]
    BY <2>1 DEF TypeOK
  <2> QED BY <2>7, <2>8
<1> QED BY <1>1, ViewInvariant, PTL

-----------------------------------------------------------------------------
(* The gate *)

\* The role the gate will have once the main loop read what is to come is the
\* roster's; nothing to come takes the user off the roster.
GateFollows(c) ==
  /\ roleAt[c] \in Nat \ {0} /\ roleAt[c] <= tail + 1
  /\ \A n \in Oldest..tail :
       n >= roleAt[c] /\ About(n, UserOf[c]) => Message(n).kind = "role"
  /\ ~missed[c] /\ ~resync[c] /\ roleAt[c] >= Oldest
       /\ Quiet(roleAt[c], tail, UserOf[c]) => gate[c] = roster[UserOf[c]]

GateOf(c) ==
  /\ pc[c] = "added" /\ ~missed[c] => gate[c] = roster[UserOf[c]]
  /\ resync[c] => pc[c] = "main"
  /\ pc[c] = "main" => GateFollows(c)

LEMMA GateSpeaks ==
  ASSUME TypeInv, NEW msg \in Messages, Speaks(msg), NEW c \in Conns, Same(c), GateOf(c)
  PROVE  GateOf(c)'
<1> DEFINE u == UserOf[c]
           g == roleAt[c]
<1>1. /\ tail \in Nat /\ tail' = tail + 1
      /\ Oldest \in Nat \ {0} /\ Oldest' \in Nat \ {0}
      /\ Oldest <= Oldest' /\ Oldest' <= tail + 1
      /\ \A n \in Oldest'..tail : n \in Oldest..tail /\ Message(n)' = Message(n)
      /\ Message(tail)' = msg
  BY SpeaksShifts
<1>t. /\ \A n : n = tail' => Message(n)' = msg
      /\ \A v, n : n = tail' => (About(n, v)' <=> About(tail, v)')
  BY <1>1 DEF Message, About
<1>s. /\ pc'[c] = pc[c] /\ gate'[c] = gate[c] /\ roleAt'[c] = roleAt[c]
      /\ resync'[c] = resync[c] /\ (missed[c] => missed'[c])
  BY DEF Same
<1>u. u \in Users BY CollabAssumption
<1>2. About(tail, u)' <=> msg.kind # "chat" /\ msg.user = u BY AboutShifts
<1>3. roster'[u] = IF About(tail, u)' THEN After(msg) ELSE roster[u]
  BY <1>u, RosterShifts
\* A message about a user who is in the session changes the role, no more.
<1>4. ASSUME pc[c] \in {"added", "main"}, About(tail, u)'
      PROVE  msg.kind = "role"
  <2>1. msg.kind \notin {"joined", "left"} BY <1>2, <1>4 DEF Speaks
  <2> QED BY <1>2, <1>4, <2>1, MessageParts
<1>5. ASSUME pc'[c] = "added", ~missed'[c] PROVE gate'[c] = roster'[u]
  <2>1. ~About(tail, u)'
    <3> SUFFICES ASSUME About(tail, u)' PROVE FALSE OBVIOUS
    <3>1. msg.kind = "role" /\ msg.user = u BY <1>2, <1>4, <1>5, <1>s
    <3> QED BY <1>5, <1>s, <3>1 DEF Speaks
  <2> QED BY <1>3, <1>5, <1>s, <2>1 DEF GateOf
<1>6. resync'[c] => pc'[c] = "main" BY <1>s DEF GateOf
<1>7. ASSUME pc'[c] = "main" PROVE GateFollows(c)'
  <2>0. GateFollows(c) BY <1>s, <1>7 DEF GateOf
  <2>1. g \in Nat \ {0} /\ g <= tail + 1 BY <2>0 DEF GateFollows
  <2>2. g <= tail' + 1 BY <1>1, <2>1
  <2>3. ASSUME NEW n \in Oldest'..tail', n >= g, About(n, u)'
        PROVE  Message(n)'.kind = "role"
    <3>1. CASE n = tail' BY <1>4, <1>s, <1>t, <1>7, <2>3, <3>1
    <3>2. CASE n # tail'
      <4>1. n \in Oldest'..tail BY <1>1, <3>2
      <4>2. About(n, u) BY <2>3, <4>1, AboutShifts
      <4>3. n \in Oldest..tail /\ Message(n)' = Message(n) BY <1>1, <4>1
      <4>4. Message(n).kind = "role" BY <2>0, <2>3, <4>2, <4>3 DEF GateFollows
      <4> QED BY <4>3, <4>4
    <3> QED BY <3>1, <3>2
  <2>4. ASSUME ~missed'[c], ~resync'[c], g >= Oldest',
               \A k \in g..tail' : ~About(k, u)'
        PROVE  gate'[c] = roster'[u]
    <3> HIDE DEF g
    <3>1. g >= Oldest BY <1>1, <2>1, <2>4
    <3>2. Quiet(g, tail, u) /\ ~About(tail, u)'
      <4>1. \A m \in Nat : Oldest' <= m /\ m <= tail + 1 =>
              (Quiet(m, tail, u)' <=> Quiet(m, tail, u) /\ ~About(tail, u)')
        BY AboutShifts
      <4>2. Oldest' <= g /\ g \in Nat /\ g <= tail + 1 BY <1>1, <2>1, <2>4
      <4>3. \A m : m = g => (Quiet(m, tail, u)' <=> \A k \in m..tail' : ~About(k, u)')
        BY DEF Quiet
      <4> QED BY <2>4, <4>1, <4>2, <4>3
    <3>3. gate[c] = roster[u] BY <1>s, <2>0, <2>4, <3>1, <3>2 DEF GateFollows, g
    <3> QED BY <1>3, <1>s, <3>2, <3>3
  <2> QED BY <1>s, <2>1, <2>2, <2>3, <2>4 DEF GateFollows, Quiet
<1> QED BY <1>5, <1>6, <1>7 DEF GateOf

LEMMA GateRoleMessage ==
  ASSUME TypeInv, RosterInv, NEW c \in Conns, GateOf(c), RoleMessage(c)
  PROVE  GateOf(c)'
<1> DEFINE u == UserOf[c]
           g == roleAt[c]
           msg == Message(g)
<1>1. /\ pc[c] = "main" /\ pc' = pc /\ resync' = resync /\ missed' = missed
      /\ UNCHANGED <<roster, ring, tail>>
      /\ roleAt'[c] = g + 1 /\ g >= Oldest /\ g <= tail
      /\ gate'[c] = IF msg.kind = "role" /\ msg.user = u THEN msg.role ELSE gate[c]
  BY DEF RoleMessage, InRing, TypeInv, TypeOK, hubVars
<1>2. /\ g \in Nat /\ tail \in Nat /\ Oldest \in Nat \ {0} /\ g \in Oldest..tail
      /\ u \in Users
  <2>1. g \in Nat BY DEF TypeInv, TypeOK
  <2>2. Oldest \in Nat \ {0} /\ tail \in Nat BY RingHolds DEF TypeInv
  <2> QED BY <1>1, <2>1, <2>2, CollabAssumption
<1>3. \A n, v : (About(n, v)' <=> About(n, v)) /\ Message(n)' = Message(n)
  BY <1>1 DEF About, Message, Oldest
<1>4. Oldest' = Oldest BY <1>1 DEF Oldest
<1>5. GateFollows(c) BY <1>1 DEF GateOf
<1>6. g + 1 \in Nat \ {0} /\ g + 1 <= tail + 1 BY <1>1, <1>2
<1>7. ASSUME NEW n \in Oldest..tail, n >= g + 1, About(n, u) PROVE Message(n).kind = "role"
  <2>1. n >= g BY <1>2, <1>7
  <2> QED BY <1>5, <1>7, <2>1 DEF GateFollows
<1>8. ASSUME ~missed[c], ~resync[c], Quiet(g + 1, tail, u)
      PROVE  gate'[c] = roster[u]
  <2>1. CASE About(g, u)
    <3>1. After(msg) = roster[u] BY <1>2, <1>8, <2>1 DEF RosterInv, Latest
    <3>2. msg.kind = "role" /\ msg.user = u BY <1>2, <1>5, <2>1 DEF GateFollows, About
    <3>3. After(msg) = msg.role BY <3>2 DEF After
    <3> QED BY <1>1, <3>1, <3>2, <3>3
  <2>2. CASE ~About(g, u)
    <3>1. Quiet(g, tail, u)
      <4>1. g..tail = {g} \cup (g + 1..tail) BY <1>1, <1>2
      <4> QED BY <1>8, <2>2, <4>1 DEF Quiet
    <3>2. ~(msg.kind = "role" /\ msg.user = u) BY <2>2 DEF About
    <3> QED BY <1>1, <1>5, <1>8, <3>1, <3>2 DEF GateFollows
  <2> QED BY <2>1, <2>2
<1>9. GateFollows(c)'
  BY <1>1, <1>3, <1>4, <1>6, <1>7, <1>8 DEF GateFollows, Quiet
<1>10. ~(pc'[c] = "added") BY <1>1
<1> QED BY <1>1, <1>9, <1>10 DEF GateOf

LEMMA GateStep ==
  ASSUME TypeInv, RosterInv, [Next]_vars, NEW c \in Conns, GateOf(c)
  PROVE  GateOf(c)'
<1> DEFINE u == UserOf[c]
<1>0. /\ TypeOK /\ CountInv /\ Oldest \in Nat \ {0} /\ tail \in Nat
      /\ Oldest <= tail + 1 /\ u \in Users
      /\ pc \in [Conns -> Phases] /\ gate \in [Conns -> Roles]
      /\ roleAt \in [Conns -> Nat] /\ resync \in [Conns -> BOOLEAN]
      /\ missed \in [Conns -> BOOLEAN]
  BY RingHolds, CollabAssumption DEF TypeInv, TypeOK, Phases
<1>h. Still \/ \E msg \in Messages : Speaks(msg) BY HubSteps DEF TypeInv
<1>s. Still => /\ roster' = roster /\ tail' = tail /\ Oldest' = Oldest
               /\ \A n, v : (About(n, v)' <=> About(n, v)) /\ Message(n)' = Message(n)
  BY DEF Still, Oldest, About, Message
<1>1. CASE Same(c)
  <2>1. CASE Still
    BY <1>s, <1>1, <2>1 DEF Same, GateOf, GateFollows, Quiet
  <2> QED BY <1>h, <1>1, <2>1, GateSpeaks
<1>2. CASE AddParticipant(c)
  <2>1. /\ pc[c] = "attached" /\ pc'[c] = "added" /\ gate' = gate /\ resync' = resync
        /\ missed'[c] = (missed[c] \/ roster'[u] # gate[c])
    BY <1>0, <1>2 DEF AddParticipant, Goto
  <2>2. ~resync[c] BY <2>1 DEF GateOf
  <2> QED BY <2>1, <2>2 DEF GateOf
<1>3. CASE RemoveParticipant(c)
  <2>1. pc[c] = "exiting" /\ pc'[c] = "off" /\ resync' = resync
    BY <1>0, <1>3 DEF RemoveParticipant, Goto
  <2> QED BY <2>1 DEF GateOf
<1>4. CASE Still /\ Own(c)
  <2> USE <1>0 DEF Goto
  <2>1. CASE ReadRole(c)
    <3>1. pc[c] = "off" /\ pc'[c] = "read" /\ resync' = resync BY <2>1 DEF ReadRole
    <3> QED BY <3>1 DEF GateOf
  <2>2. CASE AttachTo(c)
    <3>1. pc[c] = "read" /\ pc'[c] = "attached" /\ resync' = resync BY <2>2 DEF AttachTo
    <3> QED BY <3>1 DEF GateOf
  <2>3. CASE EnterMain(c)
    <3>1. /\ pc[c] = "added" /\ pc'[c] = "main" /\ roleAt'[c] = tail + 1
          /\ gate' = gate /\ resync' = resync /\ missed' = missed
      BY <2>3 DEF EnterMain
    <3>2. ~missed[c] => gate[c] = roster[u] BY <3>1 DEF GateOf
    <3>3. \A n \in Oldest..tail : ~(n >= tail + 1) OBVIOUS
    <3>4. GateFollows(c)' BY <1>s, <1>4, <3>1, <3>2, <3>3 DEF GateFollows
    <3> QED BY <3>1, <3>4 DEF GateOf
  <2>4. CASE Forward(c) \/ ForwardLag(c)
    <3>1. UNCHANGED <<pc, gate, roleAt, resync, missed>> BY <2>4 DEF Forward, ForwardLag
    <3> QED BY <1>s, <1>4, <3>1 DEF GateOf, GateFollows, Quiet
  <2>5. CASE RoleMessage(c) BY <2>5, GateRoleMessage
  <2>6. CASE RoleLag(c)
    <3>1. /\ pc[c] = "main" /\ pc' = pc /\ roleAt'[c] = Oldest /\ resync'[c] = TRUE
          /\ roleAt[c] < Oldest
      BY <2>6 DEF RoleLag
    <3>2. GateFollows(c) BY <3>1 DEF GateOf
    <3>3. \A n \in Oldest..tail : n >= roleAt[c] BY <3>1
    <3>4. GateFollows(c)' BY <1>s, <1>4, <3>1, <3>2, <3>3 DEF GateFollows
    <3> QED BY <3>1, <3>4 DEF GateOf
  <2>7. CASE Resync(c)
    <3>1. /\ pc' = pc /\ roleAt' = roleAt /\ missed' = missed /\ resync[c]
          /\ ~resync'[c]
      BY <2>7 DEF Resync
    <3>2. pc[c] = "main" /\ GateFollows(c) BY <3>1 DEF GateOf
    <3>3. roster[u] # "absent" BY <3>2, CountedIsPresent
    <3>4. gate'[c] = roster[u] BY <2>7, <3>3 DEF Resync
    <3>5. GateFollows(c)' BY <1>s, <1>4, <3>1, <3>2, <3>4 DEF GateFollows, Quiet
    <3> QED BY <3>1, <3>2, <3>5 DEF GateOf
  <2>8. CASE Leave(c) \/ BreakOff(c)
    <3>1. pc'[c] \in {"exiting", "off"} /\ resync' = resync /\ ~resync[c]
      BY <2>8 DEF Leave, BreakOff, Gone, GateOf
    <3> QED BY <3>1 DEF GateOf
  <2>9. CASE AddParticipant(c) \/ RemoveParticipant(c) BY <1>2, <1>3, <2>9
  <2> HIDE DEF Goto
  <2> QED
    BY <1>4, <2>1, <2>2, <2>3, <2>4, <2>5, <2>6, <2>7, <2>8, <2>9 DEF Own
<1> QED BY <1>0, <1>1, <1>2, <1>3, <1>4, ConnCases, OwnIsStill

GateInv == TypeInv /\ RosterInv /\ \A c \in Conns : GateOf(c)

LEMMA GateInvariant == Spec => []GateInv
<1>1. Init => GateInv
  <2>1. Init => \A c \in Conns : GateOf(c) BY DEF Init, GateOf
  <2> QED BY <2>1, TypeInit, RosterInit DEF GateInv
<1>2. GateInv /\ [Next]_vars => GateInv'
  <2> SUFFICES ASSUME GateInv, [Next]_vars PROVE GateInv' OBVIOUS
  <2>1. TypeInv' /\ RosterInv' BY TypeNext, RosterStep DEF GateInv
  <2>2. ASSUME NEW c \in Conns PROVE GateOf(c)' BY GateStep DEF GateInv
  <2> QED BY <2>1, <2>2 DEF GateInv
<1> QED BY <1>1, <1>2, PTL DEF Spec

\* The gate of an idle main loop is the role in the hub, through any number of
\* lags and resynchronisations, unless the role changed where the connection
\* could not see it.
THEOREM GateIsTheRole == Spec => []GateFollowsRole
<1>1. GateInv => GateFollowsRole
  <2> SUFFICES ASSUME GateInv, NEW c \in Conns, Settled(c), ~missed[c]
               PROVE  gate[c] = roster[UserOf[c]]
    BY DEF GateFollowsRole
  <2>1. pc[c] = "main" /\ ~resync[c] /\ roleAt[c] = tail + 1 BY DEF Settled
  <2>2. GateFollows(c) BY <2>1 DEF GateInv, GateOf
  <2>3. tail \in Nat /\ Oldest \in Nat /\ Oldest <= tail + 1
    BY RingHolds DEF GateInv, TypeInv
  <2>4. Quiet(tail + 1, tail, UserOf[c]) BY <2>3 DEF Quiet
  <2>5. roleAt[c] >= Oldest BY <2>1, <2>3
  <2> QED BY <2>1, <2>2, <2>4, <2>5 DEF GateFollows
<1> QED BY <1>1, GateInvariant, PTL

-----------------------------------------------------------------------------
(* The chat *)

IsChat(n) == Message(n).kind = "chat"
Silent(m, n) == \A k \in m..n : ~IsChat(k)

\* The chat lines in the ring are numbered one by one up to the last recorded.
LastChat == \A n \in Oldest..tail :
  IsChat(n) /\ Silent(n + 1, tail) => Message(n).line = chats
NextChat == \A m, n \in Oldest..tail :
  m < n /\ IsChat(m) /\ IsChat(n) /\ Silent(m + 1, n - 1) =>
    Message(n).line = Message(m).line + 1

LinesInv == LastChat /\ NextChat

LEMMA ChatShifts ==
  ASSUME TypeInv, NEW msg \in Messages, Speaks(msg)
  PROVE  /\ \A n \in Oldest'..tail : IsChat(n)' <=> IsChat(n)
         /\ \A n : n = tail' => (IsChat(n)' <=> msg.kind = "chat")
         /\ \A m \in Nat, n \in Nat : Oldest' <= m /\ n <= tail =>
              (Silent(m, n)' <=> Silent(m, n))
         /\ \A m \in Nat : Oldest' <= m /\ m <= tail + 1 =>
              (Silent(m, tail)' <=> Silent(m, tail) /\ msg.kind # "chat")
<1>1. /\ tail \in Nat /\ tail' = tail + 1 /\ Oldest' \in Nat /\ Oldest' <= tail + 1
      /\ \A n \in Oldest'..tail : Message(n)' = Message(n)
      /\ Message(tail)' = msg
  BY SpeaksShifts
<1>2. \A n \in Oldest'..tail : IsChat(n)' <=> IsChat(n) BY <1>1 DEF IsChat
<1>3. \A n : n = tail' => (IsChat(n)' <=> msg.kind = "chat")
  BY <1>1 DEF IsChat, Message
<1>4. ASSUME NEW m \in Nat, NEW n \in Nat, Oldest' <= m, n <= tail
      PROVE  Silent(m, n)' <=> Silent(m, n)
  <2>1. \A k \in m..n : k \in Oldest'..tail BY <1>1, <1>4
  <2> QED BY <1>2, <2>1 DEF Silent
<1>5. ASSUME NEW m \in Nat, Oldest' <= m, m <= tail + 1
      PROVE  Silent(m, tail)' <=> Silent(m, tail) /\ msg.kind # "chat"
  <2>1. m..tail' = (m..tail) \cup {tail'} BY <1>1, <1>5
  <2>2. \A k \in m..tail : k \in Oldest'..tail BY <1>1, <1>5
  <2>3. Silent(m, tail)' <=> \A k \in m..tail' : ~IsChat(k)' BY DEF Silent
  <2> QED BY <1>2, <1>3, <2>1, <2>2, <2>3 DEF Silent
<1> QED BY <1>2, <1>3, <1>4, <1>5

LEMMA LinesSpeak ==
  ASSUME TypeInv, LinesInv, NEW msg \in Messages, Speaks(msg)
  PROVE  LinesInv'
<1>1. /\ tail \in Nat /\ tail' = tail + 1
      /\ Oldest \in Nat \ {0} /\ Oldest' \in Nat \ {0}
      /\ Oldest <= Oldest' /\ Oldest' <= tail + 1
      /\ \A n \in Oldest'..tail : n \in Oldest..tail /\ Message(n)' = Message(n)
      /\ Message(tail)' = msg
  BY SpeaksShifts
<1>2. \A n \in Oldest'..tail' : n \in Oldest'..tail \/ n = tail' BY <1>1
<1>t. \A n : n = tail' => Message(n)' = msg BY <1>1 DEF Message
<1>c. /\ msg.kind = "chat" => msg.line = chats + 1 /\ chats' = chats + 1
      /\ msg.kind # "chat" => chats' = chats
  BY DEF Speaks
<1>3. LastChat'
  <2> SUFFICES ASSUME NEW n \in Oldest'..tail', IsChat(n)', Silent(n + 1, tail)'
               PROVE  Message(n)'.line = chats'
    BY DEF LastChat
  <2>1. CASE n = tail' BY <1>c, <1>t, <2>1, ChatShifts
  <2>2. CASE n \in Oldest'..tail
    <3>1. n + 1 \in Nat /\ Oldest' <= n + 1 /\ n + 1 <= tail + 1 BY <1>1, <2>2
    <3>2. Silent(n + 1, tail) /\ msg.kind # "chat" BY <3>1, ChatShifts
    <3>3. IsChat(n) BY <2>2, ChatShifts
    <3>4. n \in Oldest..tail /\ Message(n)' = Message(n) BY <1>1, <2>2
    <3>5. Message(n).line = chats BY <3>2, <3>3, <3>4 DEF LinesInv, LastChat
    <3> QED BY <1>c, <3>2, <3>4, <3>5
  <2> QED BY <1>2, <2>1, <2>2
<1>4. NextChat'
  <2> SUFFICES ASSUME NEW m \in Oldest'..tail', NEW n \in Oldest'..tail', m < n,
                      IsChat(m)', IsChat(n)', Silent(m + 1, n - 1)'
               PROVE  Message(n)'.line = Message(m)'.line + 1
    BY DEF NextChat
  <2>1. m \in Oldest'..tail /\ m \in Oldest..tail /\ m + 1 \in Nat /\ Oldest' <= m + 1
        /\ n - 1 \in Nat /\ n - 1 <= tail
    BY <1>1
  <2>2. IsChat(m) /\ Silent(m + 1, n - 1) BY <2>1, ChatShifts
  <2>3. Message(m)' = Message(m) BY <1>1, <2>1
  <2>4. CASE n = tail'
    <3>1. n - 1 = tail BY <1>1, <2>4
    <3>2. Message(m).line = chats BY <2>1, <2>2, <3>1 DEF LinesInv, LastChat
    <3>3. msg.kind = "chat" BY <2>4, ChatShifts
    <3> QED BY <1>c, <1>t, <2>3, <2>4, <3>2, <3>3
  <2>5. CASE n \in Oldest'..tail
    <3>1. n \in Oldest..tail /\ Message(n)' = Message(n) BY <1>1, <2>5
    <3>2. IsChat(n) BY <2>5, ChatShifts
    <3> QED BY <2>1, <2>2, <2>3, <3>1, <3>2 DEF LinesInv, NextChat
  <2> QED BY <1>2, <2>4, <2>5
<1> QED BY <1>3, <1>4 DEF LinesInv

LEMMA LinesStep == TypeInv /\ LinesInv /\ [Next]_vars => LinesInv'
<1> SUFFICES ASSUME TypeInv, LinesInv, [Next]_vars PROVE LinesInv' OBVIOUS
<1>1. CASE Still
  <2>1. UNCHANGED <<ring, tail, chats>> BY <1>1 DEF Still
  <2> QED BY <2>1 DEF LinesInv, LastChat, NextChat, IsChat, Silent, Message, Oldest
<1> QED BY <1>1, LinesSpeak, HubSteps DEF TypeInv

InOrder(lines) == \A i \in 1..Len(lines) - 1 : lines[i + 1] = lines[i] + 1

LastHeard(c) == IF heard[c] = <<>> THEN 0 ELSE Last(heard[c])

\* Nothing said to come: the page has the last line.  Something to come: the
\* first of it is the next line.
HeardOf(c) ==
  /\ InOrder(heard[c])
  /\ pc[c] \in {"attached", "added", "main"} /\ Reads(c) =>
       /\ fwdAt[c] <= tail + 1
       /\ Silent(fwdAt[c], tail) => LastHeard(c) = chats
       /\ \A n \in fwdAt[c]..tail :
            IsChat(n) /\ Silent(fwdAt[c], n - 1) => Message(n).line = LastHeard(c) + 1

LEMMA AppendInOrder ==
  ASSUME NEW S, NEW s \in Seq(S), S \subseteq Int, NEW line \in S,
         InOrder(s), s # <<>> => line = Last(s) + 1
  PROVE  InOrder(Append(s, line)) /\ Append(s, line) # <<>> /\ Last(Append(s, line)) = line
<1> DEFINE t == Append(s, line)
<1>1. /\ t \in Seq(S) /\ t # <<>> /\ Len(t) = Len(s) + 1 /\ t[Len(s) + 1] = line
      /\ \A i \in 1..Len(s) : t[i] = s[i]
      /\ Len(s) \in Nat
  BY AppendProperties
<1> HIDE DEF t
<1>2. ASSUME NEW i \in 1..Len(t) - 1 PROVE t[i + 1] = t[i] + 1
  <2>1. CASE i = Len(s)
    <3>1. s # <<>> /\ i \in 1..Len(s) BY <1>1, <2>1, EmptySeq
    <3>2. t[i] = Last(s) BY <1>1, <2>1, <3>1 DEF Last
    <3> QED BY <1>1, <2>1, <3>1, <3>2
  <2>2. CASE i # Len(s)
    <3>1. i \in 1..Len(s) /\ i + 1 \in 1..Len(s) /\ i \in 1..Len(s) - 1
      BY <1>1, <2>2
    <3> QED BY <1>1, <3>1 DEF InOrder
  <2> QED BY <2>1, <2>2
<1> QED BY <1>1, <1>2 DEF InOrder, Last, t

\* A message is sent; the connection itself may register in the same step.
LEMMA HeardSpeaks ==
  ASSUME TypeInv, NEW msg \in Messages, Speaks(msg), NEW c \in Conns, HeardOf(c),
         fwdAt'[c] = fwdAt[c], heard'[c] = heard[c],
         pc'[c] \in {"attached", "added", "main"} => pc[c] \in {"attached", "added", "main"}
  PROVE  HeardOf(c)'
<1> DEFINE f == fwdAt[c]
<1>1. /\ tail \in Nat /\ tail' = tail + 1
      /\ Oldest \in Nat \ {0} /\ Oldest' \in Nat \ {0}
      /\ Oldest <= Oldest' /\ Oldest' <= tail + 1
      /\ \A n \in Oldest'..tail : n \in Oldest..tail /\ Message(n)' = Message(n)
      /\ Message(tail)' = msg
  BY SpeaksShifts
<1>t. \A n : n = tail' => Message(n)' = msg BY <1>1 DEF Message
<1>c. /\ msg.kind = "chat" => msg.line = chats + 1 /\ chats' = chats + 1
      /\ msg.kind # "chat" => chats' = chats
  BY DEF Speaks
<1>s. fwdAt'[c] = f /\ heard'[c] = heard[c] /\ LastHeard(c)' = LastHeard(c)
  BY DEF LastHeard
<1>2. InOrder(heard'[c]) BY <1>s DEF HeardOf
<1>3. SUFFICES ASSUME pc[c] \in {"attached", "added", "main"}, f >= Oldest'
               PROVE  /\ f <= tail' + 1
                      /\ Silent(f, tail)' => LastHeard(c) = chats'
                      /\ \A n \in f..tail' : IsChat(n)' /\ Silent(f, n - 1)' =>
                           Message(n)'.line = LastHeard(c) + 1
  BY <1>2, <1>s DEF HeardOf, Reads, InOrder
<1>f. f \in Nat BY DEF TypeInv, TypeOK
<1>4. f >= Oldest BY <1>1, <1>3, <1>f
<1>5. /\ f <= tail + 1
      /\ Silent(f, tail) => LastHeard(c) = chats
      /\ \A n \in f..tail :
           IsChat(n) /\ Silent(f, n - 1) => Message(n).line = LastHeard(c) + 1
  BY <1>3, <1>4 DEF HeardOf, Reads
<1>6. f <= tail' + 1 BY <1>1, <1>5, <1>f
<1>8. Silent(f, tail)' <=> Silent(f, tail) /\ msg.kind # "chat"
  <2>1. \A m \in Nat : Oldest' <= m /\ m <= tail + 1 =>
          (Silent(m, tail)' <=> Silent(m, tail) /\ msg.kind # "chat")
    BY ChatShifts
  <2>2. Oldest' <= f /\ f <= tail + 1 BY <1>1, <1>3, <1>5, <1>f
  <2>3. \A m \in Nat : m = f => (Silent(m, tail)' <=> Silent(f, tail)')
    BY <1>s DEF Silent
  <2> HIDE DEF f
  <2> QED BY <1>f, <2>1, <2>2, <2>3
<1>9. \A n \in Nat : n <= tail => (Silent(f, n)' <=> Silent(f, n))
  <2>1. \A m \in Nat, n \in Nat : Oldest' <= m /\ n <= tail =>
          (Silent(m, n)' <=> Silent(m, n))
    BY ChatShifts
  <2>2. Oldest' <= f BY <1>1, <1>3, <1>f
  <2>3. \A m \in Nat : m = f => \A n \in Nat : Silent(m, n)' <=> Silent(f, n)'
    BY <1>s DEF Silent
  <2> HIDE DEF f
  <2> QED BY <1>f, <2>1, <2>2, <2>3
<1>10. Silent(f, tail)' => LastHeard(c) = chats' BY <1>5, <1>8, <1>c
<1>11. ASSUME NEW n \in f..tail', IsChat(n)', Silent(f, n - 1)'
       PROVE  Message(n)'.line = LastHeard(c) + 1
  <2>1. n - 1 \in Nat /\ n - 1 <= tail BY <1>1, <1>3, <1>f
  <2>2. Silent(f, n - 1) BY <1>9, <1>11, <2>1
  <2>3. CASE n = tail'
    <3>1. n - 1 = tail BY <1>1, <2>3
    <3>2. LastHeard(c) = chats BY <1>5, <2>2, <3>1
    <3>3. msg.kind = "chat" BY <1>11, <2>3, ChatShifts
    <3> QED BY <1>c, <1>t, <2>3, <3>2, <3>3
  <2>4. CASE n # tail'
    <3>1. n \in Oldest'..tail /\ n \in f..tail BY <1>1, <1>3, <1>f, <2>4
    <3>2. IsChat(n) BY <1>11, <3>1, ChatShifts
    <3> QED BY <1>1, <1>5, <2>2, <3>1, <3>2
  <2> QED BY <2>3, <2>4
<1> QED BY <1>6, <1>10, <1>11

LEMMA HeardForward ==
  ASSUME TypeInv, LinesInv, NEW c \in Conns, HeardOf(c), Forward(c)
  PROVE  HeardOf(c)'
<1> DEFINE f == fwdAt[c]
           msg == Message(f)
<1>1. /\ pc[c] = "main" /\ fwdAt'[c] = f + 1
      /\ UNCHANGED <<ring, tail, chats>>
      /\ heard'[c] = IF msg.kind = "chat" THEN Append(heard[c], msg.line) ELSE heard[c]
      /\ f >= Oldest /\ f <= tail
  BY DEF Forward, Forwarding, InRing, TypeInv, TypeOK, hubVars
<1>2. /\ f \in Nat /\ tail \in Nat /\ Oldest \in Nat \ {0} /\ f \in Oldest..tail
      /\ heard[c] \in Seq(1..MaxChats) /\ f + 1 <= tail + 1
  <2>1. f \in Nat /\ heard[c] \in Seq(1..MaxChats) BY DEF TypeInv, TypeOK
  <2>2. Oldest \in Nat \ {0} /\ tail \in Nat BY RingHolds DEF TypeInv
  <2> QED BY <1>1, <2>1, <2>2
<1>3. msg \in Messages BY <1>2, RingHolds DEF TypeInv
<1>4. \A n : (IsChat(n)' <=> IsChat(n)) /\ Message(n)' = Message(n)
  BY <1>1 DEF IsChat, Message, Oldest
<1>5. /\ InOrder(heard[c])
      /\ Silent(f, tail) => LastHeard(c) = chats
      /\ \A n \in f..tail :
           IsChat(n) /\ Silent(f, n - 1) => Message(n).line = LastHeard(c) + 1
  BY <1>1 DEF HeardOf, Reads
<1>6. \A n \in Int : n >= f => (Silent(f, n) <=> ~IsChat(f) /\ Silent(f + 1, n))
  <2> TAKE n \in Int
  <2> HAVE n >= f
  <2>1. f..n = {f} \cup (f + 1..n) BY <1>2
  <2> QED BY <2>1 DEF Silent
<1>7. SUFFICES /\ InOrder(heard'[c])
               /\ Silent(f + 1, tail) => LastHeard(c)' = chats
               /\ \A n \in f + 1..tail : IsChat(n) /\ Silent(f + 1, n - 1) =>
                    Message(n).line = LastHeard(c)' + 1
  BY <1>1, <1>2, <1>4 DEF HeardOf, InOrder, Silent
<1>8. CASE ~IsChat(f)
  <2>1. heard'[c] = heard[c] BY <1>1, <1>8 DEF IsChat
  <2>2. LastHeard(c)' = LastHeard(c) BY <2>1 DEF LastHeard
  <2>3. Silent(f + 1, tail) => LastHeard(c)' = chats BY <1>1, <1>2, <1>5, <1>6, <1>8, <2>2
  <2>4. ASSUME NEW n \in f + 1..tail, IsChat(n), Silent(f + 1, n - 1)
        PROVE  Message(n).line = LastHeard(c)' + 1
    <3>1. n - 1 \in Int /\ n - 1 >= f /\ n \in f..tail BY <1>2
    <3>2. Silent(f, n - 1) BY <1>6, <1>8, <2>4, <3>1
    <3> QED BY <1>5, <2>2, <2>4, <3>1, <3>2
  <2> QED BY <1>5, <2>1, <2>3, <2>4
<1>9. CASE IsChat(f)
  <2>1. heard'[c] = Append(heard[c], msg.line) /\ msg.line \in 1..MaxChats
    BY <1>1, <1>3, <1>9, MessageParts DEF IsChat
  <2>2. Silent(f, f - 1) /\ f \in f..tail BY <1>1, <1>2 DEF Silent
  <2>3. msg.line = LastHeard(c) + 1 BY <1>5, <1>9, <2>2
  <2>4. /\ InOrder(heard'[c]) /\ heard'[c] # <<>> /\ Last(heard'[c]) = msg.line
    <3>1. heard[c] # <<>> => msg.line = Last(heard[c]) + 1 BY <2>3 DEF LastHeard
    <3>2. 1..MaxChats \subseteq Int OBVIOUS
    <3> DEFINE line == msg.line
               s == heard[c]
    <3>3. line \in 1..MaxChats /\ s \in Seq(1..MaxChats) /\ InOrder(s)
          /\ (s # <<>> => line = Last(s) + 1) /\ heard'[c] = Append(s, line)
      BY <1>2, <1>5, <2>1, <3>1
    <3> HIDE DEF line, s
    <3>4. /\ InOrder(Append(s, line)) /\ Append(s, line) # <<>>
          /\ Last(Append(s, line)) = line
      BY <3>2, <3>3, AppendInOrder
    <3>5. InOrder(heard'[c]) /\ heard'[c] # <<>> /\ Last(heard'[c]) = line
      BY <3>3, <3>4 DEF InOrder
    <3> QED BY <3>5 DEF line
  <2>5. LastHeard(c)' = msg.line BY <2>4 DEF LastHeard
  <2>6. Silent(f + 1, tail) => msg.line = chats
    BY <1>2, <1>9 DEF LinesInv, LastChat
  <2>7. ASSUME NEW n \in f + 1..tail, IsChat(n), Silent(f + 1, n - 1)
        PROVE  Message(n).line = msg.line + 1
    <3>1. n \in Oldest..tail /\ f < n BY <1>2
    <3> QED BY <1>2, <1>9, <2>7, <3>1 DEF LinesInv, NextChat
  <2> QED BY <2>4, <2>5, <2>6, <2>7
<1> QED BY <1>8, <1>9

\* The history is sent from the mutex under which the forwarder subscribed:
\* what it holds is all before the first message to come.
LEMMA HeardAttach ==
  ASSUME TypeInv, NEW c \in Conns, AttachTo(c)
  PROVE  HeardOf(c)'
<1>1. /\ fwdAt'[c] = tail + 1 /\ heard'[c] = History
      /\ UNCHANGED <<tail, chats>> /\ tail \in Nat /\ TypeOK
      /\ chats \in Nat
  BY DEF AttachTo, hubVars, TypeInv, TypeOK
<1>2. /\ \A i \in 1..Len(History) - 1 : History[i + 1] = History[i] + 1
      /\ chats = 0 => History = <<>>
      /\ chats > 0 => History # <<>> /\ Last(History) = chats
  BY <1>1, HistoryHolds
<1>3. InOrder(heard'[c]) BY <1>1, <1>2 DEF InOrder
<1>4. LastHeard(c)' = chats'
  <2>1. CASE chats = 0 BY <1>1, <1>2, <2>1 DEF LastHeard
  <2>2. CASE chats > 0 BY <1>1, <1>2, <2>2 DEF LastHeard
  <2> QED BY <1>1, <2>1, <2>2
<1>5. fwdAt'[c] <= tail' + 1 BY <1>1
<1>6. fwdAt'[c]..tail' = {} BY <1>1
<1>7. \A n \in fwdAt'[c]..tail' : FALSE BY <1>6
<1> QED BY <1>3, <1>4, <1>5, <1>7 DEF HeardOf, InOrder

LEMMA HeardStep ==
  ASSUME TypeInv, LinesInv, [Next]_vars, NEW c \in Conns, HeardOf(c)
  PROVE  HeardOf(c)'
<1>0. /\ TypeOK /\ Oldest \in Nat \ {0} /\ pc \in [Conns -> Phases]
      /\ fwdAt \in [Conns -> Nat] /\ heard \in [Conns -> Seq(1..MaxChats)]
  BY RingHolds DEF TypeInv, TypeOK, Phases
<1>h. Still \/ \E msg \in Messages : Speaks(msg) BY HubSteps DEF TypeInv
<1>s. Still => /\ chats' = chats /\ tail' = tail /\ Oldest' = Oldest
               /\ \A n : (IsChat(n)' <=> IsChat(n)) /\ Message(n)' = Message(n)
  BY DEF Still, Oldest, IsChat, Message
\* Nothing changed that HeardOf(c) is about.
<1>k. ASSUME Still, fwdAt'[c] = fwdAt[c], heard'[c] = heard[c],
             pc'[c] \in {"attached", "added", "main"} =>
               pc[c] \in {"attached", "added", "main"}
      PROVE  HeardOf(c)'
  BY <1>s, <1>k DEF HeardOf, InOrder, Reads, LastHeard, Silent
\* A connection without a forwarder and without a position in the chat.
<1>e. ASSUME heard'[c] = <<>>, pc'[c] \in {"exiting", "off", "read"} PROVE HeardOf(c)'
  <2>1. Len(<<>>) = 0 BY EmptySeq
  <2> QED BY <1>e, <2>1 DEF HeardOf, InOrder
<1>1. CASE Same(c)
  <2>1. CASE Still BY <1>1, <1>k, <2>1 DEF Same
  <2> QED BY <1>h, <1>1, <2>1, HeardSpeaks DEF Same
<1>2. CASE AddParticipant(c)
  <2>1. fwdAt' = fwdAt /\ heard' = heard /\ pc[c] = "attached" /\ pc'[c] = "added"
    BY <1>0, <1>2 DEF AddParticipant, Goto
  <2>2. CASE Still BY <1>k, <2>1, <2>2
  <2>3. ASSUME NEW msg \in Messages, Speaks(msg) PROVE HeardOf(c)'
    BY <2>1, <2>3, HeardSpeaks
  <2> QED BY <1>h, <2>2, <2>3
<1>3. CASE RemoveParticipant(c)
  <2>1. heard' = heard /\ pc'[c] = "off"
    BY <1>0, <1>3 DEF RemoveParticipant, Goto
  <2> QED BY <2>1 DEF HeardOf, InOrder
<1>4. CASE Still /\ Own(c)
  <2> USE <1>0 DEF Goto
  <2>1. CASE ReadRole(c)
    <3>1. pc'[c] = "read" /\ heard' = heard BY <2>1 DEF ReadRole
    <3> QED BY <3>1 DEF HeardOf, InOrder
  <2>2. CASE AttachTo(c) BY <2>2, HeardAttach
  <2>3. CASE EnterMain(c)
    <3>1. pc[c] = "added" /\ fwdAt' = fwdAt /\ heard' = heard BY <2>3 DEF EnterMain
    <3> QED BY <1>4, <1>k, <3>1
  <2>4. CASE Forward(c) BY <2>4, HeardForward
  <2>5. CASE ForwardLag(c)
    <3>1. fwdAt'[c] = 0 /\ heard' = heard BY <2>5 DEF ForwardLag
    <3>2. Oldest' \in Nat \ {0} BY <1>s, <1>4
    <3> QED BY <3>1, <3>2 DEF HeardOf, InOrder, Reads
  <2>6. CASE RoleMessage(c) \/ RoleLag(c) \/ Resync(c)
    <3>1. UNCHANGED <<pc, fwdAt, heard>> BY <2>6 DEF RoleMessage, RoleLag, Resync
    <3> QED BY <1>4, <1>k, <3>1
  <2>7. CASE Leave(c) \/ BreakOff(c)
    <3>1. pc'[c] \in {"exiting", "off"} /\ heard'[c] = <<>>
      BY <2>7 DEF Leave, BreakOff, Gone
    <3> QED BY <1>e, <3>1
  <2>8. CASE AddParticipant(c) \/ RemoveParticipant(c) BY <1>2, <1>3, <2>8
  <2> HIDE DEF Goto
  <2> QED BY <1>4, <2>1, <2>2, <2>3, <2>4, <2>5, <2>6, <2>7, <2>8 DEF Own
<1> QED BY <1>0, <1>1, <1>2, <1>3, <1>4, ConnCases, OwnIsStill

HeardInv == TypeInv /\ LinesInv /\ \A c \in Conns : HeardOf(c)

LEMMA HeardInvariant == Spec => []HeardInv
<1>1. Init => HeardInv
  <2> SUFFICES ASSUME Init PROVE HeardInv OBVIOUS
  <2>1. TypeInv BY TypeInit
  <2>2. Oldest = 1 /\ tail = 0 BY EmptySeq DEF Init, Oldest
  <2>3. Oldest..tail = {} BY <2>2
  <2>4. LinesInv BY <2>3 DEF LinesInv, LastChat, NextChat
  <2>5. Len(<<>>) = 0 BY EmptySeq
  <2>6. \A c \in Conns : HeardOf(c) BY <2>5 DEF Init, HeardOf, InOrder
  <2> QED BY <2>1, <2>4, <2>6 DEF HeardInv
<1>2. HeardInv /\ [Next]_vars => HeardInv'
  <2> SUFFICES ASSUME HeardInv, [Next]_vars PROVE HeardInv' OBVIOUS
  <2>1. TypeInv' /\ LinesInv' BY TypeNext, LinesStep DEF HeardInv
  <2>2. ASSUME NEW c \in Conns PROVE HeardOf(c)' BY HeardStep DEF HeardInv
  <2> QED BY <2>1, <2>2 DEF HeardInv
<1> QED BY <1>1, <1>2, PTL DEF Spec

\* The history and the broadcast together give a connection every chat line
\* once and in order, and all of them once it received all there is.
THEOREM ChatIsHeardOnce == Spec => []ChatOnce
<1>1. HeardInv => ChatOnce
  <2> SUFFICES ASSUME HeardInv, NEW c \in Conns
               PROVE  /\ InOrder(heard[c])
                      /\ Drained(c) /\ chats > 0 =>
                           heard[c] # <<>> /\ Last(heard[c]) = chats
    BY DEF ChatOnce, InOrder
  <2>0. HeardOf(c) BY DEF HeardInv
  <2>1. ASSUME Drained(c), chats > 0 PROVE heard[c] # <<>> /\ Last(heard[c]) = chats
    <3>1. pc[c] = "main" /\ fwdAt[c] = tail + 1 BY <2>1 DEF Drained, Forwarding
    <3>2. /\ tail \in Nat /\ Oldest \in Nat /\ Oldest <= tail + 1
          /\ chats \in Nat
      BY RingHolds DEF HeardInv, TypeInv, TypeOK
    <3>3. Reads(c) BY <3>1, <3>2 DEF Reads
    <3>4. Silent(tail + 1, tail) BY <3>2 DEF Silent
    <3>5. LastHeard(c) = chats BY <2>0, <3>1, <3>3, <3>4 DEF HeardOf
    <3> QED BY <2>1, <3>2, <3>5 DEF LastHeard
  <2> QED BY <2>0, <2>1 DEF HeardOf
<1> QED BY <1>1, HeardInvariant, PTL
==============================================================================
