---------------------------- MODULE PlayersProof ----------------------------
(***************************************************************************)
(* Proofs about Players, for any number of slots and users; about          *)
(* GameEvents, that it is Players with more around it, so that what is     *)
(* shown of Players holds there, that what is shown of a player is his,    *)
(* and that what is printed was asked for, for any number of slots, users, *)
(* events and props, and any command line; and about Snapshot, that its    *)
(* numbers, bytes, strings, rows and tables are read as they were written  *)
(* and up to their ends, so that the reader is always at the beginning of  *)
(* a part, and the player infos are those that were recorded.              *)
(***************************************************************************)
EXTENDS GameEvents, Snapshot, Lemmas

(***************************************************************************)
(* The player infos.                                                       *)
(***************************************************************************)

(* No user plays in two slots, or plays after having left; only players    *)
(* are announced or listed.                                                *)
OneSlotEach == \A s, t \in Slots : slots[s] = slots[t] /\ slots[s] # Nobody => s = t
GoneLeft == \A s \in Slots : slots[s] \notin gone
OnlyPlayers == \A s \in announced \union listed : slots[s] # Nobody

(* An info that is not of a player who disconnected is of the one who      *)
(* plays in its slot.                                                      *)
InfosCurrent ==
    \A k \in DOMAIN s_PlayerInfos : s_PlayerInfos[k].userID # -1 =>
        s_PlayerInfos[k] = PlayerInfo(s_PlayerInfos[k].entityID, slots[s_PlayerInfos[k].entityID])

(* A player who was announced or is listed has an info, within a snapshot  *)
(* as soon as his row was read.                                            *)
HasInfo(s) == \E k \in DOMAIN s_PlayerInfos : s_PlayerInfos[k] = PlayerInfo(s, slots[s])
KnownHaveInfos ==
    /\ \A s \in announced \union listed : ~snapshot \/ s < row => HasInfo(s)
    /\ snapshot => announced = {}

IInv ==
    /\ TypeOK
    /\ UniqueSlots
    /\ RowsAreNew
    /\ OneSlotEach
    /\ GoneLeft
    /\ OnlyPlayers
    /\ InfosCurrent
    /\ KnownHaveInfos

Unique(infos) == \A k, l \in DOMAIN infos : infos[k].entityID = infos[l].entityID => k = l
-----------------------------------------------------------------------------
(* A list with one info a slot is not longer than there are slots.         *)
LEMMA NoMoreThanSlots ==
    ASSUME NEW infos \in Seq(Infos), Unique(infos)
    PROVE  Len(infos) <= MaxSlot + 1
<1> DEFINE n == Len(infos)
           f == [k \in 1 .. n |-> infos[k].entityID]
<1>1. n \in Nat /\ MaxSlot \in Nat
  BY MaxSlotAssumption
<1>2. \A k \in 1 .. n : infos[k] \in Infos
  OBVIOUS
<1>3. f \in [1 .. n -> Slots]
  BY <1>2 DEF Infos
<1>4. \A k, l \in 1 .. n : f[k] = f[l] => k = l
  BY DEF Unique
<1>5. f \in Injection(1 .. n, Slots)
  BY <1>3, <1>4 DEF Injection, IsInjective
<1>6. IsFiniteSet(0 .. MaxSlot) /\ Cardinality(0 .. MaxSlot) = MaxSlot + 1
  BY <1>1, FS_Interval
<1>7. IsFiniteSet(1 .. n) /\ Cardinality(1 .. n) = n
  BY <1>1, FS_Interval
<1>8. Cardinality(1 .. n) <= Cardinality(Slots)
  BY <1>5, <1>6, FS_Injection DEF Slots
<1> QED
  BY <1>1, <1>6, <1>7, <1>8 DEF Slots

LEMMA FoundByEntity ==
    ASSUME s_PlayerInfos \in Seq(Infos), UniqueSlots, NEW slot \in Slots
    PROVE  IF FindPlayerByEntity(slot) = 0
           THEN \A k \in DOMAIN s_PlayerInfos : s_PlayerInfos[k].entityID # slot
           ELSE /\ FindPlayerByEntity(slot) \in DOMAIN s_PlayerInfos
                /\ s_PlayerInfos[FindPlayerByEntity(slot)].entityID = slot
<1> DEFINE found == {k \in DOMAIN s_PlayerInfos : s_PlayerInfos[k].entityID = slot}
<1>1. CASE found = {}
  BY <1>1 DEF FindPlayerByEntity
<1>2. CASE found # {}
  <2>1. PICK k \in found : TRUE
    BY <1>2
  <2>2. \A l \in found : k <= l
    BY <2>1 DEF UniqueSlots
  <2>3. (CHOOSE l \in found : \A m \in found : l <= m) \in found
    BY <2>1, <2>2
  <2>4. FindPlayerByEntity(slot) \in found
    BY <1>2, <2>3 DEF FindPlayerByEntity
  <2> QED
    BY <2>4
<1> QED
  BY <1>1, <1>2

(* A user who plays has no more than one info.                             *)
LEMMA OneInfoEach ==
    ASSUME IInv, NEW user \in Users,
           NEW k \in DOMAIN s_PlayerInfos, s_PlayerInfos[k].userID = user,
           NEW l \in DOMAIN s_PlayerInfos, s_PlayerInfos[l].userID = user
    PROVE  k = l
<1>1. s_PlayerInfos[k] \in Infos /\ s_PlayerInfos[l] \in Infos /\ user # -1
  BY UsersAssumption DEF IInv, TypeOK
<1>2. /\ slots[s_PlayerInfos[k].entityID] = user
      /\ slots[s_PlayerInfos[l].entityID] = user
  BY <1>1 DEF IInv, InfosCurrent, PlayerInfo
<1>3. s_PlayerInfos[k].entityID = s_PlayerInfos[l].entityID
  BY <1>1, <1>2 DEF IInv, OneSlotEach, Infos, Nobody
<1> QED
  BY <1>3 DEF IInv, UniqueSlots

LEMMA FoundByUser ==
    ASSUME IInv, NEW user \in Users
    PROVE  IF FindPlayerInfo(user) = 0
           THEN \A k \in DOMAIN s_PlayerInfos : s_PlayerInfos[k].userID # user
           ELSE /\ FindPlayerInfo(user) \in DOMAIN s_PlayerInfos
                /\ s_PlayerInfos[FindPlayerInfo(user)].userID = user
<1> DEFINE found == {k \in DOMAIN s_PlayerInfos : s_PlayerInfos[k].userID = user}
<1>1. CASE found = {}
  BY <1>1 DEF FindPlayerInfo
<1>2. CASE found # {}
  <2>1. PICK k \in found : TRUE
    BY <1>2
  <2>2. \A l \in found : k = l
    BY <2>1, OneInfoEach
  <2>3. k \in Int
    BY <2>1 DEF IInv, TypeOK
  <2>4. (CHOOSE l \in found : \A m \in found : l <= m) \in found
    BY <2>1, <2>2, <2>3
  <2>5. FindPlayerInfo(user) = CHOOSE l \in found : \A m \in found : l <= m
    BY <1>2 DEF FindPlayerInfo
  <2>6. \A l \in found : l # 0
    BY DEF IInv, TypeOK
  <2>7. FindPlayerInfo(user) \in found
    BY <2>4, <2>5, Zenon
  <2> QED
    BY <2>6, <2>7
<1> QED
  BY <1>1, <1>2
-----------------------------------------------------------------------------
(* What the two operations make of the list.                               *)

LEMMA AddOrReplaceAdds ==
    ASSUME IInv, NEW slot \in Slots, NEW info \in Infos, info.entityID = slot,
           NEW infos, infos = AddOrReplace(slot, info)
    PROVE  /\ infos \in Seq(Infos)
           /\ Unique(infos)
           /\ \E k \in DOMAIN infos : infos[k] = info
           /\ \A k \in DOMAIN infos :
                 infos[k] = info \/ (k \in DOMAIN s_PlayerInfos /\ infos[k] = s_PlayerInfos[k])
           /\ \A k \in DOMAIN s_PlayerInfos :
                 s_PlayerInfos[k].entityID # slot => k \in DOMAIN infos /\ infos[k] = s_PlayerInfos[k]
<1> DEFINE old == s_PlayerInfos
           place == FindPlayerByEntity(slot)
<1>1. old \in Seq(Infos) /\ UniqueSlots
  BY DEF IInv, TypeOK
<1>2. CASE place = 0
  <2>1. \A k \in DOMAIN old : old[k].entityID # slot
    BY <1>1, <1>2, FoundByEntity
  <2>2. infos = Append(old, info)
    BY <1>2 DEF AddOrReplace
  <2>3. /\ infos \in Seq(Infos) /\ Len(infos) = Len(old) + 1
        /\ infos[Len(infos)] = info
        /\ \A k \in 1 .. Len(old) : infos[k] = old[k]
    BY <1>1, <2>2
  <2>4. \A k \in DOMAIN infos : k = Len(infos) \/ k \in DOMAIN old
    BY <1>1, <2>3
  <2>5. Len(infos) \in DOMAIN infos /\ \A k \in DOMAIN old : k \in DOMAIN infos
    BY <1>1, <2>3
  <2>6. Unique(infos)
    BY <1>1, <2>1, <2>3, <2>4 DEF Unique, UniqueSlots
  <2> QED
    BY <1>1, <2>3, <2>4, <2>5, <2>6
<1>3. CASE place # 0
  <2>1. place \in DOMAIN old /\ old[place].entityID = slot
    BY <1>1, <1>3, FoundByEntity
  <2>2. infos = [old EXCEPT ![place] = info]
    BY <1>3 DEF AddOrReplace
  <2>3. /\ infos \in Seq(Infos) /\ DOMAIN infos = DOMAIN old
        /\ infos[place] = info
        /\ \A k \in DOMAIN old : k # place => infos[k] = old[k]
    BY <1>1, <2>1, <2>2
  <2>4. \A k \in DOMAIN infos : infos[k].entityID = old[k].entityID
    BY <2>1, <2>3
  <2>5. Unique(infos)
    BY <1>1, <2>3, <2>4 DEF Unique, UniqueSlots
  <2> QED
    BY <2>1, <2>3, <2>5
<1> QED
  BY <1>2, <1>3

LEMMA MarkDisconnectedMarks ==
    ASSUME IInv, NEW user \in Users,
           NEW infos, infos = MarkDisconnected(user)
    PROVE  /\ infos \in Seq(Infos)
           /\ DOMAIN infos = DOMAIN s_PlayerInfos
           /\ \A k \in DOMAIN infos :
                 /\ infos[k].entityID = s_PlayerInfos[k].entityID
                 /\ s_PlayerInfos[k].userID # user => infos[k] = s_PlayerInfos[k]
                 /\ s_PlayerInfos[k].userID = user => infos[k].userID = -1
<1> DEFINE old == s_PlayerInfos
           place == FindPlayerInfo(user)
<1>1. old \in Seq(Infos)
  BY DEF IInv, TypeOK
<1>2. CASE place = 0
  BY <1>1, <1>2, FoundByUser DEF MarkDisconnected
<1>3. CASE place # 0
  <2>1. place \in DOMAIN old /\ old[place].userID = user
    BY <1>3, FoundByUser
  <2>2. \A k \in DOMAIN old : old[k].userID = user => k = place
    BY <2>1, OneInfoEach
  <2>3. infos = [old EXCEPT ![place].userID = -1]
    BY <1>3 DEF MarkDisconnected
  <2>4. old[place] \in Infos
    BY <1>1, <2>1
  <2>5. [old[place] EXCEPT !.userID = -1] \in Infos
    BY <2>4 DEF Infos
  <2>6. /\ infos \in Seq(Infos) /\ DOMAIN infos = DOMAIN old
        /\ infos[place] = [old[place] EXCEPT !.userID = -1]
        /\ \A k \in DOMAIN old : k # place => infos[k] = old[k]
    BY <1>1, <2>1, <2>3, <2>5
  <2>7. infos[place].userID = -1 /\ infos[place].entityID = old[place].entityID
    BY <2>4, <2>6 DEF Infos
  <2> QED
    BY <2>1, <2>2, <2>6, <2>7
<1> QED
  BY <1>2, <1>3

LEMMA InfoIsInfo ==
    ASSUME NEW slot \in Slots, NEW user \in Users
    PROVE  PlayerInfo(slot, user) \in Infos /\ PlayerInfo(slot, user).entityID = slot
  BY DEF PlayerInfo, Infos
-----------------------------------------------------------------------------
(* The three steps that add an info add the one of a slot's player.        *)
LEMMA InfoAdded ==
    ASSUME IInv, NEW slot \in Slots, slots[slot] # Nobody,
           s_PlayerInfos' = AddOrReplace(slot, PlayerInfo(slot, slots[slot])),
           slots' = slots
    PROVE  /\ s_PlayerInfos' \in Seq(Infos) /\ Len(s_PlayerInfos') <= MaxSlot + 1
           /\ UniqueSlots'
           /\ InfosCurrent'
           /\ HasInfo(slot)'
           /\ \A s \in Slots : HasInfo(s) => HasInfo(s)'
           /\ \A k \in DOMAIN s_PlayerInfos' :
                 \/ s_PlayerInfos'[k].entityID = slot
                 \/ k \in DOMAIN s_PlayerInfos /\ s_PlayerInfos'[k] = s_PlayerInfos[k]
<1> DEFINE info == PlayerInfo(slot, slots[slot])
<1>1. info \in Infos /\ info.entityID = slot /\ slots[slot] \in Users
  BY InfoIsInfo DEF IInv, TypeOK, Nobody
<1>2. /\ s_PlayerInfos' \in Seq(Infos)
      /\ Unique(s_PlayerInfos')
      /\ \E k \in DOMAIN s_PlayerInfos' : s_PlayerInfos'[k] = info
      /\ \A k \in DOMAIN s_PlayerInfos' :
            \/ s_PlayerInfos'[k] = info
            \/ k \in DOMAIN s_PlayerInfos /\ s_PlayerInfos'[k] = s_PlayerInfos[k]
      /\ \A k \in DOMAIN s_PlayerInfos :
            s_PlayerInfos[k].entityID # slot =>
                k \in DOMAIN s_PlayerInfos' /\ s_PlayerInfos'[k] = s_PlayerInfos[k]
  BY <1>1, AddOrReplaceAdds
<1>3. Len(s_PlayerInfos') <= MaxSlot + 1
  BY <1>2, NoMoreThanSlots
<1>4. UniqueSlots'
  BY <1>2 DEF Unique, UniqueSlots
<1>5. InfosCurrent'
  <2> SUFFICES ASSUME NEW k \in DOMAIN s_PlayerInfos', s_PlayerInfos'[k].userID # -1
               PROVE  s_PlayerInfos'[k] =
                        PlayerInfo(s_PlayerInfos'[k].entityID, slots[s_PlayerInfos'[k].entityID])
    BY DEF InfosCurrent, PlayerInfo
  <2>1. CASE s_PlayerInfos'[k] = info
    BY <1>1, <2>1
  <2>2. CASE k \in DOMAIN s_PlayerInfos /\ s_PlayerInfos'[k] = s_PlayerInfos[k]
    BY <2>2 DEF IInv, InfosCurrent
  <2> QED
    BY <1>2, <2>1, <2>2
<1>6. HasInfo(slot)'
  BY <1>2 DEF HasInfo, PlayerInfo
<1>7. ASSUME NEW s \in Slots, HasInfo(s) PROVE HasInfo(s)'
  <2>1. PICK k \in DOMAIN s_PlayerInfos : s_PlayerInfos[k] = PlayerInfo(s, slots[s])
    BY <1>7 DEF HasInfo
  <2>2. s_PlayerInfos[k].entityID = s
    BY <2>1 DEF PlayerInfo
  <2>3. CASE s = slot
    BY <1>6, <2>3
  <2>4. CASE s # slot
    <3>1. k \in DOMAIN s_PlayerInfos' /\ s_PlayerInfos'[k] = s_PlayerInfos[k]
      BY <1>2, <2>2, <2>4
    <3> QED
      BY <2>1, <3>1 DEF HasInfo, PlayerInfo
  <2> QED
    BY <2>3, <2>4
<1> QED
  BY <1>1, <1>2, <1>3, <1>4, <1>5, <1>6, <1>7

LEMMA InitIInv == Init => IInv
<1> SUFFICES ASSUME Init PROVE IInv
  OBVIOUS
<1> USE DEF Init
<1>1. MaxSlot \in Nat
  BY MaxSlotAssumption
<1>2. DOMAIN s_PlayerInfos = {}
  OBVIOUS
<1>3. TypeOK
  <2>1. s_PlayerInfos \in Seq(Infos) /\ Len(s_PlayerInfos) = 0
    OBVIOUS
  <2>2. row \in 0 .. MaxSlot + 1 /\ Len(s_PlayerInfos) <= MaxSlot + 1
    BY <1>1, <2>1
  <2>3. slots \in [Slots -> Users \union {Nobody}]
    OBVIOUS
  <2> QED
    BY <2>1, <2>2, <2>3 DEF TypeOK
<1>4. UniqueSlots /\ InfosCurrent
  BY <1>2 DEF UniqueSlots, InfosCurrent
<1>5. RowsAreNew /\ KnownHaveInfos
  BY DEF RowsAreNew, KnownHaveInfos
<1>6. OneSlotEach /\ GoneLeft /\ OnlyPlayers
  BY DEF OneSlotEach, GoneLeft, OnlyPlayers
<1> QED
  BY <1>3, <1>4, <1>5, <1>6 DEF IInv

LEMMA JoinIInv ==
    ASSUME IInv, NEW slot \in Slots, NEW user \in Users, Join(slot, user)
    PROVE  IInv'
<1> USE DEF Join
<1>1. TypeOK'
  BY DEF IInv, TypeOK
<1>2. UniqueSlots' /\ RowsAreNew'
  BY DEF IInv, UniqueSlots, RowsAreNew
<1>3. \A s \in Slots : s # slot => slots'[s] = slots[s]
  BY DEF IInv, TypeOK
<1>4. slots'[slot] = user
  BY DEF IInv, TypeOK
<1>5. OneSlotEach' /\ GoneLeft'
  BY <1>3, <1>4 DEF IInv, OneSlotEach, GoneLeft
<1>6. announced \union listed \subseteq Slots /\ slot \notin announced \union listed
  BY DEF IInv, TypeOK, OnlyPlayers
<1>7. OnlyPlayers'
  BY <1>3, <1>6 DEF IInv, OnlyPlayers
<1>8. ASSUME NEW k \in DOMAIN s_PlayerInfos, s_PlayerInfos[k].userID # -1
      PROVE  s_PlayerInfos[k].entityID \in Slots \ {slot}
  <2>1. s_PlayerInfos[k] \in Infos
    BY DEF IInv, TypeOK
  <2>2. slots[s_PlayerInfos[k].entityID] = s_PlayerInfos[k].userID
    BY <1>8 DEF IInv, InfosCurrent, PlayerInfo
  <2> QED
    BY <1>8, <2>1, <2>2 DEF Infos, Nobody
<1>9. InfosCurrent'
  BY <1>3, <1>8 DEF IInv, InfosCurrent, PlayerInfo
<1>10. KnownHaveInfos'
  BY <1>3, <1>6 DEF IInv, KnownHaveInfos, HasInfo, PlayerInfo
<1> QED
  BY <1>1, <1>2, <1>5, <1>7, <1>9, <1>10 DEF IInv

LEMMA ConnectIInv ==
    ASSUME IInv, NEW slot \in Slots, player_connect(slot)
    PROVE  IInv'
<1> USE DEF player_connect, Announce
<1>1. /\ slots[slot] # Nobody /\ slots' = slots
      /\ s_PlayerInfos' = AddOrReplace(slot, PlayerInfo(slot, slots[slot]))
  BY DEF HandlePlayerConnectDisconnectEvents
<1>2. /\ s_PlayerInfos' \in Seq(Infos) /\ Len(s_PlayerInfos') <= MaxSlot + 1
      /\ UniqueSlots' /\ InfosCurrent' /\ HasInfo(slot)'
      /\ \A s \in Slots : HasInfo(s) => HasInfo(s)'
  BY <1>1, InfoAdded
<1>3. TypeOK'
  BY <1>2 DEF IInv, TypeOK
<1>4. RowsAreNew' /\ OneSlotEach' /\ GoneLeft' /\ OnlyPlayers'
  BY <1>1 DEF IInv, RowsAreNew, OneSlotEach, GoneLeft, OnlyPlayers
<1>5. KnownHaveInfos'
  BY <1>2 DEF IInv, TypeOK, KnownHaveInfos
<1> QED
  BY <1>2, <1>3, <1>4, <1>5 DEF IInv

LEMMA UpdateIInv ==
    ASSUME IInv, NEW slot \in Slots, UpdateUserInfo(slot)
    PROVE  IInv'
<1> USE DEF UpdateUserInfo
<1>1. /\ s_PlayerInfos' \in Seq(Infos) /\ Len(s_PlayerInfos') <= MaxSlot + 1
      /\ UniqueSlots' /\ InfosCurrent' /\ HasInfo(slot)'
      /\ \A s \in Slots : HasInfo(s) => HasInfo(s)'
  BY InfoAdded
<1>2. TypeOK'
  BY <1>1 DEF IInv, TypeOK
<1>3. RowsAreNew' /\ OneSlotEach' /\ GoneLeft' /\ OnlyPlayers'
  BY DEF IInv, RowsAreNew, OneSlotEach, GoneLeft, OnlyPlayers
<1>4. KnownHaveInfos'
  BY <1>1 DEF IInv, TypeOK, KnownHaveInfos
<1> QED
  BY <1>1, <1>2, <1>3, <1>4 DEF IInv

LEMMA DisconnectIInv ==
    ASSUME IInv, NEW slot \in Slots, player_disconnect(slot)
    PROVE  IInv'
<1> USE DEF player_disconnect, TakeOut
<1> DEFINE user == slots[slot]
<1>1. user \in Users /\ user # -1
  BY UsersAssumption DEF IInv, TypeOK, Nobody
<1>2. s_PlayerInfos' = MarkDisconnected(user)
  BY DEF HandlePlayerConnectDisconnectEvents
<1>3. /\ s_PlayerInfos' \in Seq(Infos)
      /\ DOMAIN s_PlayerInfos' = DOMAIN s_PlayerInfos
      /\ \A k \in DOMAIN s_PlayerInfos :
            /\ s_PlayerInfos'[k].entityID = s_PlayerInfos[k].entityID
            /\ s_PlayerInfos[k].userID # user => s_PlayerInfos'[k] = s_PlayerInfos[k]
            /\ s_PlayerInfos[k].userID = user => s_PlayerInfos'[k].userID = -1
  BY <1>1, <1>2, MarkDisconnectedMarks
<1>4. UniqueSlots'
  BY <1>3 DEF IInv, UniqueSlots
<1>5. Len(s_PlayerInfos') <= MaxSlot + 1
  BY <1>3, <1>4, NoMoreThanSlots DEF Unique, UniqueSlots
<1>6. slots' \in [Slots -> Users \union {Nobody}]
  BY DEF IInv, TypeOK
<1>7. TypeOK'
  BY <1>1, <1>3, <1>5, <1>6 DEF IInv, TypeOK
<1>8. RowsAreNew' /\ ~snapshot'
  BY DEF IInv, RowsAreNew
<1>9. slots'[slot] = Nobody /\ \A s \in Slots : s # slot => slots'[s] = slots[s]
  BY DEF IInv, TypeOK
<1>10. OneSlotEach'
  BY <1>9 DEF IInv, OneSlotEach
<1>11. GoneLeft'
  <2>1. \A s \in Slots : s # slot => slots[s] # user
    BY DEF IInv, OneSlotEach
  <2>2. Nobody \notin Users
    BY UsersAssumption DEF Nobody
  <2>3. Nobody \notin gone'
    BY <2>2, <1>7 DEF TypeOK
  <2> QED
    BY <1>9, <2>1, <2>3 DEF IInv, GoneLeft
<1>12. announced \union listed \subseteq Slots
  BY DEF IInv, TypeOK
<1>13. OnlyPlayers'
  BY <1>9, <1>12 DEF IInv, OnlyPlayers
<1>14. ASSUME NEW k \in DOMAIN s_PlayerInfos, s_PlayerInfos[k].userID # -1
       PROVE  /\ s_PlayerInfos[k].entityID \in Slots
              /\ s_PlayerInfos[k] =
                    PlayerInfo(s_PlayerInfos[k].entityID, slots[s_PlayerInfos[k].entityID])
              /\ slots[s_PlayerInfos[k].entityID] = s_PlayerInfos[k].userID
  <2>1. s_PlayerInfos[k] \in Infos
    BY DEF IInv, TypeOK
  <2> QED
    BY <1>14, <2>1 DEF IInv, InfosCurrent, PlayerInfo, Infos
<1>15. InfosCurrent'
  <2> SUFFICES ASSUME NEW k \in DOMAIN s_PlayerInfos, s_PlayerInfos'[k].userID # -1
               PROVE  s_PlayerInfos'[k] =
                        PlayerInfo(s_PlayerInfos'[k].entityID, slots'[s_PlayerInfos'[k].entityID])
    BY <1>3 DEF InfosCurrent, PlayerInfo
  <2>1. s_PlayerInfos[k].userID # user /\ s_PlayerInfos'[k] = s_PlayerInfos[k]
    BY <1>3
  <2>2. s_PlayerInfos[k].entityID # slot
    BY <1>14, <2>1
  <2> QED
    BY <1>9, <1>14, <2>1, <2>2
<1>16. KnownHaveInfos'
  <2> SUFFICES ASSUME NEW s \in announced' \union listed' PROVE HasInfo(s)'
    BY <1>8 DEF KnownHaveInfos, HasInfo, PlayerInfo
  <2>1. s \in announced \union listed /\ s \in Slots /\ s # slot
    BY <1>12
  <2>2. PICK k \in DOMAIN s_PlayerInfos : s_PlayerInfos[k] = PlayerInfo(s, slots[s])
    BY <2>1 DEF IInv, KnownHaveInfos, HasInfo
  <2>3. slots[s] # user
    BY <2>1 DEF IInv, OneSlotEach
  <2>4. s_PlayerInfos'[k] = s_PlayerInfos[k]
    BY <1>3, <2>2, <2>3 DEF PlayerInfo
  <2> QED
    BY <1>3, <1>9, <2>1, <2>2, <2>4 DEF HasInfo, PlayerInfo
<1> QED
  BY <1>4, <1>7, <1>8, <1>10, <1>11, <1>13, <1>15, <1>16 DEF IInv

LEMMA ClearIInv ==
    ASSUME IInv, ClearPlayers
    PROVE  IInv'
<1> USE DEF ClearPlayers
<1>1. MaxSlot \in Nat
  BY MaxSlotAssumption
<1>2. DOMAIN s_PlayerInfos' = {}
  OBVIOUS
<1>3. TypeOK'
  BY <1>1 DEF IInv, TypeOK
<1>4. UniqueSlots' /\ InfosCurrent' /\ RowsAreNew'
  BY <1>2 DEF UniqueSlots, InfosCurrent, RowsAreNew
<1>5. OneSlotEach' /\ GoneLeft' /\ OnlyPlayers'
  BY DEF IInv, OneSlotEach, GoneLeft, OnlyPlayers
<1>6. \A s \in Slots : ~(s < 0)
  BY DEF Slots
<1>7. listed' \subseteq Slots /\ announced' = {} /\ row' = 0 /\ snapshot'
  BY DEF IInv, TypeOK
<1>8. KnownHaveInfos'
  BY <1>6, <1>7 DEF KnownHaveInfos
<1> QED
  BY <1>3, <1>4, <1>5, <1>8 DEF IInv

LEMMA AddRowIInv ==
    ASSUME IInv, AddRow
    PROVE  IInv'
<1> USE DEF AddRow, server
<1>1. row \in Slots /\ row \in Nat /\ row' = row + 1 /\ MaxSlot \in Nat
  BY MaxSlotAssumption DEF IInv, TypeOK, Slots
<1>2. OneSlotEach' /\ GoneLeft' /\ OnlyPlayers'
  BY DEF IInv, OneSlotEach, GoneLeft, OnlyPlayers
<1>3. /\ s_PlayerInfos' \in Seq(Infos) /\ Len(s_PlayerInfos') <= MaxSlot + 1
      /\ UniqueSlots' /\ InfosCurrent'
      /\ \A s \in Slots : s = row /\ s \in listed => HasInfo(s)'
      /\ \A s \in Slots : HasInfo(s) => HasInfo(s)'
      /\ \A k \in DOMAIN s_PlayerInfos' :
            \/ s_PlayerInfos'[k].entityID = row
            \/ k \in DOMAIN s_PlayerInfos /\ s_PlayerInfos'[k] = s_PlayerInfos[k]
  <2>1. CASE row \in listed
    <3>1. slots[row] # Nobody
      BY <2>1 DEF IInv, OnlyPlayers
    <3>2. PICK r \in Slots : r = row
      BY <1>1
    <3>3. s_PlayerInfos' = AddOrReplace(r, PlayerInfo(r, slots[r])) /\ slots' = slots
      BY <2>1, <3>2
    <3>4. HasInfo(r)'
      BY <3>1, <3>2, <3>3, InfoAdded
    <3>5. s_PlayerInfos' \in Seq(Infos) /\ Len(s_PlayerInfos') <= MaxSlot + 1
      BY <3>1, <3>2, <3>3, InfoAdded
    <3>6. /\ UniqueSlots' /\ InfosCurrent'
          /\ \A s \in Slots : HasInfo(s) => HasInfo(s)'
      BY <3>1, <3>2, <3>3, InfoAdded
    <3>7. \A k \in DOMAIN s_PlayerInfos' :
            \/ s_PlayerInfos'[k].entityID = r
            \/ k \in DOMAIN s_PlayerInfos /\ s_PlayerInfos'[k] = s_PlayerInfos[k]
      BY <3>1, <3>2, <3>3, InfoAdded
    <3> QED
      BY <3>2, <3>4, <3>5, <3>6, <3>7
  <2>2. CASE row \notin listed
    <3>1. s_PlayerInfos' = s_PlayerInfos /\ slots' = slots
      BY <2>2
    <3> QED
      BY <2>2, <3>1 DEF IInv, TypeOK, UniqueSlots, InfosCurrent, HasInfo
  <2> QED
    BY <2>1, <2>2
<1>4. TypeOK'
  BY <1>1, <1>3 DEF IInv, TypeOK, Slots
<1>5. RowsAreNew'
  <2>1. \A k \in DOMAIN s_PlayerInfos : s_PlayerInfos[k] \in Infos /\ s_PlayerInfos[k].entityID < row
    BY DEF IInv, TypeOK, RowsAreNew
  <2>2. \A k \in DOMAIN s_PlayerInfos : s_PlayerInfos[k].entityID \in Nat
    BY <2>1 DEF Infos, Slots
  <2>3. ASSUME NEW k \in DOMAIN s_PlayerInfos' PROVE s_PlayerInfos'[k].entityID < row'
    <3>1. CASE s_PlayerInfos'[k].entityID = row
      BY <1>1, <3>1
    <3>2. CASE k \in DOMAIN s_PlayerInfos /\ s_PlayerInfos'[k] = s_PlayerInfos[k]
      BY <1>1, <2>1, <2>2, <3>2
    <3> QED
      BY <1>3, <3>1, <3>2
  <2> QED
    BY <2>3 DEF RowsAreNew
<1>6. KnownHaveInfos'
  <2>1. announced' = {} /\ announced = {} /\ listed' = listed /\ listed \subseteq Slots /\ snapshot
    BY DEF IInv, TypeOK, KnownHaveInfos
  <2>2. ASSUME NEW s \in listed, s < row + 1 PROVE HasInfo(s)'
    <3>1. s \in Nat /\ s \in Slots
      BY <2>1 DEF Slots
    <3>2. CASE s = row
      BY <1>3, <2>2, <3>1, <3>2
    <3>3. CASE s < row
      BY <1>3, <2>1, <3>3 DEF IInv, KnownHaveInfos
    <3> QED
      BY <1>1, <2>2, <3>1, <3>2, <3>3
  <2> QED
    BY <1>1, <2>1, <2>2 DEF KnownHaveInfos
<1> QED
  BY <1>2, <1>3, <1>4, <1>5, <1>6 DEF IInv

LEMMA EndIInv ==
    ASSUME IInv, EndSnapshot
    PROVE  IInv'
<1> USE DEF EndSnapshot, server
<1>1. row \in Nat /\ MaxSlot \in Nat /\ \A s \in Slots : s < row
  BY MaxSlotAssumption DEF IInv, TypeOK, Slots
<1>2. TypeOK'
  <2>1. 0 \in 0 .. MaxSlot + 1
    BY <1>1
  <2>2. row' \in 0 .. MaxSlot + 1
    BY <2>1
  <2>3. snapshot' \in BOOLEAN
    OBVIOUS
  <2> QED
    BY <2>2, <2>3 DEF IInv, TypeOK
<1>3. UniqueSlots' /\ InfosCurrent' /\ RowsAreNew'
  BY DEF IInv, UniqueSlots, InfosCurrent, RowsAreNew
<1>4. OneSlotEach' /\ GoneLeft' /\ OnlyPlayers'
  BY DEF IInv, OneSlotEach, GoneLeft, OnlyPlayers
<1>5. KnownHaveInfos'
  BY <1>1 DEF IInv, TypeOK, KnownHaveInfos, HasInfo
<1> QED
  BY <1>2, <1>3, <1>4, <1>5 DEF IInv

LEMMA NextIInv == IInv /\ [Next]_vars => IInv'
<1> SUFFICES ASSUME IInv, [Next]_vars PROVE IInv'
  OBVIOUS
<1>1. CASE UNCHANGED vars
  BY <1>1 DEF vars, IInv, TypeOK, UniqueSlots, RowsAreNew, OneSlotEach, GoneLeft, OnlyPlayers,
              InfosCurrent, KnownHaveInfos, HasInfo
<1>2. ASSUME NEW slot \in Slots, NEW user \in Users, Join(slot, user) PROVE IInv'
  BY <1>2, JoinIInv
<1>3. ASSUME NEW slot \in Slots, player_connect(slot) PROVE IInv'
  BY <1>3, ConnectIInv
<1>4. ASSUME NEW slot \in Slots, player_disconnect(slot) PROVE IInv'
  BY <1>4, DisconnectIInv
<1>5. ASSUME NEW slot \in Slots, UpdateUserInfo(slot) PROVE IInv'
  BY <1>5, UpdateIInv
<1>6. CASE ClearPlayers \/ AddRow \/ EndSnapshot
  BY <1>6, ClearIInv, AddRowIInv, EndIInv
<1> QED
  BY <1>1, <1>2, <1>3, <1>4, <1>5, <1>6 DEF Next

LEMMA Invariant == Spec => []IInv
  BY InitIInv, NextIInv, PTL DEF Spec
-----------------------------------------------------------------------------
(* The player infos, and what the server has told, stay in their types; in *)
(* particular there are never more infos than slots.                       *)
THEOREM TypeCorrect == Spec => []TypeOK
<1>1. IInv => TypeOK
  BY DEF IInv
<1> QED
  BY <1>1, Invariant, PTL

(* However events, updates of userinfo and snapshots are mixed, a slot has *)
(* one info, so that FindPlayerByEntity finds the only one there is.       *)
THEOREM OneInfoASlot == Spec => []UniqueSlots
<1>1. IInv => UniqueSlots
  BY DEF IInv
<1> QED
  BY <1>1, Invariant, PTL

(* A row of a snapshot never finds an info in its place                    *)
(* (demofiledump.cpp:1578).                                                *)
THEOREM RowsFindNoInfo == Spec => []RowsAreNew
<1>1. IInv => RowsAreNew
  BY DEF IInv
<1> QED
  BY <1>1, Invariant, PTL

(* A player that was announced or is listed is found by his user ID, in    *)
(* the slot he plays in.                                                   *)
THEOREM PlayersAreFound == Spec => []RightSlot
<1>1. IInv => RightSlot
  <2> SUFFICES ASSUME IInv, ~snapshot, NEW s \in announced \union listed
               PROVE  /\ FindPlayerInfo(slots[s]) # 0
                      /\ s_PlayerInfos[FindPlayerInfo(slots[s])] = PlayerInfo(s, slots[s])
    BY DEF RightSlot
  <2>1. s \in Slots /\ slots[s] \in Users
    BY DEF IInv, TypeOK, OnlyPlayers, Nobody
  <2>2. PICK k \in DOMAIN s_PlayerInfos : s_PlayerInfos[k] = PlayerInfo(s, slots[s])
    BY DEF IInv, KnownHaveInfos, HasInfo
  <2>3. s_PlayerInfos[k].userID = slots[s]
    BY <2>2 DEF PlayerInfo
  <2>4. FindPlayerInfo(slots[s]) # 0
    BY <2>1, <2>3, FoundByUser
  <2>5. /\ FindPlayerInfo(slots[s]) \in DOMAIN s_PlayerInfos
        /\ s_PlayerInfos[FindPlayerInfo(slots[s])].userID = slots[s]
    BY <2>1, <2>4, FoundByUser
  <2>6. FindPlayerInfo(slots[s]) = k
    BY <2>1, <2>3, <2>5, OneInfoEach
  <2> QED
    BY <2>2, <2>4, <2>6
<1> QED
  BY <1>1, Invariant, PTL

(* Whoever left is not found, whatever updates and snapshots follow.       *)
THEOREM LeaversAreNotFound == Spec => []GoneUnknown
<1>1. IInv => GoneUnknown
  <2> SUFFICES ASSUME IInv, NEW user \in gone, FindPlayerInfo(user) # 0
               PROVE  FALSE
    BY DEF GoneUnknown
  <2> DEFINE info == s_PlayerInfos[FindPlayerInfo(user)]
  <2>1. user \in Users /\ user # -1
    BY UsersAssumption DEF IInv, TypeOK
  <2>2. FindPlayerInfo(user) \in DOMAIN s_PlayerInfos /\ info.userID = user
    BY <2>1, FoundByUser
  <2>3. info \in Infos
    BY <2>2 DEF IInv, TypeOK
  <2>4. info = PlayerInfo(info.entityID, slots[info.entityID])
    BY <2>1, <2>2 DEF IInv, InfosCurrent
  <2>5. info.entityID \in Slots /\ slots[info.entityID] = user
    BY <2>2, <2>3, <2>4 DEF Infos, PlayerInfo
  <2> QED
    BY <2>5 DEF IInv, GoneLeft
<1> QED
  BY <1>1, Invariant, PTL

(***************************************************************************)
(* The command line, for any arguments: what the variables are when they   *)
(* are read, and which file is opened.                                     *)
(***************************************************************************)

Seen(option) == \E k \in 1 .. i - 1 : argv[k] = option

(* Where the arguments are read in their documented order, what selects    *)
(* something is as it was given, and what leaves something out is given    *)
(* behind what it belongs to.                                              *)
FlagsAsSeen ==
    /\ "g_bDumpGameEvents" \in flags <=> Seen("gameevents")
    /\ "g_bDumpDeaths" \in flags <=> Seen("deathscsv")
    /\ "g_bShowExtraPlayerInfoInGameEvents" \in flags => Seen("extrainfo")
    /\ "g_bSupressFootstepEvents" \in flags <=> ~Seen("gameevents") \/ Seen("nofootsteps")
    /\ "g_bSupressWarmupDeaths" \in flags <=> ~Seen("deathscsv") \/ Seen("nowarmup")

(* The file is the last argument that does not start as an option.         *)
FileAsSeen ==
    LET files == {k \in 1 .. i - 1 : ~StartsAsOption(argv[k])}
    IN  IF files = {} THEN nFileArgument = 1 ELSE nFileArgument \in files

MainInv ==
    /\ argv \in Seq(STRING)
    /\ i \in 1 .. Len(argv) + 1
    /\ main \in {"arguments", "open", "exit", "dump"}
    /\ argv = <<>> => main \in {"arguments", "exit"}
    /\ Len(argv) > 1 /\ main # "arguments" => i > Len(argv)
    /\ Everything => i = 1 /\ (main # "arguments" => flags = Dumps)
    /\ ~Everything /\ InOrder => FlagsAsSeen
    /\ FileAsSeen
    /\ main \in {"exit", "dump"} /\ argv # <<>> => (main = "dump" <=> Opens(argv[nFileArgument]))
-----------------------------------------------------------------------------
LEMMA WhatIsSwitched ==
    ASSUME NEW option \in Options
    PROVE  /\ "g_bDumpGameEvents" \in Switched(option) <=>
                "g_bDumpGameEvents" \in flags \/ option = "gameevents"
           /\ "g_bDumpDeaths" \in Switched(option) <=>
                "g_bDumpDeaths" \in flags \/ option = "deathscsv"
           /\ "g_bShowExtraPlayerInfoInGameEvents" \in Switched(option) =>
                "g_bShowExtraPlayerInfoInGameEvents" \in flags \/ option = "extrainfo"
           /\ "g_bSupressFootstepEvents" \in Switched(option) <=>
                \/ "g_bSupressFootstepEvents" \in flags /\ option # "gameevents"
                \/ option = "nofootsteps"
           /\ "g_bSupressWarmupDeaths" \in Switched(option) <=>
                \/ "g_bSupressWarmupDeaths" \in flags /\ option # "deathscsv"
                \/ option = "nowarmup"
<1>1. option \in {"gameevents", "nofootsteps", "extrainfo", "deathscsv", "nowarmup", "stringtables",
                  "datatables", "packetentities", "netmessages"}
  BY DEF Options, On
<1>2. CASE option = "gameevents"
  <2>1. /\ On[option] = "g_bDumpGameEvents"
        /\ Off(option) = {"g_bSupressFootstepEvents", "g_bShowExtraPlayerInfoInGameEvents"}
    BY <1>2 DEF On, Off
  <2> QED
    BY <1>2, <2>1 DEF Switched
<1>3. CASE option = "deathscsv"
  <2>1. /\ On[option] = "g_bDumpDeaths"
        /\ Off(option) = {"g_bSupressWarmupDeaths"}
    BY <1>3 DEF On, Off
  <2> QED
    BY <1>3, <2>1 DEF Switched
<1>4. CASE option \notin {"gameevents", "deathscsv"}
  <2>1. Off(option) = {}
    BY <1>4 DEF Off
  <2>2. CASE option = "nofootsteps"
    BY <2>1, <2>2 DEF Switched, On
  <2>3. CASE option = "extrainfo"
    BY <2>1, <2>3 DEF Switched, On
  <2>4. CASE option = "nowarmup"
    BY <2>1, <2>4 DEF Switched, On
  <2>5. CASE option = "stringtables"
    BY <2>1, <2>5 DEF Switched, On
  <2>6. CASE option = "datatables"
    BY <2>1, <2>6 DEF Switched, On
  <2>7. CASE option = "packetentities"
    BY <2>1, <2>7 DEF Switched, On
  <2>8. CASE option = "netmessages"
    BY <2>1, <2>8 DEF Switched, On
  <2> QED
    BY <1>1, <1>4, <2>2, <2>3, <2>4, <2>5, <2>6, <2>7, <2>8
<1> QED
  BY <1>2, <1>3, <1>4

LEMMA OneOrMore ==
    ASSUME NEW s \in Seq(STRING), s # <<>>
    PROVE  Len(s) = 1 \/ Len(s) > 1
<1>1. Len(s) \in Nat
  OBVIOUS
<1>2. CASE Len(s) = 0
  <2>1. s = [k \in 1 .. 0 |-> s[k]] /\ <<>> = [k \in 1 .. 0 |-> s[k]]
    BY <1>2
  <2> QED
    BY <2>1
<1>3. \A n \in Nat : n = 0 \/ n = 1 \/ n > 1
  OBVIOUS
<1> QED
  BY <1>1, <1>2, <1>3, Zenon

(* One argument more was seen.                                             *)
LEMMA OneMoreSeen ==
    ASSUME argv \in Seq(STRING), i \in DOMAIN argv, i' = i + 1, argv' = argv, NEW option
    PROVE  Seen(option)' <=> Seen(option) \/ argv[i] = option
  BY DEF Seen

LEMMA InitMainInv == MainInit => MainInv
<1> SUFFICES ASSUME MainInit PROVE MainInv
  OBVIOUS
<1>1. /\ argv \in Seq(STRING) /\ i = 1 /\ nFileArgument = 1 /\ main = "arguments"
      /\ flags = {"g_bSupressFootstepEvents", "g_bSupressWarmupDeaths"}
  BY CommandsAssumption DEF MainInit, Suppressions
<1>2. 1 .. i - 1 = {}
  BY <1>1
<1>3. FlagsAsSeen /\ FileAsSeen
  BY <1>1, <1>2 DEF FlagsAsSeen, FileAsSeen, Seen
<1>4. i \in 1 .. Len(argv) + 1
  BY <1>1
<1> QED
  BY <1>1, <1>3, <1>4 DEF MainInv

LEMMA OptionMainInv == MainInv /\ Option => MainInv'
<1> SUFFICES ASSUME MainInv, Option PROVE MainInv'
  OBVIOUS
<1>1. /\ argv' = argv /\ main' = main /\ nFileArgument' = nFileArgument /\ i' = i + 1
      /\ main = "arguments" /\ Len(argv) > 1 /\ i <= Len(argv)
      /\ argv \in Seq(STRING) /\ i \in 1 .. Len(argv) + 1
      /\ StartsAsOption(argv[i])
      /\ flags' = IF argv[i] \in Options THEN Switched(argv[i]) ELSE flags
  BY DEF Option, More, MainInv
<1>2. i \in DOMAIN argv /\ i' \in 1 .. Len(argv) + 1 /\ ~Everything /\ ~Everything'
  <2>1. i \in DOMAIN argv /\ i' \in 1 .. Len(argv) + 1
    BY <1>1
  <2>2. ASSUME Everything PROVE FALSE
    BY <1>1, <2>2 DEF Everything
  <2>3. ASSUME Everything' PROVE FALSE
    BY <1>1, <2>3 DEF Everything
  <2> QED
    BY <2>1, <2>2, <2>3
<1>3. \A option : Seen(option)' <=> Seen(option) \/ argv[i] = option
  BY <1>1, <1>2, OneMoreSeen
<1>4. InOrder' = InOrder
  BY <1>1 DEF InOrder, After
<1>5. ASSUME InOrder PROVE FlagsAsSeen'
  <2>1. FlagsAsSeen
    BY <1>2, <1>5 DEF MainInv
  <2>2. /\ argv[i] = "gameevents" => ~Seen("nofootsteps")
        /\ argv[i] = "deathscsv" => ~Seen("nowarmup")
    BY <1>1, <1>2, <1>5 DEF InOrder, After, Seen
  <2>3. CASE argv[i] \in Options
    BY <1>1, <1>3, <2>1, <2>2, <2>3, WhatIsSwitched DEF FlagsAsSeen
  <2>4. CASE argv[i] \notin Options
    <3>1. \A option \in {"gameevents", "nofootsteps", "extrainfo", "deathscsv", "nowarmup"} :
              argv[i] # option
      BY <2>4 DEF Options, On
    <3>2. \A option \in {"gameevents", "nofootsteps", "extrainfo", "deathscsv", "nowarmup"} :
              Seen(option)' <=> Seen(option)
      BY <1>3, <3>1
    <3> QED
      BY <1>1, <2>1, <2>4, <3>2 DEF FlagsAsSeen
  <2> QED
    BY <2>3, <2>4
<1>6. {k \in 1 .. i' - 1 : ~StartsAsOption(argv[k])} = {k \in 1 .. i - 1 : ~StartsAsOption(argv[k])}
  BY <1>1, <1>2
<1>7. FileAsSeen'
  BY <1>1, <1>6 DEF FileAsSeen, MainInv, StartsAsOption
<1> QED
  BY <1>1, <1>2, <1>4, <1>5, <1>7 DEF MainInv

LEMMA FileMainInv == MainInv /\ FileArgument => MainInv'
<1> SUFFICES ASSUME MainInv, FileArgument PROVE MainInv'
  OBVIOUS
<1>1. /\ argv' = argv /\ main' = main /\ nFileArgument' = i /\ i' = i + 1 /\ flags' = flags
      /\ main = "arguments" /\ Len(argv) > 1 /\ i <= Len(argv)
      /\ argv \in Seq(STRING) /\ i \in 1 .. Len(argv) + 1
      /\ ~StartsAsOption(argv[i])
  BY DEF FileArgument, ThisArgument, More, MainInv
<1>2. i \in DOMAIN argv /\ i' \in 1 .. Len(argv) + 1 /\ ~Everything /\ ~Everything'
  <2>1. i \in DOMAIN argv /\ i' \in 1 .. Len(argv) + 1
    BY <1>1
  <2>2. ASSUME Everything PROVE FALSE
    BY <1>1, <2>2 DEF Everything
  <2>3. ASSUME Everything' PROVE FALSE
    BY <1>1, <2>3 DEF Everything
  <2> QED
    BY <2>1, <2>2, <2>3
<1>3. \A option \in {"gameevents", "nofootsteps", "extrainfo", "deathscsv", "nowarmup"} :
          argv[i] # option
  BY <1>1 DEF StartsAsOption, Options, On
<1>4. \A option \in {"gameevents", "nofootsteps", "extrainfo", "deathscsv", "nowarmup"} :
          Seen(option)' <=> Seen(option)
  BY <1>1, <1>2, <1>3, OneMoreSeen
<1>5. InOrder' = InOrder
  BY <1>1 DEF InOrder, After
<1>6. InOrder => FlagsAsSeen'
  BY <1>1, <1>2, <1>4 DEF MainInv, FlagsAsSeen
<1>7. i \in {k \in 1 .. i' - 1 : ~StartsAsOption(argv[k])}
  BY <1>1
<1>8. FileAsSeen'
  BY <1>1, <1>7 DEF FileAsSeen, StartsAsOption
<1> QED
  BY <1>1, <1>2, <1>5, <1>6, <1>8 DEF MainInv

LEMMA StepMainInv == MainInv /\ [MainStep]_mainVars => MainInv'
<1> SUFFICES ASSUME MainInv, [MainStep]_mainVars PROVE MainInv'
  OBVIOUS
<1>1. ASSUME argv' = argv, i' = i, nFileArgument' = nFileArgument
      PROVE  /\ FileAsSeen' <=> FileAsSeen
             /\ Everything' <=> Everything
             /\ InOrder' <=> InOrder
             /\ Opens(argv[nFileArgument])' <=> Opens(argv[nFileArgument])
             /\ flags' = flags => (FlagsAsSeen' <=> FlagsAsSeen)
  BY <1>1 DEF FileAsSeen, StartsAsOption, Everything, InOrder, After, Opens, FlagsAsSeen, Seen
<1>2. CASE UNCHANGED mainVars
  BY <1>1, <1>2 DEF mainVars, MainInv
<1>3. CASE Usage
  <2>1. /\ UNCHANGED <<argv, i, nFileArgument, flags>>
        /\ argv = <<>> /\ Len(argv) = 0 /\ main = "arguments" /\ main' = "exit"
    BY <1>3 DEF Usage
  <2>2. ~Everything
    BY <2>1 DEF Everything
  <2> QED
    BY <1>1, <2>1, <2>2 DEF MainInv
<1>4. CASE DumpEverything
  <2>1. /\ UNCHANGED <<argv, i, nFileArgument>> /\ flags' = Dumps
        /\ Len(argv) = 1 /\ main = "arguments" /\ main' = "open"
    BY <1>4 DEF DumpEverything
  <2>2. argv # <<>> /\ ~(Len(argv) > 1) /\ Everything
    BY <2>1 DEF Everything
  <2> QED
    BY <1>1, <2>1, <2>2 DEF MainInv
<1>5. CASE EndArguments
  <2>1. /\ UNCHANGED <<argv, i, nFileArgument, flags>>
        /\ Len(argv) > 1 /\ i > Len(argv) /\ main = "arguments" /\ main' = "open"
    BY <1>5 DEF EndArguments
  <2>2. argv # <<>>
    BY <2>1
  <2>3. ASSUME Everything PROVE FALSE
    BY <2>1, <2>3 DEF Everything
  <2> QED
    BY <1>1, <2>1, <2>2, <2>3 DEF MainInv
<1>6. CASE Open
  BY <1>1, <1>6 DEF Open, MainInv, Everything
<1> QED
  BY <1>2, <1>3, <1>4, <1>5, <1>6, OptionMainInv, FileMainInv DEF MainStep
-----------------------------------------------------------------------------
(* When the file is opened, the variables are as the options say, if these *)
(* are in their documented order.                                          *)
LEMMA AllSeen ==
    ASSUME MainInv, main \in {"open", "dump"}, ~Everything
    PROVE  \A option : Seen(option) <=> Given(option)
<1>1. argv \in Seq(STRING) /\ argv # <<>> /\ i \in 1 .. Len(argv) + 1
  BY DEF MainInv
<1>2. Len(argv) > 1
  BY <1>1, OneOrMore DEF Everything
<1>3. i = Len(argv) + 1
  BY <1>1, <1>2 DEF MainInv
<1> QED
  BY <1>1, <1>3 DEF Seen, Given

LEMMA FlagsAsGiven ==
    ASSUME MainInv, main = "dump", InOrder
    PROVE  IF Everything THEN flags = Dumps
           ELSE /\ "g_bDumpGameEvents" \in flags <=> Given("gameevents")
                /\ "g_bDumpDeaths" \in flags <=> Given("deathscsv")
                /\ "g_bShowExtraPlayerInfoInGameEvents" \in flags => Given("extrainfo")
                /\ "g_bSupressFootstepEvents" \in flags <=>
                        ~Given("gameevents") \/ Given("nofootsteps")
                /\ "g_bSupressWarmupDeaths" \in flags <=>
                        ~Given("deathscsv") \/ Given("nowarmup")
<1>1. CASE Everything
  BY <1>1 DEF MainInv
<1>2. CASE ~Everything
  <2>1. \A option : Seen(option) <=> Given(option)
    BY <1>2, AllSeen
  <2> QED
    BY <1>2, <2>1 DEF MainInv, FlagsAsSeen
<1> QED
  BY <1>1, <1>2

LEMMA TheFileIsOpened ==
    ASSUME MainInv, NEW name \in DOMAIN Files, Named(name), main \in {"exit", "dump"}
    PROVE  main = "dump" <=> Opens(name)
<1> DEFINE files == {k \in DOMAIN argv : ~StartsAsOption(argv[k])}
           seen == {k \in 1 .. i - 1 : ~StartsAsOption(argv[k])}
<1>1. argv \in Seq(STRING) /\ argv # <<>>
  BY DEF MainInv, Named
<1>2. CASE Len(argv) = 1
  <2>1. i = 1 /\ nFileArgument = 1
    BY <1>2 DEF MainInv, Everything, FileAsSeen
  <2>2. argv[1] = name
    BY <1>1, <1>2 DEF Named
  <2> QED
    BY <1>1, <2>1, <2>2 DEF MainInv
<1>3. CASE Len(argv) > 1
  <2>1. i = Len(argv) + 1
    BY <1>1, <1>3 DEF MainInv
  <2>2. seen = files
    BY <1>1, <2>1
  <2>3. IF files = {} THEN nFileArgument = 1 ELSE nFileArgument \in files
    BY <2>2 DEF MainInv, FileAsSeen
  <2>4. argv[nFileArgument] = name
    BY <2>3 DEF Named
  <2> QED
    BY <1>1, <2>4 DEF MainInv
<1> QED
  BY <1>1, <1>2, <1>3, OneOrMore

(* The file that the command line names is the one that is opened, for any *)
(* command line and any files.                                             *)
THEOREM NamedFileIsOpened ==
    MainInit /\ [][MainStep]_mainVars =>
        [](main \in {"exit", "dump"} =>
             \A name \in DOMAIN Files : Named(name) => (main = "dump" <=> Opens(name)))
<1>1. MainInv => (main \in {"exit", "dump"} =>
             \A name \in DOMAIN Files : Named(name) => (main = "dump" <=> Opens(name)))
  BY TheFileIsOpened
<1> QED
  BY <1>1, InitMainInv, StepMainInv, PTL
-----------------------------------------------------------------------------

(* The program has the server's list.                                      *)
SameList ==
    /\ m_GameEventList = events
    /\ events \in EventLists \union {<<>>}

LEMMA ListsAre ==
    ASSUME NEW list \in EventLists \union {<<>>}
    PROVE  /\ list \in Seq(Descriptors)
           /\ \A d, e \in DOMAIN list : list[d].eventid = list[e].eventid => d = e
<1>1. CASE list \in EventLists
  BY <1>1, EventListsAssumption
<1>2. CASE list = <<>>
  BY <1>2
<1> QED
  BY <1>1, <1>2

LEMMA ListIsUnderstood == SameList => Understood
<1> SUFFICES ASSUME SameList, NEW d \in DOMAIN events
             PROVE  NameOf(events[d].eventid) = events[d].name
  BY DEF Understood
<1> DEFINE found == {e \in DOMAIN m_GameEventList :
                        m_GameEventList[e].eventid = events[d].eventid}
<1>1. events \in Seq(Descriptors) /\ m_GameEventList = events
  BY ListsAre DEF SameList
<1>2. \A e \in DOMAIN events : events[e].eventid = events[d].eventid => e = d
  BY ListsAre DEF SameList
<1>3. found = {d} /\ d \in Nat /\ d # 0
  BY <1>1, <1>2
<1>4. (CHOOSE e \in found : \A f \in found : e <= f) = d
  BY <1>3
<1>5. GetGameEventDescriptor(events[d].eventid) = d
  BY <1>3, <1>4 DEF GetGameEventDescriptor
<1> QED
  BY <1>1, <1>3, <1>5 DEF NameOf

LEMMA InitSameList == EventsInit => SameList
  BY DEF EventsInit, SameList

LEMMA NextSameList == SameList /\ [EventsNext]_allVars => SameList'
<1> SUFFICES ASSUME SameList, [EventsNext]_allVars PROVE SameList'
  OBVIOUS
<1> USE DEF SameList
<1>1. CASE UNCHANGED allVars
  BY <1>1 DEF allVars, eventVars
<1>2. CASE Main
  BY <1>2 DEF Main
<1>3. CASE PlayersStep
  BY <1>3 DEF PlayersStep
<1>4. ASSUME NEW list \in EventLists, EventList(list) PROVE SameList'
  BY <1>4 DEF EventList, CopyFrom
<1>5. CASE MatchStart
  BY <1>5 DEF MatchStart, GameEvent
<1>6. CASE NewWarmup \/ FullUpdate
  BY <1>6 DEF NewWarmup, FullUpdate
<1>7. ASSUME NEW slot \in Slots, Connect(slot) \/ Disconnect(slot) PROVE SameList'
  BY <1>7 DEF Connect, Disconnect, GameEvent
<1>8. ASSUME NEW slot \in Slots, NEW name, PlayerDoes(name, slot) PROVE SameList'
  BY <1>8 DEF PlayerDoes, GameEvent
<1>9. ASSUME NEW slot \in Slots, NEW props \in Updates, UpdateEntity(slot, props) PROVE SameList'
  BY <1>9 DEF UpdateEntity
<1>10. ASSUME NEW slot \in Slots, RemoveEntity(slot) PROVE SameList'
  BY <1>10 DEF RemoveEntity
<1> QED
  BY <1>1, <1>2, <1>3, <1>4, <1>5, <1>6, <1>7, <1>8, <1>9, <1>10 DEF EventsNext
-----------------------------------------------------------------------------
(* What an event makes of the player infos is what its name says.          *)
LEMMA EventAsNamed ==
    ASSUME SameList, NEW name, NEW slot, NEW user, GameEvent(name, slot, user)
    PROVE  /\ s_PlayerInfos' = HandlePlayerConnectDisconnectEvents(name, slot, user)
           /\ s_bMatchStartOccured' =
                (s_bMatchStartOccured \/ name = "round_announce_match_start")
           /\ printed' = [name |-> name,
                          lines |-> Printed(name, user, FindPlayerByEntity(slot) = 0)]
<1>1. PICK d \in DOMAIN events :
         /\ events[d].name = name
         /\ s_PlayerInfos' =
              HandlePlayerConnectDisconnectEvents(NameOf(events[d].eventid), slot, user)
         /\ s_bMatchStartOccured' =
              (s_bMatchStartOccured \/ NameOf(events[d].eventid) = "round_announce_match_start")
         /\ printed' = [name |-> name,
                        lines |-> Printed(NameOf(events[d].eventid), user,
                                          FindPlayerByEntity(slot) = 0)]
  BY DEF GameEvent
<1>2. NameOf(events[d].eventid) = name
  BY <1>1, ListIsUnderstood DEF Understood
<1> QED
  BY <1>1, <1>2

LEMMA StepOfPlayers == SameList /\ [EventsNext]_allVars => [Next]_vars
<1> SUFFICES ASSUME SameList, [EventsNext]_allVars PROVE [Next]_vars
  OBVIOUS
<1>1. CASE UNCHANGED allVars
  BY <1>1 DEF allVars
<1>2. CASE Main
  BY <1>2 DEF Main
<1>3. CASE PlayersStep
  BY <1>3 DEF PlayersStep, JoinSlot, Next
<1>4. ASSUME NEW list, EventList(list) PROVE UNCHANGED vars
  BY <1>4 DEF EventList
<1>5. ASSUME NEW name \in {"round_announce_match_start", "player_death", "player_footstep", "player_jump"},
             NEW slot, NEW user, GameEvent(name, slot, user)
      PROVE  s_PlayerInfos' = s_PlayerInfos
  BY <1>5, EventAsNamed DEF HandlePlayerConnectDisconnectEvents
<1>6. CASE MatchStart
  BY <1>5, <1>6 DEF MatchStart, vars, server
<1>7. CASE NewWarmup \/ FullUpdate
  BY <1>7 DEF NewWarmup, FullUpdate
<1>8. ASSUME NEW slot \in Slots, Connect(slot) PROVE player_connect(slot)
  BY <1>8, EventAsNamed DEF Connect, player_connect
<1>9. ASSUME NEW slot \in Slots, Disconnect(slot) PROVE player_disconnect(slot)
  BY <1>9, EventAsNamed DEF Disconnect, player_disconnect
<1>10. ASSUME NEW slot \in Slots,
              NEW name \in {"player_death", "player_footstep", "player_jump"}, PlayerDoes(name, slot)
       PROVE  UNCHANGED vars
  BY <1>5, <1>10 DEF PlayerDoes, vars, server
<1>11. ASSUME NEW slot \in Slots, NEW props \in Updates, UpdateEntity(slot, props)
       PROVE  UNCHANGED vars
  BY <1>11 DEF UpdateEntity
<1>12. ASSUME NEW slot \in Slots, RemoveEntity(slot) PROVE UNCHANGED vars
  BY <1>12 DEF RemoveEntity
<1>13. CASE EventsNext
  BY <1>2, <1>3, <1>4, <1>6, <1>7, <1>8, <1>9, <1>10, <1>11, <1>12, <1>13 DEF EventsNext, Next
<1> QED
  BY <1>1, <1>13

LEMMA AlwaysSameList == EventsSpec => []SameList
  BY InitSameList, NextSameList, PTL DEF EventsSpec

(* An event is handled under the name it was sent by, whatever lists came. *)
THEOREM EventsAreUnderstood == EventsSpec => []Understood
  BY AlwaysSameList, ListIsUnderstood, PTL

(* With lists of events, options and entities around them, the player      *)
(* infos change as in Players.                                             *)
THEOREM EventsImplementPlayers == EventsSpec => Spec
<1>1. EventsInit => Init
  BY DEF EventsInit
<1> QED
  BY <1>1, AlwaysSameList, StepOfPlayers, PTL DEF EventsSpec, Spec
-----------------------------------------------------------------------------
(* The props that the server sent of an entity are those of the player in  *)
(* its slot, and there are no others but where an entity is stale.         *)
PropsAreHis ==
    /\ s_Entities \in [Numbers -> [PropNames -> Users \union {Nobody}]]
    /\ sent \in [Slots -> SUBSET PropNames]
    /\ stale \subseteq Slots
    /\ \A s \in Slots : \A p \in PropNames :
          /\ p \in sent[s] /\ slots[s] # Nobody => s_Entities[s + 1][p] = slots[s]
          /\ p \notin sent[s] /\ s \notin stale => s_Entities[s + 1][p] = Nobody

LEMMA NumberOfSlot ==
    ASSUME NEW s \in Slots
    PROVE  /\ s + 1 \in Numbers
           /\ \A t \in Slots : s + 1 = t + 1 => s = t
  BY MaxSlotAssumption DEF Slots, Numbers

LEMMA InitPropsAreHis == EventsInit => PropsAreHis
<1> SUFFICES ASSUME EventsInit PROVE PropsAreHis
  OBVIOUS
<1>1. /\ s_Entities = [n \in Numbers |-> NoProps]
      /\ sent = [s \in Slots |-> {}]
      /\ stale = {}
  BY DEF EventsInit
<1>2. s_Entities \in [Numbers -> [PropNames -> Users \union {Nobody}]]
  BY <1>1 DEF NoProps
<1>3. \A s \in Slots : \A p \in PropNames : s_Entities[s + 1][p] = Nobody
  BY <1>1, NumberOfSlot DEF NoProps
<1>4. sent \in [Slots -> SUBSET PropNames] /\ stale \subseteq Slots
  BY <1>1
<1>5. \A s \in Slots : sent[s] = {}
  BY <1>1
<1> QED
  BY <1>2, <1>3, <1>4, <1>5 DEF PropsAreHis

(* Where the entities are as they were, slots may empty.                   *)
LEMMA SlotsChange ==
    ASSUME PropsAreHis, UNCHANGED <<s_Entities, sent, stale>>,
           \A s \in Slots : slots'[s] = slots[s] \/ slots'[s] = Nobody
    PROVE  PropsAreHis'
<1>1. ASSUME NEW s \in Slots, NEW p \in PropNames
      PROVE  /\ p \in sent[s] /\ slots'[s] # Nobody => s_Entities[s + 1][p] = slots'[s]
             /\ p \notin sent[s] /\ s \notin stale => s_Entities[s + 1][p] = Nobody
  BY DEF PropsAreHis
<1> QED
  BY <1>1 DEF PropsAreHis

LEMMA EventKeepsProps ==
    ASSUME PropsAreHis, TypeOK, NEW name, NEW slot, NEW user, GameEvent(name, slot, user),
           \A s \in Slots : slots'[s] = slots[s] \/ slots'[s] = Nobody
    PROVE  PropsAreHis'
<1>1. UNCHANGED <<s_Entities, sent, stale>>
  BY DEF GameEvent
<1> QED
  BY <1>1, SlotsChange

LEMMA UpdateKeepsProps ==
    ASSUME PropsAreHis, TypeOK, NEW slot \in Slots, NEW props \in Updates,
           UpdateEntity(slot, props)
    PROVE  PropsAreHis'
<1> DEFINE his == [p \in PropNames |->
                      IF p \in props THEN slots[slot] ELSE s_Entities[slot + 1][p]]
<1>1. /\ slots' = slots /\ stale' = stale /\ slots[slot] # Nobody
      /\ s_Entities' = [s_Entities EXCEPT ![slot + 1] = his]
      /\ sent' = [sent EXCEPT ![slot] = sent[slot] \union props]
  BY DEF UpdateEntity, vars
<1>2. props \subseteq PropNames
  BY UpdatesAssumption
<1>3. slots[slot] \in Users \union {Nobody} /\ slot + 1 \in Numbers
  BY NumberOfSlot DEF TypeOK
<1>4. his \in [PropNames -> Users \union {Nobody}]
  BY <1>3 DEF PropsAreHis
<1>5. s_Entities' \in [Numbers -> [PropNames -> Users \union {Nobody}]]
  BY <1>1, <1>3, <1>4 DEF PropsAreHis
<1>6. sent' \in [Slots -> SUBSET PropNames]
  BY <1>1, <1>2 DEF PropsAreHis
<1>7. ASSUME NEW s \in Slots, NEW p \in PropNames
      PROVE  /\ p \in sent'[s] /\ slots'[s] # Nobody => s_Entities'[s + 1][p] = slots'[s]
             /\ p \notin sent'[s] /\ s \notin stale' => s_Entities'[s + 1][p] = Nobody
  <2>1. CASE s = slot
    <3>1. s_Entities'[s + 1] = his /\ sent'[s] = sent[s] \union props
      BY <1>1, <1>3, <2>1 DEF PropsAreHis
    <3>2. s_Entities'[s + 1][p] = IF p \in props THEN slots[slot] ELSE s_Entities[slot + 1][p]
      BY <3>1
    <3> QED
      BY <1>1, <2>1, <3>1, <3>2 DEF PropsAreHis
  <2>2. CASE s # slot
    <3>1. s + 1 \in Numbers /\ s + 1 # slot + 1
      BY <2>2, NumberOfSlot
    <3>2. s_Entities'[s + 1] = s_Entities[s + 1] /\ sent'[s] = sent[s]
      BY <1>1, <2>2, <3>1 DEF PropsAreHis
    <3> QED
      BY <1>1, <3>2 DEF PropsAreHis
  <2> QED
    BY <2>1, <2>2
<1> QED
  BY <1>1, <1>5, <1>6, <1>7 DEF PropsAreHis

LEMMA RemovalKeepsProps ==
    ASSUME PropsAreHis, NEW slot \in Slots, RemoveEntity(slot)
    PROVE  PropsAreHis'
<1>1. /\ slots' = slots
      /\ s_Entities' = [s_Entities EXCEPT ![slot + 1] = NoProps]
      /\ sent' = [sent EXCEPT ![slot] = {}]
      /\ stale' = stale \ {slot}
  BY DEF RemoveEntity, vars
<1>2. NoProps \in [PropNames -> Users \union {Nobody}]
  BY DEF NoProps
<1>3. s_Entities' \in [Numbers -> [PropNames -> Users \union {Nobody}]]
  BY <1>1, <1>2 DEF PropsAreHis
<1>4. sent' \in [Slots -> SUBSET PropNames] /\ stale' \subseteq Slots
  BY <1>1 DEF PropsAreHis
<1>5. ASSUME NEW s \in Slots, NEW p \in PropNames
      PROVE  /\ p \in sent'[s] /\ slots'[s] # Nobody => s_Entities'[s + 1][p] = slots'[s]
             /\ p \notin sent'[s] /\ s \notin stale' => s_Entities'[s + 1][p] = Nobody
  <2>1. CASE s = slot
    <3>1. s_Entities'[s + 1] = NoProps /\ sent'[s] = {}
      BY <1>1, <2>1, NumberOfSlot DEF PropsAreHis
    <3> QED
      BY <3>1 DEF NoProps
  <2>2. CASE s # slot
    <3>1. s + 1 \in Numbers /\ s + 1 # slot + 1
      BY <2>2, NumberOfSlot
    <3>2. s_Entities'[s + 1] = s_Entities[s + 1] /\ sent'[s] = sent[s]
      BY <1>1, <2>2, <3>1 DEF PropsAreHis
    <3> QED
      BY <1>1, <2>2, <3>2 DEF PropsAreHis
  <2> QED
    BY <2>1, <2>2
<1> QED
  BY <1>3, <1>4, <1>5 DEF PropsAreHis

LEMMA FullUpdateKeepsProps ==
    ASSUME PropsAreHis, FullUpdate
    PROVE  PropsAreHis'
<1> DEFINE dropped == {s \in Slots : slots[s] = Nobody /\ sent[s] # {}}
<1>1. /\ slots' = slots /\ s_Entities' = s_Entities
      /\ sent' = [s \in Slots |-> IF s \in dropped THEN {} ELSE sent[s]]
      /\ stale' = stale \union dropped
  BY DEF FullUpdate, vars
<1>2. sent' \in [Slots -> SUBSET PropNames] /\ stale' \subseteq Slots
  BY <1>1 DEF PropsAreHis
<1>3. ASSUME NEW s \in Slots, NEW p \in PropNames
      PROVE  /\ p \in sent'[s] /\ slots'[s] # Nobody => s_Entities'[s + 1][p] = slots'[s]
             /\ p \notin sent'[s] /\ s \notin stale' => s_Entities'[s + 1][p] = Nobody
  <2>1. sent'[s] = IF s \in dropped THEN {} ELSE sent[s]
    BY <1>1
  <2> QED
    BY <1>1, <2>1 DEF PropsAreHis
<1> QED
  BY <1>1, <1>2, <1>3 DEF PropsAreHis

LEMMA JoinKeepsProps ==
    ASSUME PropsAreHis, TypeOK, NEW slot \in Slots, JoinSlot(slot), UNCHANGED s_Entities
    PROVE  PropsAreHis'
<1>1. /\ sent' = [sent EXCEPT ![slot] = {}]
      /\ stale' = IF sent[slot] = {} THEN stale ELSE stale \union {slot}
  BY DEF JoinSlot
<1>2. PICK user \in Users : slots' = [slots EXCEPT ![slot] = user]
  BY DEF JoinSlot, Join
<1>3. sent' \in [Slots -> SUBSET PropNames] /\ stale' \subseteq Slots
  BY <1>1 DEF PropsAreHis
<1>4. ASSUME NEW s \in Slots, NEW p \in PropNames
      PROVE  /\ p \in sent'[s] /\ slots'[s] # Nobody => s_Entities[s + 1][p] = slots'[s]
             /\ p \notin sent'[s] /\ s \notin stale' => s_Entities[s + 1][p] = Nobody
  <2>1. CASE s = slot
    <3>1. sent'[s] = {}
      BY <1>1, <2>1 DEF PropsAreHis
    <3>2. s \notin stale' => s \notin stale /\ sent[s] = {}
      BY <1>1, <2>1
    <3> QED
      BY <3>1, <3>2 DEF PropsAreHis
  <2>2. CASE s # slot
    <3>1. sent'[s] = sent[s] /\ slots'[s] = slots[s]
      BY <1>1, <1>2, <2>2 DEF PropsAreHis, TypeOK
    <3>2. s \notin stale' => s \notin stale
      BY <1>1
    <3> QED
      BY <3>1, <3>2 DEF PropsAreHis
  <2> QED
    BY <2>1, <2>2
<1> QED
  BY <1>3, <1>4 DEF PropsAreHis

LEMMA PlayersStepKeepsProps ==
    ASSUME PropsAreHis, TypeOK, PlayersStep
    PROVE  PropsAreHis'
<1>1. UNCHANGED s_Entities
  BY DEF PlayersStep
<1>2. CASE \E slot \in Slots : JoinSlot(slot)
  BY <1>1, <1>2, JoinKeepsProps
<1>3. CASE /\ \/ \E slot \in Slots : UpdateUserInfo(slot)
              \/ ClearPlayers \/ AddRow \/ EndSnapshot
           /\ UNCHANGED <<sent, stale>>
  <2>1. slots' = slots
    BY <1>3 DEF UpdateUserInfo, ClearPlayers, AddRow, EndSnapshot, server
  <2> QED
    BY <1>1, <1>3, <2>1, SlotsChange
<1> QED
  BY <1>2, <1>3 DEF PlayersStep

LEMMA NextPropsAreHis == PropsAreHis /\ TypeOK /\ [EventsNext]_allVars => PropsAreHis'
<1> SUFFICES ASSUME PropsAreHis, TypeOK, [EventsNext]_allVars PROVE PropsAreHis'
  OBVIOUS
<1>1. CASE UNCHANGED <<slots, s_Entities, sent, stale>>
  BY <1>1, SlotsChange
<1>2. CASE UNCHANGED allVars
  BY <1>1, <1>2 DEF allVars, vars, eventVars
<1>3. CASE Main
  BY <1>1, <1>3 DEF Main, vars
<1>4. ASSUME NEW list, EventList(list) PROVE PropsAreHis'
  BY <1>1, <1>4 DEF EventList, vars
<1>5. CASE MatchStart
  BY <1>5, EventKeepsProps DEF MatchStart, server
<1>6. CASE NewWarmup
  BY <1>1, <1>6 DEF NewWarmup, vars
<1>7. ASSUME NEW slot \in Slots, Connect(slot) PROVE PropsAreHis'
  BY <1>7, EventKeepsProps DEF Connect, Announce
<1>8. ASSUME NEW slot \in Slots, Disconnect(slot) PROVE PropsAreHis'
  <2>1. slots' = [slots EXCEPT ![slot] = Nobody]
    BY <1>8 DEF Disconnect, TakeOut
  <2>2. \A s \in Slots : slots'[s] = slots[s] \/ slots'[s] = Nobody
    BY <2>1 DEF TypeOK
  <2> QED
    BY <1>8, <2>2, EventKeepsProps DEF Disconnect
<1>9. ASSUME NEW slot \in Slots, NEW name, PlayerDoes(name, slot) PROVE PropsAreHis'
  BY <1>9, EventKeepsProps DEF PlayerDoes, server
<1> QED
  BY <1>2, <1>3, <1>4, <1>5, <1>6, <1>7, <1>8, <1>9, UpdateKeepsProps, RemovalKeepsProps,
     FullUpdateKeepsProps, PlayersStepKeepsProps DEF EventsNext

LEMMA AlwaysPropsAreHis == EventsSpec => []PropsAreHis
<1>1. IInv => TypeOK
  BY DEF IInv
<1> QED
  BY <1>1, InitPropsAreHis, NextPropsAreHis, EventsImplementPlayers, Invariant, PTL DEF EventsSpec

(* What the server sent for a player is what is shown of him, whatever     *)
(* lists, snapshots and updates came and however his slot was given away;  *)
(* props that it did not send are shown only in a slot whose last player's *)
(* entity was never taken back: a full update dropped it without a         *)
(* message, or that of the next player entered over it.                    *)
THEOREM ShownWasSent == EventsSpec => []ShownIsHis
<1>1. IInv /\ PropsAreHis => ShownIsHis
  <2> SUFFICES ASSUME IInv, PropsAreHis, NEW user \in Users, FindPlayerInfo(user) # 0,
                      NEW l \in LinesOf(user), NEW p \in Lines[l],
                      NEW slot, slot = s_PlayerInfos[FindPlayerInfo(user)].entityID
               PROVE  \/ FindProp(PlayerEntity(slot), p) = user
                      \/ slot \in stale /\ p \notin sent[slot]
    BY DEF ShownIsHis
  <2> DEFINE info == s_PlayerInfos[FindPlayerInfo(user)]
  <2>1. user # -1
    BY UsersAssumption
  <2>2. FindPlayerInfo(user) \in DOMAIN s_PlayerInfos /\ info.userID = user
    BY FoundByUser
  <2>3. info \in Infos
    BY <2>2 DEF IInv, TypeOK
  <2>4. info = PlayerInfo(info.entityID, slots[info.entityID])
    BY <2>1, <2>2 DEF IInv, InfosCurrent
  <2>5. slot \in Slots /\ slots[slot] = user
    BY <2>2, <2>3, <2>4 DEF Infos, PlayerInfo
  <2>6. l \in DOMAIN Lines /\ p \in PropNames
    BY DEF LinesOf, PropNames
  <2>7. FindProp(PlayerEntity(slot), p) # Nobody
    BY DEF LinesOf
  <2>8. s_Entities[slot + 1][p] # Nobody
    BY <2>7 DEF FindProp, PlayerEntity
  <2>9. slots[slot] # Nobody
    BY <2>1, <2>5 DEF Nobody
  <2> QED
    BY <2>5, <2>6, <2>8, <2>9 DEF PropsAreHis, FindProp, PlayerEntity
<1> QED
  BY <1>1, AlwaysPropsAreHis, EventsImplementPlayers, Invariant, PTL

(* A player who was announced or is listed is found, and one who left is   *)
(* not, with all that goes on around.                                      *)
THEOREM PlayersAreFoundInEvents == EventsSpec => [](RightSlot /\ GoneUnknown)
  BY EventsImplementPlayers, PlayersAreFound, LeaversAreNotFound, PTL
-----------------------------------------------------------------------------
LEMMA StepOfOptions == [EventsNext]_allVars => [MainStep]_mainVars
  BY DEF allVars, EventsNext, Main, PlayersStep, EventList, MatchStart, GameEvent, NewWarmup,
         FullUpdate, Connect, Disconnect, PlayerDoes, UpdateEntity, RemoveEntity, AtMessage

LEMMA AlwaysMainInv == EventsSpec => []MainInv
<1>1. EventsInit => MainInit
  BY DEF EventsInit
<1> QED
  BY <1>1, InitMainInv, StepMainInv, StepOfOptions, PTL DEF EventsSpec

(* The file is opened as the usage says, with a dump behind it.            *)
THEOREM FileIsOpened == EventsSpec => []OpensTheFile
<1>1. MainInv => OpensTheFile
  BY TheFileIsOpened DEF OpensTheFile
<1> QED
  BY <1>1, AlwaysMainInv, PTL

(* Nothing is printed before the dump, and the program knows that a match  *)
(* has started unless the recording began with something else.             *)
MatchKnown ==
    /\ main # "dump" => phase # "live" /\ printed = Nothing
    /\ s_bMatchStartOccured \in BOOLEAN
    /\ phase \in {"warmup", "live", "other"}
    /\ phase # "other" => (s_bMatchStartOccured <=> phase = "live")

PrintedAsAsked == MatchKnown /\ DeathsAsAsked /\ EventsAsAsked

Names == {"player_connect", "player_disconnect", "round_announce_match_start", "player_death",
          "player_footstep", "player_jump"}

LEMMA DeathPrinted ==
    ASSUME NEW user, NEW isNew
    PROVE  <<"death", "line">> \in Printed("player_death", user, isNew) <=>
                "g_bDumpDeaths" \in flags /\ AllowDeathReport
  BY DEF Printed, Skipped, PlayerEvents, If, Prefixed

LEMMA EventPrinted ==
    ASSUME NEW name \in Names, NEW user, NEW isNew
    PROVE  /\ <<"event", name>> \in Printed(name, user, isNew) =>
                    "g_bDumpGameEvents" \in flags /\ ~Skipped(name)
           /\ "g_bDumpGameEvents" \in flags /\ ~Skipped(name) /\ name \notin PlayerEvents =>
                    <<"event", name>> \in Printed(name, user, isNew)
<1>1. name # "none"
  BY DEF Names
<1>2. CASE Skipped(name)
  BY <1>1, <1>2 DEF Printed
<1>3. CASE ~Skipped(name)
  BY <1>1, <1>3 DEF Printed, If, Prefixed
<1> QED
  BY <1>2, <1>3

LEMMA ExtraPrinted ==
    ASSUME NEW name \in Names, NEW user, NEW isNew, NEW l \in DOMAIN Lines,
           <<"event", l>> \in Printed(name, user, isNew)
    PROVE  "g_bShowExtraPlayerInfoInGameEvents" \in flags
<1>1. l \in {"position", "facing", "team"}
  BY DEF Lines
<1>2. l # name /\ l # "player" /\ name # "none"
  BY <1>1 DEF Names
<1>3. ~Skipped(name) /\ name \notin PlayerEvents
  BY <1>2 DEF Printed, If
<1>4. l \in ShowPlayerInfo(user, "g_bShowExtraPlayerInfoInGameEvents" \in flags)
  BY <1>2, <1>3 DEF Printed, If, Prefixed
<1> QED
  BY <1>2, <1>4 DEF ShowPlayerInfo

LEMMA NothingIsAsAsked == printed = Nothing => DeathsAsAsked /\ EventsAsAsked
  BY DEF Nothing, DeathsAsAsked, EventsAsAsked

LEMMA OfArguments ==
    ASSUME argv' = argv
    PROVE  /\ InOrder' <=> InOrder
           /\ Everything' <=> Everything
           /\ \A option : Given(option)' <=> Given(option)
  BY DEF InOrder, After, Everything, Given

LEMMA EventIsAsAsked ==
    ASSUME MainInv, PrintedAsAsked, SameList,
           NEW name \in Names, NEW slot, NEW user, GameEvent(name, slot, user),
           name # "round_announce_match_start" => phase' = phase
    PROVE  DeathsAsAsked' /\ EventsAsAsked'
<1> DEFINE isNew == FindPlayerByEntity(slot) = 0
           lines == Printed(name, user, isNew)
<1>1. /\ main = "dump" /\ UNCHANGED mainVars
      /\ printed' = [name |-> name, lines |-> lines]
  BY EventAsNamed DEF GameEvent, AtMessage
<1>2. argv' = argv /\ printed'.name = name /\ printed'.lines = lines
  BY <1>1 DEF mainVars
<1>3. DeathsAsAsked'
  <2>1. CASE name = "player_death" /\ InOrder
    <3>1. <<"death", "line">> \in lines <=> "g_bDumpDeaths" \in flags /\ AllowDeathReport
      BY <2>1, DeathPrinted
    <3>2. phase' = phase /\ (phase # "other" => (s_bMatchStartOccured <=> phase = "live"))
      BY <2>1 DEF PrintedAsAsked, MatchKnown
    <3>3. CASE Everything
      <4>1. "g_bDumpDeaths" \in flags /\ AllowDeathReport
        BY <1>1, <2>1, <3>3, FlagsAsGiven DEF AllowDeathReport, Dumps
      <4> QED
        BY <1>2, <3>1, <3>3, <4>1, OfArguments DEF DeathsAsAsked
    <3>4. CASE ~Everything
      <4>1. /\ "g_bDumpDeaths" \in flags <=> Given("deathscsv")
            /\ "g_bSupressWarmupDeaths" \in flags <=> ~Given("deathscsv") \/ Given("nowarmup")
        BY <1>1, <2>1, <3>4, FlagsAsGiven
      <4> QED
        BY <1>2, <3>1, <3>2, <3>4, <4>1, OfArguments DEF DeathsAsAsked, AllowDeathReport
    <3> QED
      BY <3>3, <3>4
  <2>2. CASE name # "player_death" \/ ~InOrder
    BY <1>2, <2>2, OfArguments DEF DeathsAsAsked
  <2> QED
    BY <2>1, <2>2
<1>4. EventsAsAsked'
  <2>1. CASE InOrder
    <3>1. /\ <<"event", name>> \in lines => "g_bDumpGameEvents" \in flags /\ ~Skipped(name)
          /\ "g_bDumpGameEvents" \in flags /\ ~Skipped(name) /\ name \notin PlayerEvents =>
                <<"event", name>> \in lines
      BY EventPrinted
    <3>2. (\E l \in DOMAIN Lines : <<"event", l>> \in lines) =>
                "g_bShowExtraPlayerInfoInGameEvents" \in flags
      BY ExtraPrinted
    <3>3. CASE Everything
      <4>1. "g_bDumpGameEvents" \in flags /\ ~Skipped(name)
        BY <1>1, <2>1, <3>3, FlagsAsGiven DEF Skipped, Dumps
      <4> QED
        BY <1>2, <3>1, <3>3, <4>1, OfArguments DEF EventsAsAsked
    <3>4. CASE ~Everything
      <4>1. /\ "g_bDumpGameEvents" \in flags <=> Given("gameevents")
            /\ "g_bShowExtraPlayerInfoInGameEvents" \in flags => Given("extrainfo")
            /\ "g_bSupressFootstepEvents" \in flags <=> ~Given("gameevents") \/ Given("nofootsteps")
        BY <1>1, <2>1, <3>4, FlagsAsGiven
      <4> QED
        BY <1>2, <3>1, <3>2, <3>4, <4>1, OfArguments DEF EventsAsAsked, Skipped
    <3> QED
      BY <3>3, <3>4
  <2>2. CASE ~InOrder
    BY <1>2, <2>2, OfArguments DEF EventsAsAsked
  <2> QED
    BY <2>1, <2>2
<1> QED
  BY <1>3, <1>4

LEMMA InitPrinted == EventsInit => PrintedAsAsked
<1> SUFFICES ASSUME EventsInit PROVE PrintedAsAsked
  OBVIOUS
<1>1. MatchKnown /\ printed = Nothing
  BY DEF EventsInit, MatchKnown
<1> QED
  BY <1>1, NothingIsAsAsked DEF PrintedAsAsked

LEMMA NextPrinted == MainInv /\ SameList /\ PrintedAsAsked /\ [EventsNext]_allVars => PrintedAsAsked'
<1> SUFFICES ASSUME MainInv, SameList, PrintedAsAsked, [EventsNext]_allVars
             PROVE  PrintedAsAsked'
  OBVIOUS
<1>1. CASE UNCHANGED allVars
  <2>1. UNCHANGED <<argv, main, printed, phase, s_bMatchStartOccured>>
    BY <1>1 DEF allVars, mainVars, eventVars
  <2>2. MatchKnown'
    BY <2>1 DEF PrintedAsAsked, MatchKnown
  <2> QED
    BY <2>1, <2>2, OfArguments DEF PrintedAsAsked, DeathsAsAsked, EventsAsAsked
<1>2. CASE Main
  <2>1. main # "dump" /\ UNCHANGED <<printed, phase>> /\ s_bMatchStartOccured' = FALSE
    BY <1>2 DEF Main, MainStep, Usage, DumpEverything, Option, FileArgument, More, EndArguments, Open
  <2>2. printed' = Nothing /\ MatchKnown'
    BY <2>1 DEF PrintedAsAsked, MatchKnown
  <2>3. DeathsAsAsked' /\ EventsAsAsked'
    BY <2>2 DEF Nothing, DeathsAsAsked, EventsAsAsked
  <2> QED
    BY <2>2, <2>3 DEF PrintedAsAsked
<1>3. ASSUME printed' = Nothing, main = "dump", main' = main,
             s_bMatchStartOccured' = s_bMatchStartOccured, phase' \in {phase, "other"}
      PROVE  PrintedAsAsked'
  <2>1. MatchKnown'
    BY <1>3 DEF PrintedAsAsked, MatchKnown
  <2>2. DeathsAsAsked' /\ EventsAsAsked'
    BY <1>3 DEF Nothing, DeathsAsAsked, EventsAsAsked
  <2> QED
    BY <2>1, <2>2 DEF PrintedAsAsked
<1>4. CASE PlayersStep
  BY <1>3, <1>4 DEF PlayersStep, mainVars
<1>5. ASSUME NEW list, EventList(list) PROVE PrintedAsAsked'
  BY <1>3, <1>5 DEF EventList, AtMessage, mainVars
<1>6. CASE NewWarmup \/ FullUpdate
  BY <1>3, <1>6 DEF NewWarmup, FullUpdate, AtMessage, mainVars
<1>7. ASSUME NEW slot, NEW props, UpdateEntity(slot, props) PROVE PrintedAsAsked'
  BY <1>3, <1>7 DEF UpdateEntity, AtMessage, mainVars
<1>8. ASSUME NEW slot, RemoveEntity(slot) PROVE PrintedAsAsked'
  BY <1>3, <1>8 DEF RemoveEntity, AtMessage, mainVars
<1>9. CASE MatchStart
  <2>1. /\ main = "dump" /\ main' = main
        /\ s_bMatchStartOccured' = TRUE
    BY <1>9, EventAsNamed DEF MatchStart, GameEvent, AtMessage, mainVars
  <2>2. phase' = IF phase = "warmup" THEN "live" ELSE "other"
    BY <1>9 DEF MatchStart
  <2>3. MatchKnown'
    BY <2>1, <2>2 DEF MatchKnown
  <2>4. DeathsAsAsked' /\ EventsAsAsked'
    BY <1>9, EventIsAsAsked DEF MatchStart, Names
  <2> QED
    BY <2>3, <2>4 DEF PrintedAsAsked
<1>10. ASSUME NEW name \in Names \ {"round_announce_match_start"}, NEW slot, NEW user,
              GameEvent(name, slot, user), phase' = phase
       PROVE  PrintedAsAsked'
  <2>1. /\ main = "dump" /\ main' = main
        /\ s_bMatchStartOccured' = (s_bMatchStartOccured \/ FALSE)
    BY <1>10, EventAsNamed DEF GameEvent, AtMessage, mainVars
  <2>2. s_bMatchStartOccured' = s_bMatchStartOccured
    BY <2>1 DEF PrintedAsAsked, MatchKnown
  <2>3. MatchKnown'
    BY <1>10, <2>1, <2>2 DEF PrintedAsAsked, MatchKnown
  <2>4. DeathsAsAsked' /\ EventsAsAsked'
    BY <1>10, EventIsAsAsked
  <2> QED
    BY <2>3, <2>4 DEF PrintedAsAsked
<1>11. ASSUME NEW slot, Connect(slot) PROVE PrintedAsAsked'
  BY <1>10, <1>11 DEF Connect, Names
<1>12. ASSUME NEW slot, Disconnect(slot) PROVE PrintedAsAsked'
  BY <1>10, <1>12 DEF Disconnect, Names
<1>13. ASSUME NEW slot, NEW name \in {"player_death", "player_footstep", "player_jump"},
              PlayerDoes(name, slot)
       PROVE  PrintedAsAsked'
  BY <1>10, <1>13 DEF PlayerDoes, Names
<1> QED
  BY <1>1, <1>2, <1>4, <1>5, <1>6, <1>7, <1>8, <1>9, <1>11, <1>12, <1>13 DEF EventsNext

LEMMA AlwaysPrinted == EventsSpec => []PrintedAsAsked
  BY InitPrinted, NextPrinted, AlwaysMainInv, AlwaysSameList, PTL DEF EventsSpec

(* Deaths are printed as the options say, if these are in their documented *)
(* order.                                                                  *)
THEOREM DeathsArePrinted == EventsSpec => []DeathsAsAsked
<1>1. PrintedAsAsked => DeathsAsAsked
  BY DEF PrintedAsAsked
<1> QED
  BY <1>1, AlwaysPrinted, PTL

(* So are events, and the entities of their players.                       *)
THEOREM EventsArePrinted == EventsSpec => []EventsAsAsked
<1>1. PrintedAsAsked => EventsAsAsked
  BY DEF PrintedAsAsked
<1> QED
  BY <1>1, AlwaysPrinted, PTL
-----------------------------------------------------------------------------
FlagsTyped == flags \subseteq Dumps \union Suppressions

LEMMA MainFlagsTyped ==
    ASSUME FlagsTyped, [MainStep]_mainVars
    PROVE  FlagsTyped'
<1> USE DEF FlagsTyped
<1>1. CASE Option
  <2>1. \A option \in Options : On[option] \in Dumps \union Suppressions
    BY DEF Options, On, Dumps, Suppressions
  <2>2. \A option \in Options : Switched(option) \subseteq Dumps \union Suppressions
    BY <2>1 DEF Switched
  <2> QED
    BY <1>1, <2>2 DEF Option
<1>2. CASE DumpEverything
  BY <1>2 DEF DumpEverything
<1> QED
  BY <1>1, <1>2 DEF MainStep, Usage, FileArgument, EndArguments, Open, mainVars

EventsTyped ==
    /\ FlagsTyped
    /\ s_bMatchStartOccured \in BOOLEAN
    /\ s_Entities \in [Numbers -> [PropNames -> Users \union {Nobody}]]
    /\ phase \in {"warmup", "live", "other"}
    /\ sent \in [Slots -> SUBSET PropNames]
    /\ stale \subseteq Slots

LEMMA InitEventsTyped == EventsInit => EventsTyped
<1> SUFFICES ASSUME EventsInit PROVE EventsTyped
  OBVIOUS
<1>1. FlagsTyped
  BY DEF EventsInit, MainInit, FlagsTyped
<1>2. s_Entities \in [Numbers -> [PropNames -> Users \union {Nobody}]]
  BY DEF EventsInit, NoProps
<1>3. s_bMatchStartOccured \in BOOLEAN /\ phase \in {"warmup", "live", "other"}
  BY DEF EventsInit
<1>4. sent \in [Slots -> SUBSET PropNames] /\ stale \subseteq Slots
  BY DEF EventsInit
<1> QED
  BY <1>1, <1>2, <1>3, <1>4 DEF EventsTyped

LEMMA EventKeepsTypes ==
    ASSUME EventsTyped, NEW name, NEW slot, NEW user, GameEvent(name, slot, user),
           phase' \in {"warmup", "live", "other"}
    PROVE  EventsTyped'
<1>1. /\ UNCHANGED mainVars /\ UNCHANGED <<s_Entities, sent, stale>>
      /\ s_bMatchStartOccured' \in BOOLEAN
  BY DEF GameEvent, AtMessage, EventsTyped
<1> QED
  BY <1>1 DEF EventsTyped, FlagsTyped, mainVars

LEMMA NextEventsTyped ==
    EventsTyped /\ TypeOK /\ [EventsNext]_allVars => EventsTyped'
<1> SUFFICES ASSUME EventsTyped, TypeOK, [EventsNext]_allVars PROVE EventsTyped'
  OBVIOUS
<1>1. FlagsTyped'
  BY StepOfOptions, MainFlagsTyped DEF EventsTyped
<1>2. CASE UNCHANGED allVars
  BY <1>1, <1>2 DEF allVars, eventVars, EventsTyped
<1>3. CASE Main
  BY <1>1, <1>3 DEF Main, EventsTyped
<1>4. CASE PlayersStep
  <2>1. UNCHANGED <<s_Entities, phase, s_bMatchStartOccured>>
    BY <1>4 DEF PlayersStep
  <2>2. sent' \in [Slots -> SUBSET PropNames] /\ stale' \subseteq Slots
    BY <1>4 DEF PlayersStep, JoinSlot, EventsTyped
  <2> QED
    BY <1>1, <2>1, <2>2 DEF EventsTyped
<1>5. ASSUME NEW list \in EventLists, EventList(list) PROVE EventsTyped'
  BY <1>1, <1>5 DEF EventList, EventsTyped
<1>6. CASE MatchStart
  BY <1>6, EventKeepsTypes DEF MatchStart
<1>7. CASE NewWarmup
  BY <1>1, <1>7 DEF NewWarmup, EventsTyped
<1>8. CASE FullUpdate
  BY <1>1, <1>8 DEF FullUpdate, EventsTyped
<1>9. ASSUME NEW slot \in Slots,
             \/ Connect(slot) \/ Disconnect(slot) \/ \E name \in Names : PlayerDoes(name, slot)
      PROVE  EventsTyped'
  <2>1. phase' = phase /\ \E name, s, user : GameEvent(name, s, user)
    BY <1>9 DEF Connect, Disconnect, PlayerDoes
  <2> QED
    BY <2>1, EventKeepsTypes DEF EventsTyped
<1>10. ASSUME NEW slot \in Slots, NEW props \in Updates, UpdateEntity(slot, props)
       PROVE  EventsTyped'
  <2>1. slots[slot] \in Users \union {Nobody} /\ props \subseteq PropNames
    BY UpdatesAssumption DEF TypeOK
  <2>2. s_Entities' \in [Numbers -> [PropNames -> Users \union {Nobody}]]
    BY <1>10, <2>1, NumberOfSlot DEF UpdateEntity, EventsTyped
  <2>3. sent' \in [Slots -> SUBSET PropNames]
    BY <1>10, <2>1 DEF UpdateEntity, EventsTyped
  <2> QED
    BY <1>1, <1>10, <2>2, <2>3 DEF UpdateEntity, EventsTyped
<1>11. ASSUME NEW slot \in Slots, RemoveEntity(slot) PROVE EventsTyped'
  <2>1. s_Entities' \in [Numbers -> [PropNames -> Users \union {Nobody}]]
    BY <1>11 DEF RemoveEntity, EventsTyped, NoProps
  <2>2. sent' \in [Slots -> SUBSET PropNames] /\ stale' \subseteq Slots
    BY <1>11 DEF RemoveEntity, EventsTyped
  <2> QED
    BY <1>1, <1>11, <2>1, <2>2 DEF RemoveEntity, EventsTyped
<1>12. {"player_death", "player_footstep", "player_jump"} \subseteq Names
  BY DEF Names
<1> QED
  BY <1>2, <1>3, <1>4, <1>5, <1>6, <1>7, <1>8, <1>9, <1>10, <1>11, <1>12 DEF EventsNext

(* The variables of the program and of the server have their types, for    *)
(* any command line, lists, slots and users.                               *)
THEOREM EventsTypeCorrect == EventsSpec => []EventsTypeOK
<1>1. MainInv /\ SameList /\ TypeOK /\ EventsTyped => EventsTypeOK
  <2> SUFFICES ASSUME MainInv, SameList, TypeOK, EventsTyped PROVE EventsTypeOK
    OBVIOUS
  <2>1. nFileArgument <= Len(argv) \/ argv = <<>>
    <3>1. argv \in Seq(STRING) /\ i \in 1 .. Len(argv) + 1 /\ FileAsSeen
      BY DEF MainInv
    <3>2. CASE nFileArgument = 1
      BY <3>1, <3>2, OneOrMore
    <3>3. CASE nFileArgument \in 1 .. i - 1
      BY <3>1, <3>3
    <3> QED
      BY <3>1, <3>2, <3>3 DEF FileAsSeen
  <2> QED
    BY <2>1 DEF EventsTypeOK, MainInv, SameList, EventsTyped, FlagsTyped
<1>2. IInv => TypeOK
  BY DEF IInv
<1> QED
  BY <1>1, <1>2, InitEventsTyped, NextEventsTyped, AlwaysMainInv, AlwaysSameList,
     EventsImplementPlayers, Invariant, PTL DEF EventsSpec

(***************************************************************************)
(* The snapshot of the string tables.                                      *)
(***************************************************************************)

(* The data have that code behind the first p bits.                        *)
(* Numbers of up to sixteen bits.                                          *)
(* What the bits from the k-th on are worth, for every k.                  *)
(* A number is read as it was written.                                     *)
(* A sequence of bytes is read byte by byte.                               *)
LEMMA BytesCodeIs ==
    ASSUME NEW s \in Seq(Bytes)
    PROVE  /\ BytesCode(s) \in Seq(BitValues)
           /\ Len(BytesCode(s)) = 8 * Len(s)
           /\ \A d \in Seq(BitValues) : \A p \in Nat : Has(d, p, BytesCode(s)) =>
                \A k \in 1 .. Len(s) : UNat(d, p + 8 * (k - 1), 8) = s[k]
<1> DEFINE F == [k \in DOMAIN s |-> ToBits(s[k], 8)]
           N == Len(s)
<1>1. N \in Nat /\ DOMAIN s = 1 .. N /\ \A k \in 1 .. N : s[k] \in Nat /\ s[k] < 2^8
  <2>1. \A k \in 1 .. N : s[k] \in Bytes
    BY SeqMember
  <2>2. 2^8 = 256 /\ \A b \in Bytes : b \in Nat /\ b < 256
    BY DEF Bytes
  <2> QED
    BY <2>1, <2>2
<1>2. \A k \in 1 .. N : F[k] = ToBits(s[k], 8) /\ F[k] \in Seq(BitValues) /\ Len(F[k]) = 8
  <2> SUFFICES ASSUME NEW k \in 1 .. N
               PROVE  F[k] = ToBits(s[k], 8) /\ F[k] \in Seq(BitValues) /\ Len(F[k]) = 8
    OBVIOUS
  <2>1. F[k] = ToBits(s[k], 8) /\ s[k] \in Nat /\ 8 \in Nat /\ 8 <= 30
    BY <1>1
  <2> HIDE DEF F
  <2> QED
    BY <2>1, ToBitsIs
<1>3. F = [k \in 1 .. N |-> F[k]]
  BY <1>1
<1> HIDE DEF F, N
<1>4. Parts(F, N, BitValues)
  BY <1>1, <1>2 DEF Parts
<1>5. BytesCode(s) = Flat(F, N)
  <2>1. BytesCode(s) = FlattenSeq(F)
    BY DEF BytesCode, F
  <2> QED
    BY <1>3, <2>1, FlatWhole
<1>6. Flat(F, N) \in Seq(BitValues) /\ \A n \in 0 .. N : Flat(F, n) \in Seq(BitValues)
  BY <1>1, <1>4, FlatTyped
<1>7. \A n \in 0 .. N : Len(Flat(F, n)) = 8 * n
  <2> DEFINE S == {n \in Nat : n <= N => Len(Flat(F, n)) = 8 * n}
  <2>0. \A n \in 0 .. N : \A m \in 1 .. N :
            m = n + 1 => Len(Flat(F, m)) = Len(Flat(F, n)) + Len(F[m])
    BY <1>4, FlatNext
  <2>1. 0 \in S
    BY FlatNothing
  <2>2. ASSUME NEW n \in Nat, n \in S PROVE n + 1 \in S
    <3> SUFFICES ASSUME NEW m \in 1 .. N, m = n + 1 PROVE Len(Flat(F, m)) = 8 * m
      BY <1>1, <2>2
    <3>1. n \in 0 .. N /\ Len(Flat(F, n)) = 8 * n
      BY <1>1, <2>2
    <3>2. Len(Flat(F, m)) = Len(Flat(F, n)) + Len(F[m])
      BY <2>0, <3>1
    <3>3. Len(F[m]) = 8
      BY <1>2
    <3> QED
      BY <3>1, <3>2, <3>3
  <2>3. \A n \in Nat : n \in S
    <3> HIDE DEF S
    <3> QED
      BY <2>1, <2>2, NatSet
  <2> QED
    BY <1>1, <2>3
<1>8. ASSUME NEW d \in Seq(BitValues), NEW p \in Nat, Has(d, p, BytesCode(s)), NEW k \in 1 .. N
      PROVE  UNat(d, p + 8 * (k - 1), 8) = s[k]
  <2>1. PICK n \in 0 .. N : k = n + 1
    BY <1>1
  <2>2. Has(d, p + Len(Flat(F, n)), F[k])
    BY <1>4, <1>5, <1>8, <2>1, HasPart
  <2>3. Len(Flat(F, n)) = 8 * (k - 1) /\ p + 8 * (k - 1) \in Nat
    BY <1>1, <1>7, <2>1
  <2>4. Has(d, p + 8 * (k - 1), ToBits(s[k], 8))
    BY <1>2, <2>2, <2>3
  <2>5. 8 \in 0 .. 16
    OBVIOUS
  <2> DEFINE q == p + 8 * (k - 1)
  <2> HIDE DEF q
  <2>6. UNat(d, q, 8) = s[k]
    BY <1>1, <2>3, <2>4, <2>5, NumberRead DEF q
  <2> QED
    BY <2>6 DEF q
<1>9. N \in 0 .. N
  BY <1>1
<1> QED
  BY <1>5, <1>6, <1>7, <1>8, <1>9 DEF N

-----------------------------------------------------------------------------
(* The first zero behind p is the end of the string there.                 *)
IsEnd(f) == f = [p \in Nat |-> IF ByteAt[p] = 0 THEN p ELSE f[p + 8]]
IsLength(p, n) == ByteAt[p + 8 * n] = 0 /\ \A z \in Nat : z < n => ByteAt[p + 8 * z] # 0

LEMMA BytesAre == \A p \in Nat : ByteAt[p] = UNat(data, p, 8)
  BY DEF ByteAt

LEMMA LengthExists ==
    ASSUME data \in Seq(BitValues), NEW p \in Nat
    PROVE  \E n \in Nat : IsLength(p, n)
<1> DEFINE L == Len(data)
           bad == {z \in Nat : z > 0 /\ ByteAt[p + 8 * (z - 1)] = 0}
<1>1. L \in Nat
  OBVIOUS
<1>2. PICK n \in 0 .. L : (\A z \in 1 .. n : z \notin bad) /\ (n = L \/ n + 1 \in bad)
  <2> HIDE DEF bad, L
  <2>1. \A set : \E n \in 0 .. L : (\A z \in 1 .. n : z \notin set) /\ (n = L \/ n + 1 \in set)
    BY <1>1, FirstIn
  <2> QED
    BY <2>1
<1>3. n \in Nat
  BY <1>1
<1>4. ByteAt[p + 8 * n] = 0
  <2>1. CASE n = L
    <3>1. p + 8 * n \in Nat /\ p + 8 * n >= Len(data)
      BY <1>1, <2>1
    <3> DEFINE q == p + 8 * n
    <3> HIDE DEF q
    <3>2. ByteAt[q] = UNat(data, q, 8) /\ UNat(data, q, 8) = 0
      BY <3>1, BytesAre, ZerosBehind DEF q
    <3> QED
      BY <3>2 DEF q
  <2>2. CASE n + 1 \in bad
    <3>1. ByteAt[p + 8 * ((n + 1) - 1)] = 0
      BY <2>2
    <3>2. (n + 1) - 1 = n
      BY <1>3
    <3> QED
      BY <3>1, <3>2
  <2> QED
    BY <1>2, <2>1, <2>2
<1>5. ASSUME NEW z \in Nat, z < n PROVE ByteAt[p + 8 * z] # 0
  <2>1. z + 1 \in 1 .. n /\ z + 1 \in Nat /\ z + 1 > 0 /\ (z + 1) - 1 = z
    BY <1>3, <1>5
  <2>2. z + 1 \notin bad
    BY <1>2, <2>1
  <2>3. ~(ByteAt[p + 8 * ((z + 1) - 1)] = 0)
    BY <2>1, <2>2
  <2> QED
    BY <2>1, <2>3
<1> QED
  BY <1>3, <1>4, <1>5 DEF IsLength

LEMMA OneLength ==
    ASSUME NEW p \in Nat, NEW n \in Nat, NEW m \in Nat, IsLength(p, n), IsLength(p, m)
    PROVE  n = m
<1>1. ~(n < m) /\ ~(m < n)
  BY DEF IsLength
<1> QED
  BY <1>1

LEMMA EndExists ==
    ASSUME data \in Seq(BitValues)
    PROVE  \E f : IsEnd(f)
<1> DEFINE e(p) == CHOOSE n \in Nat : IsLength(p, n)
           f == [p \in Nat |-> p + 8 * e(p)]
<1>1. \A p \in Nat : e(p) \in Nat /\ IsLength(p, e(p))
  BY LengthExists
<1>2. ASSUME NEW p \in Nat, NEW n \in Nat, IsLength(p, n) PROVE f[p] = p + 8 * n
  <2>1. e(p) \in Nat /\ IsLength(p, e(p))
    BY <1>1
  <2> HIDE DEF e
  <2>2. e(p) = n
    BY <1>2, <2>1, OneLength
  <2> QED
    BY <2>2
<1>3. ASSUME NEW p \in Nat PROVE f[p] = IF ByteAt[p] = 0 THEN p ELSE f[p + 8]
  <2>1. PICK n \in Nat : IsLength(p, n)
    BY LengthExists
  <2>2. f[p] = p + 8 * n
    BY <1>2, <2>1
  <2>3. CASE n = 0
    <3>1. p + 8 * n = p
      BY <2>3
    <3>2. ByteAt[p] = 0
      BY <2>1, <3>1 DEF IsLength
    <3> HIDE DEF f
    <3> QED
      BY <2>2, <3>1, <3>2
  <2>4. CASE n # 0
    <3>1. PICK m \in Nat : n = m + 1
      <4>1. n - 1 \in Nat /\ n = (n - 1) + 1
        BY <2>4
      <4> QED
        BY <4>1
    <3>2. ByteAt[p] # 0
      <4>1. 0 \in Nat /\ 0 < n /\ p + 8 * 0 = p
        BY <2>4
      <4> QED
        BY <2>1, <4>1 DEF IsLength
    <3>3. PICK q \in Nat : q = p + 8
      OBVIOUS
    <3>4. IsLength(q, m)
      <4>1. q + 8 * m = p + 8 * n
        BY <3>1, <3>3
      <4>2. ASSUME NEW z \in Nat, z < m PROVE ByteAt[q + 8 * z] # 0
        <5>1. z + 1 \in Nat /\ z + 1 < n /\ q + 8 * z = p + 8 * (z + 1)
          BY <3>1, <3>3, <4>2
        <5> QED
          BY <2>1, <5>1 DEF IsLength
      <4>3. ByteAt[q + 8 * m] = 0
        BY <2>1, <4>1 DEF IsLength
      <4> QED
        BY <4>2, <4>3 DEF IsLength
    <3>5. f[q] = q + 8 * m
      BY <1>2, <3>4
    <3> HIDE DEF f
    <3>6. f[p] = f[q]
      BY <2>2, <3>1, <3>3, <3>5
    <3> QED
      BY <3>2, <3>3, <3>6
  <2> QED
    BY <2>3, <2>4
<1>4. f = [p \in Nat |-> IF ByteAt[p] = 0 THEN p ELSE f[p + 8]]
  <2>1. f = [p \in Nat |-> f[p]]
    OBVIOUS
  <2> HIDE DEF f
  <2> QED
    BY <1>3, <2>1
<1> HIDE DEF f
<1> QED
  BY <1>4 DEF IsEnd

LEMMA EndOfString ==
    ASSUME data \in Seq(BitValues), NEW p \in Nat, NEW n \in Nat, IsLength(p, n)
    PROVE  StringEnd[p] = p + 8 * n
<1>1. IsEnd(StringEnd)
  <2>1. StringEnd = CHOOSE f : IsEnd(f)
    BY DEF StringEnd, IsEnd
  <2> QED
    BY <2>1, EndExists
<1>2. \A q \in Nat : StringEnd[q] = IF ByteAt[q] = 0 THEN q ELSE StringEnd[q + 8]
  BY <1>1, Zenon DEF IsEnd
<1> DEFINE S == {k \in Nat : \A m \in Nat : m + k = n => StringEnd[p + 8 * m] = p + 8 * n}
<1>3. 0 \in S
  <2> SUFFICES ASSUME NEW m \in Nat, m + 0 = n PROVE StringEnd[p + 8 * m] = p + 8 * n
    OBVIOUS
  <2>1. m = n /\ p + 8 * n \in Nat
    OBVIOUS
  <2>2. ByteAt[p + 8 * n] = 0
    BY DEF IsLength
  <2> QED
    BY <1>2, <2>1, <2>2
<1>4. ASSUME NEW k \in Nat, k \in S PROVE k + 1 \in S
  <2> SUFFICES ASSUME NEW m \in Nat, m + (k + 1) = n PROVE StringEnd[p + 8 * m] = p + 8 * n
    OBVIOUS
  <2>1. m + 1 \in Nat /\ (m + 1) + k = n /\ m < n /\ p + 8 * m \in Nat
        /\ p + 8 * m + 8 = p + 8 * (m + 1)
    OBVIOUS
  <2>2. StringEnd[p + 8 * (m + 1)] = p + 8 * n
    BY <1>4, <2>1
  <2>3. ByteAt[p + 8 * m] # 0
    BY <2>1 DEF IsLength
  <2>4. StringEnd[p + 8 * m] = StringEnd[p + 8 * m + 8]
    BY <1>2, <2>1, <2>3
  <2> QED
    BY <2>1, <2>2, <2>4
<1>5. \A k \in Nat : k \in S
  <2> HIDE DEF S
  <2> QED
    BY <1>3, <1>4, NatSet
<1>6. n \in S /\ 0 \in Nat /\ 0 + n = n /\ p + 8 * 0 = p
  BY <1>5
<1> QED
  BY <1>6

-----------------------------------------------------------------------------

LEMMA MinOfTwo ==
    ASSUME NEW a \in Int, NEW b \in Int
    PROVE  /\ Min({a, b}) \in Int /\ Min({a, b}) <= a /\ Min({a, b}) <= b
           /\ Min({a, b}) = IF a <= b THEN a ELSE b
<1>1. \E x \in {a, b} : \A y \in {a, b} : x <= y
  OBVIOUS
<1>2. Min({a, b}) \in {a, b} /\ \A y \in {a, b} : Min({a, b}) <= y
  BY <1>1 DEF Min
<1> HIDE DEF Min
<1>3. Min({a, b}) \in {a, b} /\ Min({a, b}) <= a /\ Min({a, b}) <= b
  BY <1>2
<1> DEFINE m == Min({a, b})
<1> HIDE DEF m
<1>4. m \in {a, b} /\ m <= a /\ m <= b
  BY <1>3 DEF m
<1>5. m = IF a <= b THEN a ELSE b
  BY <1>4
<1> QED
  BY <1>4, <1>5 DEF m

(* What is left of a string that is read into so many bytes.               *)
Left(s, maxLen) == [k \in 1 .. Min({Len(s), maxLen - 1}) |-> s[k]]

LEMMA StringZCodeIs ==
    ASSUME NEW s \in Seq(Letters)
    PROVE  /\ StringZCode(s) \in Seq(BitValues)
           /\ Len(StringZCode(s)) = 8 * (Len(s) + 1)
<1>1. Append(s, 0) \in Seq(Bytes) /\ Len(Append(s, 0)) = Len(s) + 1
  BY DEF Letters, Bytes
<1> QED
  BY <1>1, BytesCodeIs DEF StringZCode

LEMMA StringRead ==
    ASSUME data \in Seq(BitValues), NEW p \in Nat, NEW s \in Seq(Letters),
           NEW maxLen \in Nat, Has(data, p, StringZCode(s))
    PROVE  /\ ReadString(p, maxLen).v = Left(s, maxLen)
           /\ ReadString(p, maxLen).at = p + Len(StringZCode(s))
<1> DEFINE t == Append(s, 0)
           n == Len(s)
<1>1. n \in Nat /\ Len(t) = n + 1 /\ t[n + 1] = 0 /\ \A k \in 1 .. n : t[k] = s[k]
  OBVIOUS
<1>2. \A k \in 1 .. n : s[k] \in Letters
  BY SeqMember
<1>3. t \in Seq(Bytes)
  BY DEF Letters, Bytes
<1> HIDE DEF t
<1>4. \A k \in 1 .. n + 1 : UNat(data, p + 8 * (k - 1), 8) = t[k]
  <2>1. Has(data, p, BytesCode(t))
    BY DEF StringZCode, t
  <2> QED
    BY <1>1, <1>3, <2>1, BytesCodeIs
<1>5. \A k \in 1 .. n + 1 : ByteAt[p + 8 * (k - 1)] = t[k]
  <2> SUFFICES ASSUME NEW k \in 1 .. n + 1 PROVE ByteAt[p + 8 * (k - 1)] = t[k]
    OBVIOUS
  <2>1. PICK q \in Nat : q = p + 8 * (k - 1)
    BY <1>1
  <2>2. UNat(data, q, 8) = t[k]
    BY <1>4, <2>1
  <2> QED
    BY <2>1, <2>2, BytesAre
<1>6. IsLength(p, n)
  <2>1. ByteAt[p + 8 * n] = 0
    <3>1. n + 1 \in 1 .. n + 1 /\ (n + 1) - 1 = n
      BY <1>1
    <3>2. ByteAt[p + 8 * ((n + 1) - 1)] = t[n + 1]
      BY <1>5, <3>1
    <3> QED
      BY <1>1, <3>1, <3>2
  <2>2. ASSUME NEW z \in Nat, z < n PROVE ByteAt[p + 8 * z] # 0
    <3>1. z + 1 \in 1 .. n + 1 /\ z + 1 \in 1 .. n /\ (z + 1) - 1 = z
      BY <1>1, <2>2
    <3>2. ByteAt[p + 8 * ((z + 1) - 1)] = t[z + 1]
      BY <1>5, <3>1
    <3>3. t[z + 1] \in Letters
      BY <1>1, <1>2, <3>1
    <3>4. t[z + 1] # 0
      <4>1. \A x \in Letters : x # 0
        BY DEF Letters
      <4> QED
        BY <3>3, <4>1
    <3> QED
      BY <3>1, <3>2, <3>4
  <2> QED
    BY <2>1, <2>2 DEF IsLength
<1>7. StringEnd[p] = p + 8 * n
  BY <1>1, <1>6, EndOfString
<1>8. (StringEnd[p] - p) \div 8 = n
  <2>1. (p + 8 * n) - p = 8 * n
    BY <1>1
  <2>2. (8 * n) \div 8 = n
    BY <1>1
  <2> QED
    BY <1>7, <2>1, <2>2
<1> DEFINE few == Min({n, maxLen - 1})
<1>9. few \in Int /\ few <= n
  <2>1. \A a, b \in Int : Min({a, b}) \in Int /\ Min({a, b}) <= a
    BY MinOfTwo
  <2>2. n \in Int /\ maxLen - 1 \in Int
    BY <1>1
  <2> QED
    BY <2>1, <2>2
<1> HIDE DEF few
<1>10. \A k \in 1 .. few : ByteAt[p + 8 * (k - 1)] = s[k]
  <2> SUFFICES ASSUME NEW k \in 1 .. few PROVE ByteAt[p + 8 * (k - 1)] = s[k]
    OBVIOUS
  <2>1. k \in 1 .. n /\ k \in 1 .. n + 1
    BY <1>1, <1>9
  <2> QED
    BY <1>1, <1>5, <2>1
<1>11. ReadString(p, maxLen) = Result([k \in 1 .. few |-> ByteAt[p + 8 * (k - 1)]],
                                      p + 8 * (n + 1))
  <2>1. ReadString(p, maxLen) =
            LET m == (StringEnd[p] - p) \div 8
            IN  Result([k \in 1 .. Min({m, maxLen - 1}) |-> ByteAt[p + 8 * (k - 1)]],
                       p + 8 * (m + 1))
    BY DEF ReadString, ThroughItsEnd
  <2> QED
    BY <1>8, <2>1, Zenon DEF few
<1>12. [k \in 1 .. few |-> ByteAt[p + 8 * (k - 1)]] = [k \in 1 .. few |-> s[k]]
  BY <1>10
<1>13. Left(s, maxLen) = [k \in 1 .. few |-> s[k]]
  BY DEF Left, few
<1>14. Len(StringZCode(s)) = 8 * (n + 1)
  BY StringZCodeIs
<1>15. ReadString(p, maxLen) = Result(Left(s, maxLen), p + 8 * (n + 1))
  BY <1>11, <1>12, <1>13, Zenon
<1> QED
  BY <1>14, <1>15 DEF Result

LEMMA LeftIsNoLonger ==
    ASSUME NEW s \in Seq(Letters), NEW maxLen \in Nat
    PROVE  Len(Left(s, maxLen)) \in Nat /\ Len(Left(s, maxLen)) <= Len(s)
<1> DEFINE few == Min({Len(s), maxLen - 1})
<1>1. Len(s) \in Nat /\ few \in Int /\ few <= Len(s)
  <2>1. \A a, b \in Int : Min({a, b}) \in Int /\ Min({a, b}) <= a
    BY MinOfTwo
  <2>2. Len(s) \in Nat /\ Len(s) \in Int /\ maxLen - 1 \in Int
    OBVIOUS
  <2> QED
    BY <2>1, <2>2
<1> HIDE DEF few
<1>2. Left(s, maxLen) = [k \in 1 .. few |-> s[k]]
  BY DEF Left, few
<1>3. CASE few \in Nat
  <2>1. Len(Left(s, maxLen)) = few
    BY <1>2, <1>3
  <2> QED
    BY <1>1, <2>1
<1>4. CASE few \notin Nat
  <2>1. Left(s, maxLen) = <<>>
    <3>1. 1 .. few = {}
      BY <1>1, <1>4
    <3> QED
      BY <1>2, <3>1
  <2> QED
    BY <1>1, <2>1
<1> QED
  BY <1>3, <1>4

-----------------------------------------------------------------------------
(* A row is read as it was written.                                        *)
DataCode(userdata) ==
    Unless(userdata = <<>>, ToBits(Len(userdata), 16) \o BytesCode(userdata))

LEMMA Split ==
    ASSUME data \in Seq(BitValues)
    PROVE  \A p \in Nat : \A s, t \in Seq(BitValues) : \A code : code = s \o t =>
              /\ code \in Seq(BitValues) /\ Len(code) = Len(s) + Len(t)
              /\ Has(data, p, code) => Has(data, p, s) /\ Has(data, p + Len(s), t)
<1> SUFFICES ASSUME NEW p \in Nat, NEW s \in Seq(BitValues), NEW t \in Seq(BitValues)
             PROVE  /\ s \o t \in Seq(BitValues) /\ Len(s \o t) = Len(s) + Len(t)
                    /\ Has(data, p, s \o t) => Has(data, p, s) /\ Has(data, p + Len(s), t)
  OBVIOUS
<1>1. s \o t \in Seq(BitValues) /\ Len(s \o t) = Len(s) + Len(t)
  BY Joined
<1>2. Has(data, p, s \o t) => Has(data, p, s) /\ Has(data, p + Len(s), t)
  BY HasJoined
<1> QED
  BY <1>1, <1>2, Zenon

LEMMA DataCodeIs ==
    ASSUME NEW userdata \in Seq(Bytes)
    PROVE  /\ DataCode(userdata) \in Seq(BitValues)
           /\ ToBits(Len(userdata), 16) \in Seq(BitValues)
           /\ BytesCode(userdata) \in Seq(BitValues)
           /\ Len(ToBits(Len(userdata), 16)) = 16
<1>1. /\ ToBits(Len(userdata), 16) \in Seq(BitValues)
      /\ Len(ToBits(Len(userdata), 16)) = 16
  <2>1. Len(userdata) \in Nat /\ 16 \in Nat /\ 16 <= 30
    OBVIOUS
  <2> QED
    BY <2>1, ToBitsIs
<1>2. BytesCode(userdata) \in Seq(BitValues)
  BY BytesCodeIs
<1>3. <<>> \in Seq(BitValues)
  OBVIOUS
<1>4. ToBits(Len(userdata), 16) \o BytesCode(userdata) \in Seq(BitValues)
  BY <1>1, <1>2, Joined, SMTT(30)
<1> QED
  BY <1>1, <1>2, <1>3, <1>4, Zenon DEF DataCode, Unless

LEMMA DataRead ==
    ASSUME data \in Seq(BitValues), NEW p \in Nat,
           NEW userdata \in Seq(Bytes), userdata # <<>>, Len(userdata) < 2^16,
           Has(data, p, DataCode(userdata))
    PROVE  /\ WordAt[p] = Len(userdata)
           /\ ReadBytes(p + 16, Len(userdata)) = userdata
           /\ Len(DataCode(userdata)) = 16 + 8 * Len(userdata)
<1> DEFINE size == ToBits(Len(userdata), 16)
           bytes == BytesCode(userdata)
<1>1. size \in Seq(BitValues) /\ bytes \in Seq(BitValues) /\ Len(size) = 16
  BY DataCodeIs
<1>2. DataCode(userdata) = size \o bytes
  BY DEF DataCode, Unless
<1> HIDE DEF size, bytes
<1> DEFINE code == DataCode(userdata)
<1> HIDE DEF code
<1>3. Has(data, p, size) /\ Has(data, p + Len(size), bytes) /\ Len(code) = Len(size) + Len(bytes)
  <2>1. Has(data, p, code) /\ code = size \o bytes
    BY <1>2 DEF code
  <2> QED
    BY <1>1, <2>1, Split, ZenonT(30)
<1>4. Has(data, p + 16, bytes) /\ Len(code) = 16 + Len(bytes)
  BY <1>1, <1>3
<1>5. WordAt[p] = UNat(data, p, 16)
  BY DEF WordAt
<1>6. UNat(data, p, 16) = Len(userdata)
  <2>1. Len(userdata) \in Nat /\ Len(userdata) < 2^16
    OBVIOUS
  <2>2. Has(data, p, ToBits(Len(userdata), 16))
    BY <1>3 DEF size
  <2>3. \A z \in Nat : z < 2^16 /\ Has(data, p, ToBits(z, 16)) => UNat(data, p, 16) = z
    <3>1. 16 \in 0 .. 16
      OBVIOUS
    <3> QED
      BY <3>1, NumberRead
  <2> QED
    BY <2>1, <2>2, <2>3
<1>7. \A k \in 1 .. Len(userdata) : ByteAt[(p + 16) + 8 * (k - 1)] = userdata[k]
  <2>1. p + 16 \in Nat
    OBVIOUS
  <2>2. \A q \in Nat : Has(data, q, bytes) =>
            \A k \in 1 .. Len(userdata) : UNat(data, q + 8 * (k - 1), 8) = userdata[k]
    BY BytesCodeIs DEF bytes
  <2>3. \A k \in 1 .. Len(userdata) : UNat(data, (p + 16) + 8 * (k - 1), 8) = userdata[k]
    BY <1>4, <2>1, <2>2
  <2> SUFFICES ASSUME NEW k \in 1 .. Len(userdata)
               PROVE  ByteAt[(p + 16) + 8 * (k - 1)] = userdata[k]
    OBVIOUS
  <2>4. (p + 16) + 8 * (k - 1) \in Nat
    OBVIOUS
  <2>5. ByteAt[(p + 16) + 8 * (k - 1)] = UNat(data, (p + 16) + 8 * (k - 1), 8)
    BY <2>4, BytesAre
  <2> QED
    BY <2>3, <2>5
<1>8. ReadBytes(p + 16, Len(userdata)) = [k \in 1 .. Len(userdata) |-> userdata[k]]
  <2>1. ReadBytes(p + 16, Len(userdata)) =
            [k \in 1 .. Len(userdata) |-> ByteAt[(p + 16) + 8 * (k - 1)]]
    BY DEF ReadBytes, FourByteLongs
  <2> QED
    BY <1>7, <2>1
<1>9. Len(bytes) = 8 * Len(userdata)
  BY BytesCodeIs DEF bytes
<1>10. \A u \in Seq(Bytes) : [k \in 1 .. Len(u) |-> u[k]] = u
  OBVIOUS
<1>11. ReadBytes(p + 16, Len(userdata)) = userdata
  BY <1>8, <1>10
<1>12. Len(DataCode(userdata)) = 16 + 8 * Len(userdata)
  BY <1>4, <1>9 DEF code
<1> QED
  BY <1>5, <1>6, <1>11, <1>12, Zenon

LEMMA FlagRead ==
    ASSUME data \in Seq(BitValues), NEW condition \in BOOLEAN, NEW p \in Nat,
           Has(data, p, Flag(condition))
    PROVE  OneBit(data, p) \in BitValues /\ (OneBit(data, p) = 1 <=> condition)
<1>1. PICK b \in BitValues : Flag(condition) = <<b>> /\ (b = 1 <=> condition)
  BY FlagIs
<1>2. Has(data, p, <<b>>)
  BY <1>1
<1>3. OneBit(data, p) = b
  BY <1>2, BitIsRead
<1> QED
  BY <1>1, <1>3

(* Behind its string, a row is a bit and, if that is set, its user data.   *)
LEMMA UserDataRead ==
    ASSUME data \in Seq(BitValues), NEW p \in Nat,
           NEW userdata \in Seq(Bytes), Len(userdata) < 2^16,
           Has(data, p, Flag(userdata # <<>>)), Has(data, p + 1, DataCode(userdata))
    PROVE  /\ UserData(p).has \in BOOLEAN /\ (UserData(p).has <=> userdata # <<>>)
           /\ UserData(p).end = p + 1 + Len(DataCode(userdata))
           /\ UserData(p).has => /\ UserData(p).size = Len(userdata)
                                 /\ UserData(p).bytes = userdata
<1>1. OneBit(data, p) \in BitValues /\ (OneBit(data, p) = 1 <=> userdata # <<>>)
  BY FlagRead
<1>2. p + 1 \in Nat /\ (p + 1) + 16 = p + 17
  OBVIOUS
<1>3. CASE userdata = <<>>
  <2>1. OneBit(data, p) = 0
    BY <1>1, <1>3 DEF BitValues
  <2>2. UserData(p) = [has |-> FALSE, end |-> p + 1]
    BY <2>1 DEF UserData
  <2>3. UserData(p).has = FALSE /\ UserData(p).end = p + 1
    BY <2>2
  <2>4. Len(DataCode(userdata)) = 0
    BY <1>3 DEF DataCode, Unless
  <2>5. p + 1 = p + 1 + Len(DataCode(userdata))
    BY <2>4
  <2> QED
    BY <1>3, <2>3, <2>5, Zenon
<1>4. CASE userdata # <<>>
  <2>1. OneBit(data, p) # 0
    BY <1>1, <1>4
  <2>2. /\ WordAt[p + 1] = Len(userdata)
        /\ ReadBytes((p + 1) + 16, Len(userdata)) = userdata
        /\ Len(DataCode(userdata)) = 16 + 8 * Len(userdata)
    BY <1>2, <1>4, DataRead
  <2>3. UserData(p) = [has |-> TRUE, size |-> WordAt[p + 1],
                       bytes |-> ReadBytes(p + 17, WordAt[p + 1]),
                       end |-> p + 17 + 8 * WordAt[p + 1]]
    BY <2>1 DEF UserData
  <2>4. /\ UserData(p).has = TRUE /\ UserData(p).size = WordAt[p + 1]
        /\ UserData(p).bytes = ReadBytes(p + 17, WordAt[p + 1])
        /\ UserData(p).end = p + 17 + 8 * WordAt[p + 1]
    BY <2>3
  <2>5. UserData(p).bytes = userdata
    BY <1>2, <2>2, <2>4
  <2>6. UserData(p).end = p + 1 + Len(DataCode(userdata))
    BY <2>2, <2>4
  <2> QED
    BY <1>4, <2>2, <2>4, <2>5, <2>6, Zenon
<1> QED
  BY <1>3, <1>4

LEMMA RowCodeIs ==
    ASSUME NEW r \in RowType
    PROVE  /\ RowCode(r) \in Seq(BitValues)
           /\ StringZCode(r.string) \in Seq(BitValues)
           /\ Flag(r.userdata # <<>>) \in Seq(BitValues)
           /\ Len(Flag(r.userdata # <<>>)) = 1
           /\ StringZCode(r.string) \o Flag(r.userdata # <<>>) \in Seq(BitValues)
           /\ DataCode(r.userdata) \in Seq(BitValues)
           /\ RowCode(r) = (StringZCode(r.string) \o Flag(r.userdata # <<>>)) \o DataCode(r.userdata)
<1>1. r.string \in Seq(Letters) /\ r.userdata \in Seq(Bytes)
  BY DEF RowType
<1>2. StringZCode(r.string) \in Seq(BitValues)
  BY <1>1, StringZCodeIs
<1>3. Flag(r.userdata # <<>>) \in Seq(BitValues) /\ Len(Flag(r.userdata # <<>>)) = 1
  BY FlagIs
<1>4. DataCode(r.userdata) \in Seq(BitValues)
  BY <1>1, DataCodeIs
<1>5. StringZCode(r.string) \o Flag(r.userdata # <<>>) \in Seq(BitValues)
  BY <1>2, <1>3, Joined, SMTT(30)
<1>6. (StringZCode(r.string) \o Flag(r.userdata # <<>>)) \o DataCode(r.userdata) \in Seq(BitValues)
  BY <1>4, <1>5, Joined, SMTT(30)
<1>7. RowCode(r) = (StringZCode(r.string) \o Flag(r.userdata # <<>>)) \o DataCode(r.userdata)
  BY DEF RowCode, DataCode
<1> QED
  BY <1>2, <1>3, <1>4, <1>5, <1>6, <1>7

(* A row is read as it was written, and up to its end.                     *)
LEMMA RowRead ==
    ASSUME data \in Seq(BitValues), at \in Nat, NEW r \in RowType, Len(r.userdata) < 2^16,
           Has(data, at, RowCode(r))
    PROVE  /\ \E limit \in Nat : StringName.v = Left(r.string, limit)
           /\ RowData.has \in BOOLEAN /\ (RowData.has <=> r.userdata # <<>>)
           /\ RowData.end = at + Len(RowCode(r))
           /\ RowData.has => RowData.size = Len(r.userdata) /\ RowData.bytes = r.userdata
<1> DEFINE name == StringZCode(r.string)
           flag == Flag(r.userdata # <<>>)
           front == name \o flag
           rest == DataCode(r.userdata)
           code == RowCode(r)
<1>1. /\ name \in Seq(BitValues) /\ flag \in Seq(BitValues) /\ front \in Seq(BitValues)
      /\ rest \in Seq(BitValues) /\ Len(flag) = 1 /\ code = front \o rest /\ front = name \o flag
  BY RowCodeIs
<1>2. Has(data, at, code)
  OBVIOUS
<1>3. r.string \in Seq(Letters) /\ r.userdata \in Seq(Bytes)
  BY DEF RowType
<1>4. PICK limit : limit = 4096
  OBVIOUS
<1>5. limit \in Nat /\ StringName = ReadString(at, limit)
  BY <1>4 DEF StringName
<1> HIDE DEF name, flag, front, rest, code
<1>6. /\ Has(data, at, front) /\ Has(data, at + Len(front), rest)
      /\ Len(code) = Len(front) + Len(rest)
  BY <1>1, <1>2, Split, ZenonT(30)
<1>7. /\ Has(data, at, name) /\ Has(data, at + Len(name), flag)
      /\ Len(front) = Len(name) + Len(flag)
  <2>1. front = name \o flag
    BY <1>1
  <2> QED
    BY <1>1, <1>6, <2>1, Split, ZenonT(30)
<1>8. StringName.v = Left(r.string, limit) /\ StringName.at = at + Len(name)
  BY <1>3, <1>5, <1>7, StringRead DEF name
<1>9. PICK p \in Nat : p = at + Len(name)
  <2>1. at + Len(name) \in Nat
    BY <1>1
  <2> QED
    BY <2>1
<1>10. Has(data, p, flag) /\ Has(data, p + 1, rest)
  <2>1. at + Len(front) = p + 1
    BY <1>1, <1>7, <1>9
  <2> QED
    BY <1>6, <1>7, <1>9, <2>1
<1>11. /\ UserData(p).has \in BOOLEAN /\ (UserData(p).has <=> r.userdata # <<>>)
       /\ UserData(p).end = p + 1 + Len(rest)
       /\ UserData(p).has => /\ UserData(p).size = Len(r.userdata)
                             /\ UserData(p).bytes = r.userdata
  BY <1>3, <1>10, UserDataRead DEF flag, rest
<1>12. RowData = UserData(p)
  BY <1>8, <1>9 DEF RowData
<1>13. RowData.end = at + Len(code)
  <2>0. Len(rest) \in Nat /\ Len(name) \in Nat
    BY <1>1
  <2>1. p + 1 + Len(rest) = at + Len(code)
    <3>1. Len(code) = Len(name) + 1 + Len(rest)
      BY <1>1, <1>6, <1>7
    <3> QED
      BY <1>9, <2>0, <3>1
  <2> QED
    BY <1>11, <1>12, <2>1
<1> QED
  BY <1>5, <1>8, <1>11, <1>12, <1>13 DEF code

-----------------------------------------------------------------------------
(* Where the parts of a list lie behind their number, which has w bits.    *)
PartAt(p, w, F, n) == p + w + Len(Flat(F, n))

ListIs(p, w, F, N, code) ==
    /\ code \in Seq(BitValues)
    /\ PartAt(p, w, F, N) = p + Len(code)
    /\ PartAt(p, w, F, 0) = p + w
    /\ \A n \in 0 .. N : PartAt(p, w, F, n) \in Nat
    /\ Has(data, p, code) =>
         /\ UNat(data, p, w) = N
         /\ \A n \in 0 .. N : \A m \in 1 .. N : m = n + 1 =>
              /\ Has(data, PartAt(p, w, F, n), F[m])
              /\ PartAt(p, w, F, m) = PartAt(p, w, F, n) + Len(F[m])

LEMMA ListRead ==
    ASSUME data \in Seq(BitValues), NEW p \in Nat, NEW w \in 0 .. 16,
           NEW N \in Nat, N < 2^w, NEW F, Parts(F, N, BitValues),
           NEW code, code = ToBits(N, w) \o Flat(F, N)
    PROVE  ListIs(p, w, F, N, code)
<1> DEFINE number == ToBits(N, w)
           flat == Flat(F, N)
<1>1. number \in Seq(BitValues) /\ Len(number) = w
  <2>1. w \in Nat /\ w <= 30
    OBVIOUS
  <2> QED
    BY <2>1, ToBitsIs
<1>2. flat \in Seq(BitValues) /\ \A n \in 0 .. N : Flat(F, n) \in Seq(BitValues)
  BY FlatTyped
<1>3. code = number \o flat
  OBVIOUS
<1>4. number = ToBits(N, w) /\ flat = Flat(F, N)
  OBVIOUS
<1> HIDE DEF number, flat
<1>5. code \in Seq(BitValues) /\ Len(code) = Len(number) + Len(flat)
  BY <1>1, <1>2, <1>3, Split, ZenonT(30)
<1>6. PartAt(p, w, F, N) = p + Len(code)
  <2>1. Len(flat) \in Nat
    BY <1>2
  <2>2. Len(code) = w + Len(flat)
    BY <1>1, <1>5
  <2>3. PartAt(p, w, F, N) = p + w + Len(flat)
    BY <1>4 DEF PartAt
  <2> QED
    BY <2>1, <2>2, <2>3
<1>7. PartAt(p, w, F, 0) = p + w
  <2>1. Len(Flat(F, 0)) = 0
    BY FlatNothing
  <2> QED
    BY <2>1 DEF PartAt
<1>8. \A n \in 0 .. N : PartAt(p, w, F, n) \in Nat
  <2> SUFFICES ASSUME NEW n \in 0 .. N PROVE PartAt(p, w, F, n) \in Nat
    OBVIOUS
  <2>1. Len(Flat(F, n)) \in Nat
    BY <1>2
  <2> QED
    BY <2>1 DEF PartAt
<1>9. ASSUME Has(data, p, code)
      PROVE  /\ UNat(data, p, w) = N
             /\ \A n \in 0 .. N : \A m \in 1 .. N : m = n + 1 =>
                  /\ Has(data, PartAt(p, w, F, n), F[m])
                  /\ PartAt(p, w, F, m) = PartAt(p, w, F, n) + Len(F[m])
  <2>1. Has(data, p, number) /\ Has(data, p + w, flat)
    BY <1>1, <1>2, <1>3, <1>9, Split, ZenonT(30)
  <2>2. UNat(data, p, w) = N
    <3>1. w \in 0 .. 30 /\ Has(data, p, ToBits(N, w))
      BY <1>4, <2>1
    <3> HIDE DEF number, flat
    <3> QED
      BY <3>1, NumberRead
  <2>3. PICK q \in Nat : q = p + w
    OBVIOUS
  <2> SUFFICES ASSUME NEW n \in 0 .. N, NEW m \in 1 .. N, m = n + 1
               PROVE  /\ Has(data, PartAt(p, w, F, n), F[m])
                      /\ PartAt(p, w, F, m) = PartAt(p, w, F, n) + Len(F[m])
    BY <2>2
  <2>4. /\ Has(data, q + Len(Flat(F, n)), F[m])
        /\ Len(Flat(F, m)) = Len(Flat(F, n)) + Len(F[m])
    <3>1. Has(data, q, Flat(F, N))
      BY <1>4, <2>1, <2>3
    <3>2. \A z \in 0 .. N : \A j \in 1 .. N : j = z + 1 =>
              /\ Has(data, q + Len(Flat(F, z)), F[j])
              /\ Len(Flat(F, j)) = Len(Flat(F, z)) + Len(F[j])
              /\ q + Len(Flat(F, z)) \in Nat /\ q + Len(Flat(F, j)) \in Nat
      BY <3>1, HasPart, Zenon
    <3> QED
      BY <3>2
  <2>5. PartAt(p, w, F, n) = q + Len(Flat(F, n)) /\ PartAt(p, w, F, m) = q + Len(Flat(F, m))
    BY <2>3 DEF PartAt
  <2>6. Len(Flat(F, n)) \in Nat /\ Len(F[m]) \in Nat
    <3>1. Flat(F, n) \in Seq(BitValues) /\ F[m] \in Seq(BitValues)
      BY <1>2 DEF Parts
    <3> QED
      BY <3>1
  <2>7. PartAt(p, w, F, m) = PartAt(p, w, F, n) + Len(F[m])
    <3>1. PICK a \in Nat : a = Len(Flat(F, n))
      BY <2>6
    <3>2. PICK b \in Nat : b = Len(F[m])
      BY <2>6
    <3>3. Len(Flat(F, m)) = a + b
      BY <2>4, <3>1, <3>2
    <3>4. q + (a + b) = (q + a) + b
      OBVIOUS
    <3>5. PartAt(p, w, F, m) = q + (a + b) /\ PartAt(p, w, F, n) = q + a
      BY <2>5, <3>1, <3>3
    <3> QED
      BY <3>2, <3>4, <3>5
  <2> QED
    BY <2>4, <2>5, <2>7
<1> QED
  BY <1>5, <1>6, <1>7, <1>8, <1>9 DEF ListIs

(* The same of the rows of a table.                                        *)
RowCodes(rows) == [k \in 1 .. Len(rows) |-> RowCode(rows[k])]
RowAt(p, rows, n) == PartAt(p, 16, RowCodes(rows), n)

LEMMA RowsRead ==
    ASSUME data \in Seq(BitValues), NEW p \in Nat, NEW rows \in RowsType
    PROVE  /\ RowsCode(rows) \in Seq(BitValues)
           /\ RowAt(p, rows, Len(rows)) = p + Len(RowsCode(rows))
           /\ RowAt(p, rows, 0) = p + 16
           /\ \A n \in 0 .. Len(rows) : RowAt(p, rows, n) \in Nat
           /\ Has(data, p, RowsCode(rows)) =>
                /\ WordAt[p] = Len(rows)
                /\ \A n \in 0 .. Len(rows) : \A m \in 1 .. Len(rows) : m = n + 1 =>
                     /\ Has(data, RowAt(p, rows, n), RowCode(rows[m]))
                     /\ RowAt(p, rows, m) = RowAt(p, rows, n) + Len(RowCode(rows[m]))
<1> DEFINE N == Len(rows)
           F == RowCodes(rows)
           code == RowsCode(rows)
<1>1. N \in Nat /\ N < 2^16 /\ 16 \in 0 .. 16 /\ \A k \in 1 .. N : rows[k] \in RowType
  <2>1. rows \in Seq(RowType) /\ Len(rows) < 2^16
    BY DEF RowsType
  <2> QED
    BY <2>1, SeqMember
<1>2. \A k \in 1 .. N : F[k] = RowCode(rows[k])
  BY DEF RowCodes
<1>3. F = [k \in 1 .. N |-> F[k]]
  BY DEF RowCodes
<1>4. code = ToBits(N, 16) \o FlattenSeq(F)
  <2>1. DOMAIN rows = 1 .. N
    BY DEF RowsType
  <2> QED
    BY <2>1 DEF RowsCode, RowCodes
<1>5. /\ \A n : RowAt(p, rows, n) = PartAt(p, 16, F, n)
      /\ WordAt[p] = UNat(data, p, 16)
  BY DEF RowAt, WordAt
<1>6. N = Len(rows) /\ code = RowsCode(rows)
  OBVIOUS
<1> HIDE DEF F, N, code
<1>7. Parts(F, N, BitValues)
  <2>1. \A r \in RowType : RowCode(r) \in Seq(BitValues)
    BY RowCodeIs
  <2> QED
    BY <1>1, <1>2, <2>1 DEF Parts
<1>8. code = ToBits(N, 16) \o Flat(F, N)
  <2>1. FlattenSeq(F) = Flat(F, N)
    BY <1>3, FlatWhole
  <2> QED
    BY <1>4, <2>1
<1>9. ListIs(p, 16, F, N, code)
  <2>1. \A w \in 0 .. 16 : N < 2^w /\ code = ToBits(N, w) \o Flat(F, N) => ListIs(p, w, F, N, code)
    BY <1>1, <1>7, ListRead
  <2> QED
    BY <1>1, <1>8, <2>1
<1> QED
  BY <1>2, <1>5, <1>6, <1>9 DEF ListIs

-----------------------------------------------------------------------------
(* Where the parts of a table lie.                                         *)
ClientCode(t) == Unless(t.clientside = <<>>, RowsCode(t.clientside))
RowsStart(p, t) == p + Len(StringZCode(t.name))
FlagStart(p, t) == RowsStart(p, t) + Len(RowsCode(t.rows))

LEMMA RowsCodeTyped == \A rows \in RowsType : RowsCode(rows) \in Seq(BitValues)
<1> SUFFICES ASSUME NEW rows \in RowsType PROVE RowsCode(rows) \in Seq(BitValues)
  OBVIOUS
<1> DEFINE N == Len(rows)
           F == RowCodes(rows)
<1>1. rows \in Seq(RowType)
  BY DEF RowsType
<1>2. N \in Nat /\ DOMAIN rows = 1 .. N /\ \A k \in 1 .. N : rows[k] \in RowType
  BY <1>1
<1>3. \A k \in 1 .. N : F[k] \in Seq(BitValues)
  <2>1. \A k \in 1 .. N : F[k] = RowCode(rows[k])
    BY DEF RowCodes
  <2>2. \A r \in RowType : RowCode(r) \in Seq(BitValues)
    BY RowCodeIs
  <2> QED
    BY <1>2, <2>1, <2>2
<1>4. F = [k \in 1 .. N |-> F[k]]
  BY DEF RowCodes
<1>5. RowsCode(rows) = ToBits(N, 16) \o FlattenSeq(F)
  BY <1>2 DEF RowsCode, RowCodes
<1> HIDE DEF F, N
<1>6. FlattenSeq(F) = Flat(F, N)
  BY <1>4, FlatWhole
<1>7. Flat(F, N) \in Seq(BitValues)
  <2>1. Parts(F, N, BitValues) /\ N \in 0 .. N
    BY <1>2, <1>3 DEF Parts
  <2> QED
    BY <2>1, FlatTyped
<1>8. ToBits(N, 16) \in Seq(BitValues)
  <2>1. 16 \in Nat /\ 16 <= 30
    OBVIOUS
  <2> QED
    BY <1>2, <2>1, ToBitsIs
<1> QED
  BY <1>5, <1>6, <1>7, <1>8, Joined, SMTT(30)

LEMMA TableRead ==
    ASSUME data \in Seq(BitValues), NEW p \in Nat, NEW t \in TableType
    PROVE  /\ TableCode(t) \in Seq(BitValues)
           /\ RowsStart(p, t) \in Nat /\ FlagStart(p, t) \in Nat
           /\ p + Len(TableCode(t)) = FlagStart(p, t) + 1 + Len(ClientCode(t))
           /\ ClientCode(t) \in Seq(BitValues)
           /\ Has(data, p, TableCode(t)) =>
                /\ Has(data, p, StringZCode(t.name))
                /\ Has(data, RowsStart(p, t), RowsCode(t.rows))
                /\ Has(data, FlagStart(p, t), Flag(t.clientside # <<>>))
                /\ Has(data, FlagStart(p, t) + 1, ClientCode(t))
<1> DEFINE name == StringZCode(t.name)
           rows == RowsCode(t.rows)
           flag == Flag(t.clientside # <<>>)
           client == ClientCode(t)
           front == name \o rows
           middle == front \o flag
           code == TableCode(t)
<1>1. /\ name \in Seq(BitValues) /\ rows \in Seq(BitValues)
      /\ flag \in Seq(BitValues) /\ Len(flag) = 1
  <2>1. t.name \in Seq(Letters) /\ t.rows \in RowsType
    BY DEF TableType
  <2>2. name \in Seq(BitValues)
    BY <2>1, StringZCodeIs
  <2>3. rows \in Seq(BitValues)
    BY <2>1, RowsCodeTyped
  <2>4. flag \in Seq(BitValues) /\ Len(flag) = 1
    BY FlagIs
  <2> QED
    BY <2>2, <2>3, <2>4
<1>2. client \in Seq(BitValues)
  <2>1. t.clientside \in RowsType
    BY DEF TableType
  <2>2. RowsCode(t.clientside) \in Seq(BitValues) /\ <<>> \in Seq(BitValues)
    BY <2>1, RowsCodeTyped
  <2> QED
    BY <2>2 DEF ClientCode, Unless
<1>3. front = name \o rows /\ middle = front \o flag /\ code = middle \o client
  BY DEF TableCode, ClientCode
<1>4. RowsStart(p, t) = p + Len(name) /\ FlagStart(p, t) = p + Len(name) + Len(rows)
  BY DEF RowsStart, FlagStart
<1> HIDE DEF name, rows, flag, client, front, middle, code
<1>5. front \in Seq(BitValues) /\ Len(front) = Len(name) + Len(rows)
  BY <1>1, <1>3, Split, SMTT(30)
<1>6. middle \in Seq(BitValues) /\ Len(middle) = Len(front) + Len(flag)
  <2>1. middle = front \o flag
    BY <1>3
  <2> QED
    BY <1>1, <1>5, <2>1, Split, ZenonT(30)
<1>7. code \in Seq(BitValues) /\ Len(code) = Len(middle) + Len(client)
  BY <1>2, <1>3, <1>6, Split, SMTT(30)
<1>8. Len(name) \in Nat /\ Len(rows) \in Nat /\ Len(client) \in Nat
  BY <1>1, <1>2
<1>9. Len(code) = Len(name) + Len(rows) + 1 + Len(client)
  BY <1>1, <1>5, <1>6, <1>7, <1>8
<1>10. RowsStart(p, t) \in Nat /\ FlagStart(p, t) \in Nat
  BY <1>4, <1>8
<1>11. p + Len(code) = FlagStart(p, t) + 1 + Len(client)
  BY <1>4, <1>8, <1>9
<1>12. ASSUME Has(data, p, code)
       PROVE  /\ Has(data, p, name) /\ Has(data, RowsStart(p, t), rows)
              /\ Has(data, FlagStart(p, t), flag) /\ Has(data, FlagStart(p, t) + 1, client)
  <2>1. Has(data, p, middle) /\ Has(data, p + Len(middle), client)
    BY <1>2, <1>3, <1>6, <1>12, Split, ZenonT(30)
  <2>2. Has(data, p, front) /\ Has(data, p + Len(front), flag)
    BY <1>1, <1>3, <1>5, <2>1, Split, ZenonT(30)
  <2>3. Has(data, p, name) /\ Has(data, p + Len(name), rows)
    BY <1>1, <1>3, <2>2, Split, ZenonT(30)
  <2>4. p + Len(front) = FlagStart(p, t) /\ p + Len(middle) = FlagStart(p, t) + 1
    BY <1>1, <1>4, <1>5, <1>6, <1>8
  <2> QED
    BY <1>4, <2>1, <2>2, <2>3, <2>4
<1>13. /\ name = StringZCode(t.name) /\ rows = RowsCode(t.rows)
       /\ flag = Flag(t.clientside # <<>>) /\ client = ClientCode(t) /\ code = TableCode(t)
  BY DEF name, rows, flag, client, code
<1> QED
  BY <1>2, <1>7, <1>10, <1>11, <1>12, <1>13
-----------------------------------------------------------------------------
(* The bytes of a player info give back the user ID and the flag.          *)
LEMMA BytesOfANumber ==
    ASSUME NEW u \in Nat
    PROVE  (u % 256) + 256 * ((u \div 256) % 256) + 2^16 * ((u \div 2^16) % 256)
               + 2^24 * (u \div 2^24) = u
<1> DEFINE a == u \div 256
           b == a \div 256
           c == b \div 256
<1>1. a \in Nat /\ u = 256 * a + (u % 256)
  OBVIOUS
<1>2. b \in Nat /\ a = 256 * b + (a % 256)
  <2> HIDE DEF a
  <2> QED
    BY <1>1
<1>3. c \in Nat /\ b = 256 * c + (b % 256)
  <2> HIDE DEF a, b
  <2> QED
    BY <1>2
<1>4. \A n \in Nat : (n \div 256) \div 256 = n \div 2^16
  OBVIOUS
<1>5. \A n \in Nat : ((n \div 256) \div 256) \div 256 = n \div 2^24
  OBVIOUS
<1>6. u \div 2^16 = b /\ u \div 2^24 = c
  BY <1>4, <1>5
<1> HIDE DEF a, b, c
<1>7. u % 256 \in Nat /\ a % 256 \in Nat /\ b % 256 \in Nat
  BY <1>1, <1>2, <1>3
<1>8. 2^16 * (b % 256) = 256 * (256 * (b % 256)) /\ 2^24 * c = 256 * (256 * (256 * c))
  BY <1>3, <1>7
<1>9. u = 256 * (256 * (256 * c + (b % 256)) + (a % 256)) + (u % 256)
  BY <1>1, <1>2, <1>3
<1> QED
  BY <1>3, <1>6, <1>7, <1>8, <1>9 DEF a

LEMMA UserIsANumber ==
    ASSUME NEW user \in Users
    PROVE  user \in Nat /\ user \div 2^24 \in 0 .. 127
<1>1. user \in Nat /\ user \div 2^24 < 128
  BY UsersAssumption, NumbersAssumption
<1> QED
  BY <1>1

LEMMA InfoBytesAre ==
    ASSUME NEW user \in Users
    PROVE  InfoBytes(user) \in Seq(Bytes) /\ Len(InfoBytes(user)) = 5
<1>1. user \in Nat /\ user \div 2^24 \in 0 .. 127
  BY UserIsANumber
<1>2. user \div 2^24 \in Bytes
  BY <1>1 DEF Bytes
<1>3. /\ (user \div 2^16) % 256 \in Bytes /\ (user \div 256) % 256 \in Bytes
      /\ user % 256 \in Bytes
  BY <1>1 DEF Bytes
<1>4. (IF user \in Bots THEN 1 ELSE 0) \in Bytes
  BY DEF Bytes
<1>5. \A a, b, c, d, e \in Bytes : <<a, b, c, d, e>> \in Seq(Bytes) /\ Len(<<a, b, c, d, e>>) = 5
  OBVIOUS
<1> QED
  BY <1>2, <1>3, <1>4, <1>5 DEF InfoBytes

LEMMA InfoRead ==
    ASSUME NEW user \in Users, NEW slot
    PROVE  Info(slot, InfoBytes(user)) = PlayerInfo(slot, user)
<1> DEFINE a == user \div 2^24
           b == (user \div 2^16) % 256
           c == (user \div 256) % 256
           d == user % 256
           e == IF user \in Bots THEN 1 ELSE 0
           s == InfoBytes(user)
<1>1. user \in Nat
  BY UserIsANumber
<1>2. d + 256 * c + 2^16 * b + 2^24 * a = user
  BY <1>1, BytesOfANumber
<1>3. s = <<a, b, c, d, e>>
  BY DEF InfoBytes
<1>4. e # 0 <=> user \in Bots
  OBVIOUS
<1> HIDE DEF a, b, c, d, e, s
<1>5. SubSeq(s, 1, 4) = <<a, b, c, d>>
  <2> DEFINE t == SubSeq(s, 1, 4)
  <2>1. s \in Seq(Bytes) /\ Len(s) = 5
    BY InfoBytesAre DEF s
  <2>2. t \in Seq(Bytes) /\ Len(t) = 4 /\ \A z \in 1 .. 4 : t[z] = s[z]
    BY <2>1
  <2> HIDE DEF t
  <2>3. t[1] = a /\ t[2] = b /\ t[3] = c /\ t[4] = d
    BY <1>3, <2>2
  <2>4. t = <<t[1], t[2], t[3], t[4]>>
    BY <2>2
  <2> QED
    BY <2>3, <2>4 DEF t
<1>6. Reverse(<<a, b, c, d>>) = <<d, c, b, a>>
  BY DEF Reverse
<1>7. LowLevelByteSwap(SubSeq(s, 1, 4)) = <<d, c, b, a>>
  BY <1>5, <1>6 DEF LowLevelByteSwap
<1>8. LittleEndian(<<d, c, b, a>>) = d + 256 * c + 2^16 * b + 2^24 * a
  BY DEF LittleEndian
<1>9. s[5] = e
  BY <1>3
<1>10. LittleEndian(LowLevelByteSwap(SubSeq(s, 1, 4))) = user
  BY <1>2, <1>7, <1>8
<1>11. Info(slot, s) = [entityID |-> slot, userID |-> user, fakeplayer |-> e # 0]
  BY <1>9, <1>10 DEF Info
<1>12. Info(slot, s) = [entityID |-> slot, userID |-> user, fakeplayer |-> user \in Bots]
  BY <1>4, <1>11
<1> QED
  BY <1>12 DEF PlayerInfo, s
-----------------------------------------------------------------------------
(* The tables, and where each of them lies.                                *)
TableCodes(ts) == [k \in 1 .. Len(ts) |-> TableCode(ts[k])]
TableAt(ts, n) == PartAt(0, 8, TableCodes(ts), n)

LEMMA TablesCodeIs ==
    ASSUME NEW ts \in Seq(TableType), Len(ts) < 2^8, \A t \in TableType : TableCode(t) \in Seq(BitValues)
    PROVE  /\ TablesCode(ts) \in Seq(BitValues)
           /\ UNat(TablesCode(ts), 0, 8) = Len(ts)
           /\ TablesCode(ts) = ToBits(Len(ts), 8) \o Flat(TableCodes(ts), Len(ts))
           /\ Parts(TableCodes(ts), Len(ts), BitValues)
<1> DEFINE N == Len(ts)
           F == TableCodes(ts)
           number == ToBits(N, 8)
           flat == Flat(F, N)
           code == TablesCode(ts)
<1>1. N \in Nat /\ N < 2^8 /\ DOMAIN ts = 1 .. N /\ \A k \in 1 .. N : ts[k] \in TableType
  OBVIOUS
<1>2. \A k \in 1 .. N : F[k] \in Seq(BitValues)
  <2>1. \A k \in 1 .. N : F[k] = TableCode(ts[k])
    BY DEF TableCodes
  <2> QED
    BY <1>1, <2>1
<1>3. F = [k \in 1 .. N |-> F[k]]
  BY DEF TableCodes
<1>4. code = number \o FlattenSeq(F)
  BY <1>1 DEF TablesCode, TableCodes
<1>5. Parts(F, N, BitValues)
  BY <1>1, <1>2 DEF Parts
<1>6. number = ToBits(Len(ts), 8) /\ flat = Flat(F, N)
  OBVIOUS
<1> HIDE DEF F, flat
<1>7. code = number \o flat
  <2>1. FlattenSeq(F) = Flat(F, N)
    BY <1>3, FlatWhole
  <2> QED
    BY <1>4, <1>6, <2>1
<1>8. flat \in Seq(BitValues)
  <2>1. N \in 0 .. N
    BY <1>1
  <2> QED
    BY <1>5, <1>6, <2>1, FlatTyped
<1>9. number \in Seq(BitValues) /\ Len(number) = 8
  <2>1. 8 \in Nat /\ 8 <= 30
    OBVIOUS
  <2> QED
    BY <1>1, <2>1, ToBitsIs
<1> HIDE DEF number, code
<1>10. code \in Seq(BitValues)
  BY <1>7, <1>8, <1>9, Joined, SMTT(30)
<1>11. UNat(code, 0, 8) = N
  <2>1. Has(code, 0, number)
    <3>1. Len(code) = Len(number) + Len(flat) /\ \A k \in 1 .. Len(number) : code[k] = number[k]
      <4>1. Len(code) = Len(number) + Len(flat)
        BY <1>7, <1>8, <1>9, Joined, ZenonT(30)
      <4>2. \A k \in 1 .. Len(number) : code[k] = number[k]
        BY <1>7, <1>8, <1>9, Joined, ZenonT(30)
      <4> QED
        BY <4>1, <4>2
    <3>2. Len(flat) \in Nat
      BY <1>8
    <3>3. \A k \in 1 .. Len(number) : code[0 + k] = number[k]
      BY <1>9, <3>1
    <3>4. 0 + Len(number) <= Len(code)
      BY <1>9, <3>1, <3>2
    <3> QED
      BY <3>3, <3>4 DEF Has
  <2>2. 0 \in Nat /\ 8 \in 0 .. 16
    OBVIOUS
  <2> QED
    BY <1>1, <1>6, <1>10, <2>1, <2>2, NumberRead
<1> QED
  BY <1>5, <1>6, <1>7, <1>10, <1>11 DEF F, code

(* Whatever is recorded; of a table that is taken for userinfo, the rows.  *)
UserRows == UserinfoTable(<<>>).rows
IsRecorded(t) ==
    /\ t \in TableType
    /\ \A z \in 1 .. Len(t.rows) : Len(t.rows[z].string) < StringLimit
    /\ IsUserInfo(Left(t.name, NameSize)) => t.rows = UserRows
AreRecorded(ts) ==
    /\ ts \in Seq(TableType) /\ Len(ts) < 2^8
    /\ \A n \in 1 .. Len(ts) : IsRecorded(ts[n])
Recorded(ts) == AreRecorded(ts) /\ data = TablesCode(ts)

LEMMA TableCodeTyped ==
    ASSUME data \in Seq(BitValues)
    PROVE  \A t \in TableType : TableCode(t) \in Seq(BitValues)
  BY TableRead

LEMMA TablesRead ==
    ASSUME data \in Seq(BitValues), NEW ts, Recorded(ts)
    PROVE  /\ Len(ts) \in Nat
           /\ TableAt(ts, 0) = 8 /\ TableAt(ts, Len(ts)) = Len(data)
           /\ \A n \in 0 .. Len(ts) : TableAt(ts, n) \in Nat
           /\ \A n \in 0 .. Len(ts) : \A m \in 1 .. Len(ts) : m = n + 1 =>
                /\ Has(data, TableAt(ts, n), TableCode(ts[m]))
                /\ TableAt(ts, m) = TableAt(ts, n) + Len(TableCode(ts[m]))
<1> DEFINE N == Len(ts)
           F == TableCodes(ts)
<1>1. /\ ts \in Seq(TableType) /\ N \in Nat /\ N < 2^8 /\ data = TablesCode(ts)
  BY DEF Recorded, AreRecorded
<1>2. data = ToBits(N, 8) \o Flat(F, N) /\ Parts(F, N, BitValues)
  BY <1>1, TableCodeTyped, TablesCodeIs
<1>3. \A k \in 1 .. N : F[k] = TableCode(ts[k])
  BY DEF TableCodes
<1>4. \A n : TableAt(ts, n) = PartAt(0, 8, F, n)
  BY DEF TableAt
<1>5. N = Len(ts)
  OBVIOUS
<1> HIDE DEF F, N
<1>6. ListIs(0, 8, F, N, data)
  <2>1. 0 \in Nat /\ 8 \in 0 .. 16
    OBVIOUS
  <2> QED
    BY <1>1, <1>2, <2>1, ListRead
<1>7. Has(data, 0, data)
  <2>1. \A k \in Nat : 0 + k = k
    OBVIOUS
  <2> QED
    BY <2>1 DEF Has
<1>8. 0 + Len(data) = Len(data) /\ 0 + 8 = 8
  OBVIOUS
<1> QED
  BY <1>1, <1>3, <1>4, <1>5, <1>6, <1>7, <1>8 DEF ListIs

(* A name that is not userinfo is not taken for it when it is cut off.     *)
LEMMA OtherNames ==
    ASSUME NEW name \in Seq(Letters), IsUserInfo(Left(name, NameSize))
    PROVE  name = Userinfo
<1> DEFINE few == Min({Len(name), NameSize - 1})
<1>1. Len(name) \in Nat /\ NameSize \in Nat /\ NameSize > 4
  BY LimitsAssumption
<1>2. few \in Int /\ few = IF Len(name) <= NameSize - 1 THEN Len(name) ELSE NameSize - 1
  <2>1. Len(name) \in Int /\ NameSize - 1 \in Int
    BY <1>1
  <2> QED
    BY <2>1, MinOfTwo
<1> HIDE DEF few
<1>3. Left(name, NameSize) = [k \in 1 .. few |-> name[k]]
  BY DEF Left, few
<1>4. Left(name, NameSize) = Userinfo
  BY DEF IsUserInfo
<1>5. few \in Nat
  BY <1>1, <1>2
<1>6. Len([k \in 1 .. few |-> name[k]]) = few /\ Len(Userinfo) = 3
  BY <1>5 DEF Userinfo
<1>7. few = 3
  BY <1>3, <1>4, <1>6
<1>8. few = Len(name)
  BY <1>1, <1>2, <1>7
<1>9. name = [k \in 1 .. Len(name) |-> name[k]]
  OBVIOUS
<1> QED
  BY <1>3, <1>4, <1>8, <1>9

(* The types of what Snapshot and its server keep.                         *)
ServerTyped ==
    /\ slots \in [Slots -> Users \union {Nobody}]
    /\ listed \subseteq Slots
    /\ \A s \in listed : slots[s] # Nobody

LEMMA UserRowsAre ==
    ASSUME ServerTyped
    PROVE  /\ UserRows \in RowsType /\ Len(UserRows) = MaxSlot + 1
           /\ \A k \in 0 .. MaxSlot : \A z \in 1 .. MaxSlot + 1 : z = k + 1 =>
                /\ Len(UserRows[z].string) < StringLimit
                /\ UserRows[z].userdata # <<>> <=> k \in listed
                /\ k \in listed => /\ slots[k] \in Users
                                   /\ UserRows[z].userdata = InfoBytes(slots[k])
<1> DEFINE Bits(k) == IF k \in listed THEN InfoBytes(slots[k]) ELSE <<>>
<1>1. MaxSlot \in Nat /\ MaxSlot + 48 \in Letters /\ StringLimit > 1 /\ StringLimit \in Nat
  BY MaxSlotAssumption, NumbersAssumption, LimitsAssumption
<1>2. UserRows = [z \in 1 .. MaxSlot + 1 |->
                    [string |-> <<48 + z - 1>>, userdata |-> Bits(z - 1)]]
  BY DEF UserRows, UserinfoTable
<1>3. \A k \in 0 .. MaxSlot :
          /\ Bits(k) \in Seq(Bytes) /\ Len(Bits(k)) < 2^16
          /\ Bits(k) # <<>> <=> k \in listed
          /\ k \in listed => slots[k] \in Users /\ Bits(k) = InfoBytes(slots[k])
  <2> SUFFICES ASSUME NEW k \in 0 .. MaxSlot
               PROVE  /\ Bits(k) \in Seq(Bytes) /\ Len(Bits(k)) < 2^16
                      /\ Bits(k) # <<>> <=> k \in listed
                      /\ k \in listed => slots[k] \in Users /\ Bits(k) = InfoBytes(slots[k])
    OBVIOUS
  <2>1. CASE k \in listed
    <3>1. slots[k] \in Users
      BY <2>1 DEF ServerTyped
    <3>2. InfoBytes(slots[k]) \in Seq(Bytes) /\ Len(InfoBytes(slots[k])) = 5
      BY <3>1, InfoBytesAre
    <3>3. InfoBytes(slots[k]) # <<>> /\ 5 < 2^16
      <4>1. \A u : u = <<>> => Len(u) # 5
        OBVIOUS
      <4> QED
        BY <3>2, <4>1
    <3> QED
      BY <2>1, <3>1, <3>2, <3>3
  <2>2. CASE k \notin listed
    BY <2>2
  <2> QED
    BY <2>1, <2>2
<1> HIDE DEF Bits
<1>4. \A k \in 0 .. MaxSlot : \A z \in 1 .. MaxSlot + 1 : z = k + 1 =>
          /\ UserRows[z] = [string |-> <<48 + k>>, userdata |-> Bits(k)]
          /\ 48 + k \in Letters
  <2> SUFFICES ASSUME NEW k \in 0 .. MaxSlot, NEW z \in 1 .. MaxSlot + 1, z = k + 1
               PROVE  /\ UserRows[z] = [string |-> <<48 + k>>, userdata |-> Bits(k)]
                      /\ 48 + k \in Letters
    OBVIOUS
  <2>1. z - 1 = k /\ 48 + z - 1 = 48 + k
    BY <1>1
  <2>2. UserRows[z] = [string |-> <<48 + z - 1>>, userdata |-> Bits(z - 1)]
    BY <1>2
  <2>3. 48 + k \in Letters
    BY <1>1 DEF Letters
  <2> QED
    BY <2>1, <2>2, <2>3
<1>5. \A k \in 0 .. MaxSlot : \A z \in 1 .. MaxSlot + 1 : z = k + 1 =>
          /\ UserRows[z] \in RowType /\ Len(UserRows[z].userdata) < 2^16
          /\ Len(UserRows[z].string) = 1 /\ UserRows[z].userdata = Bits(k)
  <2> SUFFICES ASSUME NEW k \in 0 .. MaxSlot, NEW z \in 1 .. MaxSlot + 1, z = k + 1
               PROVE  /\ UserRows[z] \in RowType /\ Len(UserRows[z].userdata) < 2^16
                      /\ Len(UserRows[z].string) = 1 /\ UserRows[z].userdata = Bits(k)
    OBVIOUS
  <2>1. UserRows[z] = [string |-> <<48 + k>>, userdata |-> Bits(k)] /\ 48 + k \in Letters
    BY <1>4
  <2>2. Bits(k) \in Seq(Bytes) /\ Len(Bits(k)) < 2^16
    BY <1>3
  <2>3. <<48 + k>> \in Seq(Letters) /\ Len(<<48 + k>>) = 1
    BY <2>1
  <2> QED
    BY <2>1, <2>2, <2>3 DEF RowType
<1>6. \A z \in 1 .. MaxSlot + 1 : \E k \in 0 .. MaxSlot : z = k + 1
  <2> SUFFICES ASSUME NEW z \in 1 .. MaxSlot + 1 PROVE \E k \in 0 .. MaxSlot : z = k + 1
    OBVIOUS
  <2>1. z - 1 \in 0 .. MaxSlot /\ z = (z - 1) + 1
    BY <1>1
  <2> QED
    BY <2>1
<1>7. UserRows = [z \in 1 .. MaxSlot + 1 |-> UserRows[z]]
  BY <1>2
<1>8. Len(UserRows) = MaxSlot + 1 /\ UserRows \in Seq(RowType)
  <2>1. \A z \in 1 .. MaxSlot + 1 : UserRows[z] \in RowType
    BY <1>5, <1>6
  <2>2. MaxSlot + 1 \in Nat
    BY <1>1
  <2> QED
    BY <1>7, <2>1, <2>2
<1>9. UserRows \in RowsType
  <2>1. \A z \in 1 .. Len(UserRows) : Len(UserRows[z].userdata) < 2^16
    BY <1>5, <1>6, <1>8
  <2>2. Len(UserRows) < 2^16
    BY <1>1, <1>8 DEF Letters
  <2> QED
    BY <1>8, <2>1, <2>2 DEF RowsType
<1> QED
  BY <1>1, <1>3, <1>5, <1>8, <1>9

(* What the command is recorded with.                                      *)
LEMMA OtherTablesAre ==
    ASSUME NEW ts \in OtherTables
    PROVE  ts \in Seq(TableType) /\ \A n \in 1 .. Len(ts) : IsRecorded(ts[n])
<1>1. /\ ts \in Seq(TableType)
      /\ \A n \in 1 .. Len(ts) :
            /\ ts[n].name # Userinfo
            /\ \A z \in 1 .. Len(ts[n].rows) : Len(ts[n].rows[z].string) < StringLimit
  BY DEF OtherTables
<1>2. ASSUME NEW n \in 1 .. Len(ts) PROVE IsRecorded(ts[n])
  <2>1. ts[n] \in TableType
    BY <1>1, SeqMember
  <2>2. ts[n].name \in Seq(Letters)
    BY <2>1 DEF TableType
  <2>3. ~IsUserInfo(Left(ts[n].name, NameSize))
    BY <1>1, <2>2, OtherNames
  <2> QED
    BY <1>1, <2>1, <2>3 DEF IsRecorded
<1> QED
  BY <1>1, <1>2

LEMMA UserinfoIs ==
    ASSUME ServerTyped, NEW clientside \in ClientSide
    PROVE  IsRecorded(UserinfoTable(clientside))
<1> DEFINE t == UserinfoTable(clientside)
<1>1. t.name = Userinfo /\ t.rows = UserRows /\ t.clientside = clientside
  BY DEF UserinfoTable, UserRows
<1>2. t = [name |-> t.name, rows |-> t.rows, clientside |-> t.clientside]
  BY DEF UserinfoTable
<1>3. clientside \in RowsType
  BY TablesAssumption
<1>4. Userinfo \in Seq(Letters)
  BY DEF Userinfo, Letters
<1>5. UserRows \in RowsType /\ Len(UserRows) = MaxSlot + 1
  BY UserRowsAre
<1> HIDE DEF t
<1>6. t \in TableType
  BY <1>1, <1>2, <1>3, <1>4, <1>5 DEF TableType
<1>7. \A z \in 1 .. Len(UserRows) : Len(UserRows[z].string) < StringLimit
  <2> SUFFICES ASSUME NEW z \in 1 .. MaxSlot + 1 PROVE Len(UserRows[z].string) < StringLimit
    BY <1>5
  <2>1. z - 1 \in 0 .. MaxSlot /\ z = (z - 1) + 1
    BY MaxSlotAssumption
  <2>2. PICK k \in 0 .. MaxSlot : z = k + 1
    BY <2>1
  <2> QED
    BY <2>2, UserRowsAre
<1> QED
  BY <1>1, <1>6, <1>7 DEF IsRecorded, t

LEMMA CommandIs ==
    ASSUME ServerTyped, NEW before \in TablesBefore, NEW clientside \in ClientSide,
           NEW behind \in TablesBehind
    PROVE  AreRecorded(before \o <<UserinfoTable(clientside)>> \o behind)
<1> DEFINE one == <<UserinfoTable(clientside)>>
           front == before \o one
           ts == front \o behind
<1>1. /\ before \in Seq(TableType) /\ \A n \in 1 .. Len(before) : IsRecorded(before[n])
      /\ behind \in Seq(TableType) /\ \A n \in 1 .. Len(behind) : IsRecorded(behind[n])
  BY TablesAssumption, OtherTablesAre
<1>2. one \in Seq(TableType) /\ Len(one) = 1 /\ one[1] = UserinfoTable(clientside)
  BY UserinfoIs DEF IsRecorded
<1>3. IsRecorded(one[1])
  BY <1>2, UserinfoIs
<1>4. Len(before) \in Nat /\ Len(behind) \in Nat /\ Len(before) + 1 + Len(behind) < 2^8
  BY <1>1, TablesAssumption
<1>0. front = before \o one /\ ts = front \o behind
  OBVIOUS
<1> HIDE DEF one, front, ts
<1>5. /\ front \in Seq(TableType) /\ Len(front) = Len(before) + 1
      /\ \A k \in 1 .. Len(before) : front[k] = before[k]
      /\ \A k \in 1 .. 1 : front[Len(before) + k] = one[k]
  <2>1. front \in Seq(TableType) /\ Len(front) = Len(before) + Len(one)
    BY <1>0, <1>1, <1>2, Joined, ZenonT(30)
  <2>2. \A k \in 1 .. Len(before) : front[k] = before[k]
    BY <1>0, <1>1, <1>2, Joined, SMTT(30)
  <2>3. \A k \in 1 .. Len(one) : front[Len(before) + k] = one[k]
    BY <1>0, <1>1, <1>2, Joined, SMTT(30)
  <2> QED
    BY <1>2, <2>1, <2>2, <2>3
<1>6. \A n \in 1 .. Len(front) : IsRecorded(front[n])
  <2> SUFFICES ASSUME NEW n \in 1 .. Len(before) + 1 PROVE IsRecorded(front[n])
    BY <1>5
  <2>1. CASE n \in 1 .. Len(before)
    BY <1>1, <1>5, <2>1
  <2>2. CASE n = Len(before) + 1
    <3>1. 1 \in 1 .. 1
      OBVIOUS
    <3> QED
      BY <1>3, <1>5, <2>2, <3>1
  <2> QED
    <3>1. n \in 1 .. Len(before) \/ n = Len(before) + 1
      BY <1>4
    <3> QED
      BY <2>1, <2>2, <3>1
<1>7. /\ ts \in Seq(TableType) /\ Len(ts) = Len(front) + Len(behind)
      /\ \A k \in 1 .. Len(front) : ts[k] = front[k]
      /\ \A k \in 1 .. Len(behind) : ts[Len(front) + k] = behind[k]
  <2>1. ts \in Seq(TableType) /\ Len(ts) = Len(front) + Len(behind)
    BY <1>0, <1>1, <1>5, Joined, ZenonT(30)
  <2>2. \A k \in 1 .. Len(front) : ts[k] = front[k]
    BY <1>0, <1>1, <1>5, Joined, SMTT(30)
  <2>3. \A k \in 1 .. Len(behind) : ts[Len(front) + k] = behind[k]
    BY <1>0, <1>1, <1>5, Joined, SMTT(30)
  <2> QED
    BY <2>1, <2>2, <2>3
<1>8. \A n \in 1 .. Len(ts) : IsRecorded(ts[n])
  <2> SUFFICES ASSUME NEW n \in 1 .. Len(ts) PROVE IsRecorded(ts[n])
    OBVIOUS
  <2>1. CASE n \in 1 .. Len(front)
    BY <1>6, <1>7, <2>1
  <2>2. CASE n \notin 1 .. Len(front)
    <3>1. n - Len(front) \in 1 .. Len(behind) /\ n = Len(front) + (n - Len(front))
      BY <1>4, <1>5, <1>7, <2>2
    <3>2. PICK k \in 1 .. Len(behind) : n = Len(front) + k
      BY <3>1
    <3> QED
      BY <1>1, <1>7, <3>2
  <2> QED
    BY <2>1, <2>2
<1>9. Len(ts) < 2^8
  BY <1>4, <1>5, <1>7
<1>10. AreRecorded(ts)
  BY <1>7, <1>8, <1>9 DEF AreRecorded
<1> QED
  BY <1>10 DEF ts, front, one

-----------------------------------------------------------------------------
(* The inductive invariant: the reader is at the beginning of one of the   *)
(* parts that were written, with as many tables and strings left as follow *)
(* there; and the player infos are made anew exactly while it is among the *)
(* rows of userinfo, at the row of that number.                            *)
Beside == snapshot = FALSE /\ row = 0

(* Within the table t that begins at p.                                    *)
InRows(p, t, k) ==
    /\ pc = "strings"
    /\ strings = Len(t.rows) - k
    /\ at = RowAt(RowsStart(p, t), t.rows, k)
    /\ isUserInfo = IsUserInfo(Left(t.name, NameSize))
    /\ IF isUserInfo THEN snapshot = TRUE /\ row = k ELSE Beside
InClient(p, t) ==
    /\ pc = "client" /\ Beside
    /\ t.clientside # <<>>
    /\ at = FlagStart(p, t) + 1
InClientRows(p, t, k) ==
    /\ pc = "client strings" /\ Beside
    /\ t.clientside # <<>>
    /\ strings = Len(t.clientside) - k
    /\ at = RowAt(FlagStart(p, t) + 1, t.clientside, k)
InTable(p, t) ==
    \/ \E k \in 0 .. Len(t.rows) : InRows(p, t, k)
    \/ InClient(p, t)
    \/ \E k \in 0 .. Len(t.clientside) : InClientRows(p, t, k)

(* In front of the n-th table, or behind the last; or in the next, m.      *)
Between(ts, n) == pc = "table" /\ Beside /\ tables = Len(ts) - n /\ at = TableAt(ts, n)
Within(ts, n, m) == m = n + 1 /\ tables = Len(ts) - n /\ InTable(TableAt(ts, n), ts[m])
AtPlace(ts) ==
    \/ \E n \in 0 .. Len(ts) : Between(ts, n)
    \/ \E n \in 0 .. Len(ts), m \in 1 .. Len(ts) : Within(ts, n, m)

Reads == {"table", "strings", "client", "client strings"}
Typed == ServerTyped /\ data \in Seq(BitValues) /\ pc \in Reads \union {"idle", "aborted"}
InReads == \E ts : Recorded(ts) /\ Len(data) <= 8 * BufferBytes /\ AtPlace(ts)
SnapshotInv ==
    /\ Typed
    /\ pc = "idle" => Beside
    /\ pc \in Reads => InReads
    /\ AssertionsHold

(* Where the reader is, by pc.                                             *)
LEMMA AtTable ==
    ASSUME SnapshotInv, pc = "table"
    PROVE  \E ts : /\ Recorded(ts) /\ Len(data) <= 8 * BufferBytes
                   /\ \E n \in 0 .. Len(ts) : Between(ts, n)
<1>1. PICK ts : Recorded(ts) /\ Len(data) <= 8 * BufferBytes /\ AtPlace(ts)
  BY DEF SnapshotInv, InReads, Reads
<1>2. \A n, m : ~Within(ts, n, m)
  BY DEF Within, InTable, InRows, InClient, InClientRows
<1> QED
  BY <1>1, <1>2 DEF AtPlace

LEMMA InATable ==
    ASSUME SnapshotInv, pc \in {"strings", "client", "client strings"}
    PROVE  \E ts : /\ Recorded(ts) /\ Len(data) <= 8 * BufferBytes
                   /\ \E n \in 0 .. Len(ts), m \in 1 .. Len(ts) : Within(ts, n, m)
<1>1. PICK ts : Recorded(ts) /\ Len(data) <= 8 * BufferBytes /\ AtPlace(ts)
  BY DEF SnapshotInv, InReads, Reads
<1>2. \A n : ~Between(ts, n)
  BY DEF Between
<1> QED
  BY <1>1, <1>2 DEF AtPlace

LEMMA ByPc ==
    ASSUME NEW p, NEW t, InTable(p, t)
    PROVE  /\ pc = "strings" => \E k \in 0 .. Len(t.rows) : InRows(p, t, k)
           /\ pc = "client" => InClient(p, t)
           /\ pc = "client strings" => \E k \in 0 .. Len(t.clientside) : InClientRows(p, t, k)
<1>1. \A k : InRows(p, t, k) => pc = "strings"
  BY DEF InRows
<1>2. InClient(p, t) => pc = "client"
  BY DEF InClient
<1>3. \A k : InClientRows(p, t, k) => pc = "client strings"
  BY DEF InClientRows
<1>4. \/ \E k \in 0 .. Len(t.rows) : InRows(p, t, k)
      \/ InClient(p, t)
      \/ \E k \in 0 .. Len(t.clientside) : InClientRows(p, t, k)
  BY DEF InTable
<1>5. "strings" # "client" /\ "client" # "client strings" /\ "strings" # "client strings"
  OBVIOUS
<1> QED
  BY <1>1, <1>2, <1>3, <1>4, <1>5, Zenon

(* The next table, as the reader knows it.                                 *)
LEMMA NextTable ==
    ASSUME SnapshotInv, NEW ts, Recorded(ts), NEW n \in 0 .. Len(ts), NEW m \in 1 .. Len(ts), m = n + 1
    PROVE  /\ IsRecorded(ts[m]) /\ TableAt(ts, n) \in Nat
           /\ Has(data, TableAt(ts, n), TableCode(ts[m]))
           /\ TableAt(ts, m) = TableAt(ts, n) + Len(TableCode(ts[m]))
           /\ TableAt(ts, n) + Len(TableCode(ts[m])) <= Len(data)
<1>1. data \in Seq(BitValues)
  BY DEF SnapshotInv, Typed
<1>2. IsRecorded(ts[m])
  BY DEF Recorded, AreRecorded
<1>3. /\ TableAt(ts, n) \in Nat
      /\ Has(data, TableAt(ts, n), TableCode(ts[m]))
      /\ TableAt(ts, m) = TableAt(ts, n) + Len(TableCode(ts[m]))
  BY <1>1, TablesRead
<1>4. TableAt(ts, n) + Len(TableCode(ts[m])) <= Len(data)
  BY <1>3 DEF Has
<1> QED
  BY <1>2, <1>3, <1>4

LEMMA RecordedTyped ==
    ASSUME NEW t, IsRecorded(t)
    PROVE  /\ t \in TableType /\ t.name \in Seq(Letters)
           /\ t.rows \in RowsType /\ t.clientside \in RowsType
           /\ Len(t.rows) \in Nat /\ Len(t.clientside) \in Nat
<1>1. t \in TableType
  BY DEF IsRecorded
<1>2. t.name \in Seq(Letters) /\ t.rows \in RowsType /\ t.clientside \in RowsType
  BY <1>1 DEF TableType
<1>3. \A rows \in RowsType : Len(rows) \in Nat
  BY DEF RowsType
<1> QED
  BY <1>1, <1>2, <1>3

(* What a step within the tables has to show.                              *)
LEMMA Reached ==
    ASSUME SnapshotInv, NEW ts, Recorded(ts), Len(data) <= 8 * BufferBytes,
           data' = data, slots' = slots, listed' = listed, pc' \in Reads, AtPlace(ts)'
    PROVE  SnapshotInv'
<1>1. ServerTyped'
  BY DEF SnapshotInv, Typed, ServerTyped, Slots, Nobody
<1>2. Typed'
  BY <1>1 DEF SnapshotInv, Typed
<1>3. UserRows' = UserRows
  BY DEF UserRows, UserinfoTable, InfoBytes
<1>4. Recorded(ts)'
  <2>1. \A t : IsRecorded(t) => IsRecorded(t)'
    BY <1>3 DEF IsRecorded, IsUserInfo, Left
  <2> QED
    BY <2>1 DEF Recorded, AreRecorded
<1>5. InReads'
  BY <1>4 DEF InReads
<1>6. pc' # "idle" /\ pc' # "aborted"
  BY DEF Reads
<1> QED
  BY <1>2, <1>5, <1>6 DEF SnapshotInv, AssertionsHold

-----------------------------------------------------------------------------
(* Each step keeps the invariant, and is a step of Players or none.        *)
LEMMA CommandStep ==
    ASSUME SnapshotInv, NEW before \in TablesBefore, NEW clientside \in ClientSide,
           NEW behind \in TablesBehind, dem_stringtables(before, clientside, behind)
    PROVE  SnapshotInv' /\ [Next]_vars
<1> DEFINE ts == before \o <<UserinfoTable(clientside)>> \o behind
<1>1. /\ pc = "idle" /\ pc' = "table" /\ data' = TablesCode(ts) /\ Len(data') <= 8 * BufferBytes
      /\ tables' = UNat(data', 0, 8) /\ at' = 8 /\ UNCHANGED vars
  BY DEF dem_stringtables
<1>2. AreRecorded(ts)
  BY CommandIs DEF SnapshotInv, Typed
<1>3. snapshot' = snapshot /\ row' = row /\ slots' = slots /\ listed' = listed
  BY <1>1 DEF vars
<1>4. UserRows' = UserRows
  BY <1>3 DEF UserRows, UserinfoTable, InfoBytes
<1> HIDE DEF ts
<1>5. PICK tt : tt = ts
  OBVIOUS
<1>6. AreRecorded(tt)'
  <2>1. AreRecorded(tt)
    BY <1>2, <1>5
  <2>2. \A t : IsRecorded(t) => IsRecorded(t)'
    BY <1>4 DEF IsRecorded, IsUserInfo, Left
  <2> QED
    BY <2>1, <2>2 DEF AreRecorded
<1>7. /\ TablesCode(tt) \in Seq(BitValues) /\ UNat(TablesCode(tt), 0, 8) = Len(tt)
      /\ Parts(TableCodes(tt), Len(tt), BitValues)
  <2>1. tt \in Seq(TableType) /\ Len(tt) < 2^8
    BY <1>2, <1>5 DEF AreRecorded
  <2>2. \A t \in TableType : TableCode(t) \in Seq(BitValues)
    BY TableCodeTyped DEF SnapshotInv, Typed
  <2> QED
    BY <2>1, <2>2, TablesCodeIs
<1>8. Recorded(tt)'
  BY <1>1, <1>5, <1>6 DEF Recorded
<1>9. TableAt(tt, 0) = 8
  <2>1. Len(Flat(TableCodes(tt), 0)) = 0
    BY FlatNothing
  <2> QED
    BY <2>1 DEF TableAt, PartAt
<1>10. AtPlace(tt)'
  <2>1. Beside'
    BY <1>1, <1>3 DEF SnapshotInv, Beside
  <2>2. Len(tt) \in Nat /\ Len(tt) - 0 = Len(tt) /\ 0 \in 0 .. Len(tt)
    BY <1>2, <1>5 DEF AreRecorded
  <2>3. tables' = Len(tt) - 0 /\ at' = TableAt(tt, 0)
    BY <1>1, <1>5, <1>7, <1>9, <2>2
  <2>4. Between(tt, 0)'
    BY <1>1, <2>1, <2>3 DEF Between, TableAt, PartAt
  <2> QED
    BY <2>2, <2>4 DEF AtPlace
<1>11. InReads'
  BY <1>1, <1>8, <1>10 DEF InReads
<1>12. ServerTyped'
  BY <1>3 DEF SnapshotInv, Typed, ServerTyped, Slots, Nobody
<1>13. Typed'
  BY <1>1, <1>5, <1>7, <1>12 DEF Typed, Reads
<1>14. pc' # "idle" /\ pc' # "aborted"
  BY <1>1
<1> QED
  BY <1>1, <1>11, <1>13, <1>14 DEF SnapshotInv, AssertionsHold

LEMMA ReadTableStep ==
    ASSUME SnapshotInv, ReadTable
    PROVE  SnapshotInv' /\ [Next]_vars
<1> DEFINE tablename == ReadString(at, NameSize)
<1>1. /\ pc = "table" /\ tables > 0 /\ pc' = "strings"
      /\ isUserInfo' = IsUserInfo(tablename.v)
      /\ strings' = WordAt[tablename.at] /\ at' = tablename.at + 16
      /\ IF isUserInfo' THEN ClearPlayers ELSE UNCHANGED vars
      /\ data' = data /\ tables' = tables
  BY DEF ReadTable
<1> HIDE DEF tablename
<1>2. PICK ts : /\ Recorded(ts) /\ Len(data) <= 8 * BufferBytes
                /\ \E n \in 0 .. Len(ts) : Between(ts, n)
  BY <1>1, AtTable
<1>3. PICK n \in 0 .. Len(ts) : Between(ts, n)
  BY <1>2
<1>4. Beside /\ tables = Len(ts) - n /\ at = TableAt(ts, n)
  BY <1>3 DEF Between
<1>5. PICK m \in 1 .. Len(ts) : m = n + 1
  <2>1. Len(ts) \in Nat
    BY <1>2 DEF Recorded, AreRecorded
  <2>2. n + 1 \in 1 .. Len(ts)
    BY <1>1, <1>4, <2>1
  <2> QED
    BY <2>2
<1>6. PICK t, p : t = ts[m] /\ p = TableAt(ts, n)
  OBVIOUS
<1>7. IsRecorded(t) /\ p \in Nat /\ Has(data, p, TableCode(t))
  BY <1>2, <1>5, <1>6, NextTable
<1>8. t \in TableType /\ t.name \in Seq(Letters) /\ t.rows \in RowsType /\ Len(t.rows) \in Nat
  BY <1>7, RecordedTyped
<1>9. data \in Seq(BitValues) /\ NameSize \in Nat
  BY LimitsAssumption DEF SnapshotInv, Typed
<1>10. /\ Has(data, p, StringZCode(t.name)) /\ RowsStart(p, t) \in Nat
       /\ Has(data, RowsStart(p, t), RowsCode(t.rows))
  BY <1>7, <1>8, <1>9, TableRead
<1>11. tablename.v = Left(t.name, NameSize) /\ tablename.at = RowsStart(p, t)
  <2>1. /\ ReadString(p, NameSize).v = Left(t.name, NameSize)
        /\ ReadString(p, NameSize).at = p + Len(StringZCode(t.name))
    BY <1>7, <1>8, <1>9, <1>10, StringRead
  <2> QED
    BY <1>4, <1>6, <2>1 DEF RowsStart, tablename
<1>12. WordAt[RowsStart(p, t)] = Len(t.rows) /\ RowAt(RowsStart(p, t), t.rows, 0) = RowsStart(p, t) + 16
  BY <1>8, <1>9, <1>10, RowsRead
<1>13. strings' = Len(t.rows) - 0 /\ at' = RowAt(RowsStart(p, t), t.rows, 0)
  BY <1>1, <1>8, <1>11, <1>12
<1>14. isUserInfo' = IsUserInfo(Left(t.name, NameSize))
  BY <1>1, <1>11
<1>15. /\ slots' = slots /\ listed' = listed
       /\ IF isUserInfo' THEN snapshot' = TRUE /\ row' = 0 ELSE snapshot' = FALSE /\ row' = 0
  BY <1>1, <1>4 DEF ClearPlayers, vars, Beside
<1>16. InRows(p, t, 0)'
  BY <1>1, <1>13, <1>14, <1>15
     DEF InRows, Beside, IsUserInfo, Left, RowAt, PartAt, RowsStart, RowCodes, RowCode
<1>17. AtPlace(ts)'
  <2>1. 0 \in 0 .. Len(t.rows)
    BY <1>8
  <2>2. InTable(p, t)'
    BY <1>16, <2>1 DEF InTable
  <2>3. Within(ts, n, m)'
    BY <1>1, <1>4, <1>5, <1>6, <2>2 DEF Within
  <2> QED
    BY <2>3 DEF AtPlace
<1>18. SnapshotInv'
  BY <1>1, <1>2, <1>15, <1>17, Reached DEF Reads
<1>19. [Next]_vars
  BY <1>1 DEF Next
<1> QED
  BY <1>18, <1>19

(* The reader is at a row of the table t, which begins at p.               *)
LEMMA AtRow ==
    ASSUME SnapshotInv, NEW p \in Nat, NEW t, IsRecorded(t), Has(data, p, TableCode(t)),
           NEW k \in 0 .. Len(t.rows), InRows(p, t, k), strings > 0
    PROVE  /\ k + 1 \in 1 .. Len(t.rows)
           /\ \A l \in 1 .. Len(t.rows) : l = k + 1 =>
                /\ at \in Nat /\ t.rows[l] \in RowType /\ Len(t.rows[l].userdata) < 2^16
                /\ Has(data, at, RowCode(t.rows[l]))
                /\ RowAt(RowsStart(p, t), t.rows, l) = at + Len(RowCode(t.rows[l]))
<1>1. /\ t \in TableType /\ t.rows \in RowsType /\ Len(t.rows) \in Nat
      /\ data \in Seq(BitValues)
  BY RecordedTyped DEF SnapshotInv, Typed
<1>2. strings = Len(t.rows) - k /\ at = RowAt(RowsStart(p, t), t.rows, k)
  BY DEF InRows
<1>3. k + 1 \in 1 .. Len(t.rows)
  BY <1>1, <1>2
<1>4. RowsStart(p, t) \in Nat /\ Has(data, RowsStart(p, t), RowsCode(t.rows))
  BY <1>1, TableRead
<1>5. PICK q \in Nat : q = RowsStart(p, t)
  BY <1>4
<1>6. PICK rows \in RowsType : rows = t.rows
  BY <1>1
<1>7. ASSUME NEW l \in 1 .. Len(rows), l = k + 1
      PROVE  /\ at \in Nat /\ rows[l] \in RowType /\ Len(rows[l].userdata) < 2^16
             /\ Has(data, at, RowCode(rows[l])) /\ RowAt(q, rows, l) = at + Len(RowCode(rows[l]))
  <2>1. k \in 0 .. Len(rows)
    BY <1>6
  <2>2. Has(data, q, RowsCode(rows))
    BY <1>4, <1>5, <1>6
  <2>3. /\ RowAt(q, rows, k) \in Nat /\ Has(data, RowAt(q, rows, k), RowCode(rows[l]))
        /\ RowAt(q, rows, l) = RowAt(q, rows, k) + Len(RowCode(rows[l]))
    <3>1. /\ \A n \in 0 .. Len(rows) : RowAt(q, rows, n) \in Nat
          /\ \A n \in 0 .. Len(rows) : \A m \in 1 .. Len(rows) : m = n + 1 =>
                /\ Has(data, RowAt(q, rows, n), RowCode(rows[m]))
                /\ RowAt(q, rows, m) = RowAt(q, rows, n) + Len(RowCode(rows[m]))
      BY <1>1, <2>2, RowsRead
    <3> QED
      BY <1>7, <2>1, <3>1
  <2>4. at = RowAt(q, rows, k)
    BY <1>2, <1>5, <1>6
  <2>5. rows \in Seq(RowType) /\ Len(rows[l].userdata) < 2^16
    BY DEF RowsType
  <2>6. rows[l] \in RowType
    BY <2>5, SeqMember
  <2> QED
    BY <2>3, <2>4, <2>5, <2>6
<1> QED
  BY <1>3, <1>5, <1>6, <1>7

LEMMA ReadRowStep ==
    ASSUME SnapshotInv, ReadRow
    PROVE  SnapshotInv' /\ [Next]_vars
<1>1. /\ pc = "strings" /\ strings > 0 /\ pc' = pc
      /\ s_PlayerInfos' = IF RowData.has /\ isUserInfo
                          THEN AddOrReplace(row, Info(row, RowData.bytes)) ELSE s_PlayerInfos
      /\ row' = IF isUserInfo THEN row + 1 ELSE row
      /\ strings' = strings - 1 /\ at' = RowData.end
      /\ snapshot' = snapshot /\ UNCHANGED server /\ data' = data /\ tables' = tables
      /\ isUserInfo' = isUserInfo
  BY DEF ReadRow
<1>2. PICK ts : /\ Recorded(ts) /\ Len(data) <= 8 * BufferBytes
                /\ \E n \in 0 .. Len(ts), m \in 1 .. Len(ts) : Within(ts, n, m)
  BY <1>1, InATable
<1>3. PICK n \in 0 .. Len(ts), m \in 1 .. Len(ts) : Within(ts, n, m)
  BY <1>2
<1>4. PICK t, p : t = ts[m] /\ p = TableAt(ts, n)
  OBVIOUS
<1>5. m = n + 1 /\ tables = Len(ts) - n /\ InTable(p, t)
  BY <1>3, <1>4 DEF Within
<1>6. IsRecorded(t) /\ p \in Nat /\ Has(data, p, TableCode(t))
  BY <1>2, <1>4, <1>5, NextTable
<1>7. PICK k \in 0 .. Len(t.rows) : InRows(p, t, k)
  BY <1>1, <1>5, ByPc
<1>8. /\ strings = Len(t.rows) - k /\ isUserInfo = IsUserInfo(Left(t.name, NameSize))
      /\ IF isUserInfo THEN snapshot = TRUE /\ row = k ELSE Beside
  BY <1>7 DEF InRows
<1>9. k + 1 \in 1 .. Len(t.rows) /\ Len(t.rows) \in Nat
  BY <1>1, <1>6, <1>7, AtRow, RecordedTyped
<1>10. PICK l \in 1 .. Len(t.rows) : l = k + 1
  BY <1>9
<1>11. /\ at \in Nat /\ t.rows[l] \in RowType /\ Len(t.rows[l].userdata) < 2^16
       /\ Has(data, at, RowCode(t.rows[l]))
       /\ RowAt(RowsStart(p, t), t.rows, l) = at + Len(RowCode(t.rows[l]))
  BY <1>1, <1>6, <1>7, <1>10, AtRow
<1>12. PICK r \in RowType : r = t.rows[l]
  BY <1>11
<1>13. /\ RowData.has \in BOOLEAN /\ (RowData.has <=> r.userdata # <<>>)
       /\ RowData.end = at + Len(RowCode(r))
       /\ RowData.has => RowData.bytes = r.userdata
  <2>1. data \in Seq(BitValues)
    BY DEF SnapshotInv, Typed
  <2> QED
    BY <1>11, <1>12, <2>1, RowRead
<1>14. at' = RowAt(RowsStart(p, t), t.rows, l)
  BY <1>1, <1>11, <1>12, <1>13
<1>15. strings' = Len(t.rows) - l
  BY <1>1, <1>8, <1>9, <1>10
<1>16. IF isUserInfo' THEN snapshot' = TRUE /\ row' = l ELSE Beside'
  <2>1. CASE isUserInfo
    BY <1>1, <1>8, <1>10, <2>1
  <2>2. CASE ~isUserInfo
    BY <1>1, <1>8, <2>2 DEF Beside
  <2> QED
    BY <2>1, <2>2
<1>17. InRows(p, t, l)'
  BY <1>1, <1>8, <1>14, <1>15, <1>16
     DEF InRows, IsUserInfo, Left, RowAt, PartAt, RowsStart, RowCodes, RowCode
<1>18. AtPlace(ts)'
  <2>1. l \in 0 .. Len(t.rows)
    BY <1>9
  <2>2. InTable(p, t)'
    BY <1>17, <2>1 DEF InTable
  <2>3. Within(ts, n, m)'
    BY <1>1, <1>4, <1>5, <2>2 DEF Within
  <2> QED
    BY <2>3 DEF AtPlace
<1>19. slots' = slots /\ listed' = listed
  BY <1>1 DEF server
<1>20. SnapshotInv'
  BY <1>1, <1>2, <1>18, <1>19, Reached DEF Reads
<1>21. [Next]_vars
  <2>1. CASE ~isUserInfo
    BY <1>1, <2>1 DEF vars, server
  <2>2. CASE isUserInfo
    <3>1. snapshot = TRUE /\ row = k /\ t.rows = UserRows
      BY <1>6, <1>8, <2>2 DEF IsRecorded
    <3>2. ServerTyped /\ MaxSlot \in Nat
      BY MaxSlotAssumption DEF SnapshotInv, Typed
    <3>3. Len(UserRows) = MaxSlot + 1
      BY <3>2, UserRowsAre
    <3>4. k \in 0 .. MaxSlot /\ l \in 1 .. MaxSlot + 1
      BY <1>9, <3>1, <3>2, <3>3
    <3>5. /\ r.userdata # <<>> <=> k \in listed
          /\ k \in listed => slots[k] \in Users /\ r.userdata = InfoBytes(slots[k])
      <4>1. r = UserRows[l]
        BY <1>12, <3>1
      <4> QED
        BY <1>10, <3>2, <3>4, <4>1, UserRowsAre
    <3>6. s_PlayerInfos' = IF row \in listed THEN AddOrReplace(row, PlayerInfo(row, slots[row]))
                           ELSE s_PlayerInfos
      <4>1. CASE k \in listed
        <5>1. RowData.has /\ RowData.bytes = InfoBytes(slots[k]) /\ slots[k] \in Users
          BY <1>13, <3>5, <4>1
        <5>2. Info(k, RowData.bytes) = PlayerInfo(k, slots[k])
          BY <5>1, InfoRead
        <5>3. s_PlayerInfos' = AddOrReplace(row, Info(row, RowData.bytes))
          BY <1>1, <2>2, <5>1
        <5> QED
          BY <3>1, <4>1, <5>2, <5>3
      <4>2. CASE k \notin listed
        <5>1. ~RowData.has
          BY <1>13, <3>5, <4>2
        <5> QED
          BY <1>1, <3>1, <4>2, <5>1
      <4> QED
        BY <4>1, <4>2
    <3>7. row <= MaxSlot /\ row' = row + 1
      BY <1>1, <2>2, <3>1, <3>4
    <3>8. AddRow
      BY <1>1, <3>1, <3>6, <3>7 DEF AddRow
    <3> QED
      BY <3>8 DEF Next
  <2> QED
    BY <2>1, <2>2
<1> QED
  BY <1>20, <1>21

(* The end of the rows; without strings of the client side, of the table.  *)
LEMMA TableEnds ==
    ASSUME SnapshotInv, NEW p \in Nat, NEW t, IsRecorded(t), Has(data, p, TableCode(t))
    PROVE  /\ RowAt(RowsStart(p, t), t.rows, Len(t.rows)) = FlagStart(p, t)
           /\ FlagStart(p, t) \in Nat
           /\ OneBit(data, FlagStart(p, t)) = 1 <=> t.clientside # <<>>
           /\ t.clientside = <<>> => FlagStart(p, t) + 1 = p + Len(TableCode(t))
           /\ t.clientside # <<>> =>
                /\ Has(data, FlagStart(p, t) + 1, RowsCode(t.clientside))
                /\ RowAt(FlagStart(p, t) + 1, t.clientside, Len(t.clientside))
                       = p + Len(TableCode(t))
<1>1. /\ t \in TableType /\ t.rows \in RowsType /\ t.clientside \in RowsType
      /\ data \in Seq(BitValues)
  BY RecordedTyped DEF SnapshotInv, Typed
<1>2. /\ RowsStart(p, t) \in Nat /\ FlagStart(p, t) \in Nat
      /\ p + Len(TableCode(t)) = FlagStart(p, t) + 1 + Len(ClientCode(t))
  BY <1>1, TableRead
<1>3. /\ Has(data, RowsStart(p, t), RowsCode(t.rows))
      /\ Has(data, FlagStart(p, t), Flag(t.clientside # <<>>))
      /\ Has(data, FlagStart(p, t) + 1, ClientCode(t))
  BY <1>1, TableRead
<1>4. RowAt(RowsStart(p, t), t.rows, Len(t.rows)) = FlagStart(p, t)
  <2>1. RowAt(RowsStart(p, t), t.rows, Len(t.rows)) = RowsStart(p, t) + Len(RowsCode(t.rows))
    BY <1>1, <1>2, RowsRead
  <2> QED
    BY <2>1 DEF FlagStart
<1>5. OneBit(data, FlagStart(p, t)) = 1 <=> t.clientside # <<>>
  BY <1>1, <1>2, <1>3, FlagRead
<1>6. ASSUME t.clientside = <<>> PROVE FlagStart(p, t) + 1 = p + Len(TableCode(t))
  <2>1. Len(ClientCode(t)) = 0
    BY <1>6 DEF ClientCode, Unless
  <2> QED
    BY <1>2, <2>1
<1>7. ASSUME t.clientside # <<>>
      PROVE  /\ Has(data, FlagStart(p, t) + 1, RowsCode(t.clientside))
             /\ RowAt(FlagStart(p, t) + 1, t.clientside, Len(t.clientside))
                    = p + Len(TableCode(t))
  <2>1. ClientCode(t) = RowsCode(t.clientside)
    BY <1>7 DEF ClientCode, Unless
  <2>2. PICK q \in Nat : q = FlagStart(p, t) + 1
    BY <1>2
  <2>3. RowAt(q, t.clientside, Len(t.clientside)) = q + Len(RowsCode(t.clientside))
    BY <1>1, RowsRead
  <2> QED
    BY <1>2, <1>3, <2>1, <2>2, <2>3
<1> QED
  BY <1>2, <1>4, <1>5, <1>6, <1>7

LEMMA EndRowsStep ==
    ASSUME SnapshotInv, EndRows
    PROVE  SnapshotInv' /\ [Next]_vars
<1>1. /\ pc = "strings" /\ strings = 0 /\ row' = 0 /\ snapshot' = FALSE
      /\ pc' = IF ClientSideFollows THEN "client" ELSE "table"
      /\ tables' = IF ClientSideFollows THEN tables ELSE tables - 1
      /\ at' = at + 1
      /\ s_PlayerInfos' = s_PlayerInfos /\ UNCHANGED server /\ data' = data
  BY DEF EndRows
<1>2. PICK ts : /\ Recorded(ts) /\ Len(data) <= 8 * BufferBytes
                /\ \E n \in 0 .. Len(ts), m \in 1 .. Len(ts) : Within(ts, n, m)
  BY <1>1, InATable
<1>3. PICK n \in 0 .. Len(ts), m \in 1 .. Len(ts) : Within(ts, n, m)
  BY <1>2
<1>4. PICK t, p : t = ts[m] /\ p = TableAt(ts, n)
  OBVIOUS
<1>5. m = n + 1 /\ tables = Len(ts) - n /\ InTable(p, t)
  BY <1>3, <1>4 DEF Within
<1>6. /\ IsRecorded(t) /\ p \in Nat /\ Has(data, p, TableCode(t))
      /\ TableAt(ts, m) = p + Len(TableCode(t))
  BY <1>2, <1>4, <1>5, NextTable
<1>7. PICK k \in 0 .. Len(t.rows) : InRows(p, t, k)
  BY <1>1, <1>5, ByPc
<1>8. /\ strings = Len(t.rows) - k /\ isUserInfo = IsUserInfo(Left(t.name, NameSize))
      /\ IF isUserInfo THEN snapshot = TRUE /\ row = k ELSE Beside
      /\ at = RowAt(RowsStart(p, t), t.rows, k)
  BY <1>7 DEF InRows
<1>9. k = Len(t.rows) /\ Len(t.rows) \in Nat /\ Len(ts) \in Nat
  <2>1. Len(t.rows) \in Nat
    BY <1>6, RecordedTyped
  <2>2. Len(ts) \in Nat
    BY <1>2 DEF Recorded, AreRecorded
  <2> QED
    BY <1>1, <1>8, <2>1, <2>2
<1>10. /\ at = FlagStart(p, t) /\ at \in Nat
       /\ ClientSideFollows <=> t.clientside # <<>>
       /\ t.clientside = <<>> => at + 1 = TableAt(ts, m)
  BY <1>6, <1>8, <1>9, TableEnds DEF ClientSideFollows
<1>11. slots' = slots /\ listed' = listed /\ Beside'
  BY <1>1 DEF server, Beside
<1>12. AtPlace(ts)'
  <2>1. CASE ClientSideFollows
    <3>1. pc' = "client" /\ tables' = tables /\ at' = FlagStart(p, t) + 1
      BY <1>1, <1>10, <2>1
    <3>2. InClient(p, t)'
      BY <1>10, <1>11, <2>1, <3>1
         DEF InClient, FlagStart, RowsStart, RowsCode, RowCode
    <3>3. InTable(p, t)'
      BY <3>2 DEF InTable
    <3>4. Within(ts, n, m)'
      BY <1>4, <1>5, <3>1, <3>3 DEF Within
    <3> QED
      BY <3>4 DEF AtPlace
  <2>2. CASE ~ClientSideFollows
    <3>1. pc' = "table" /\ tables' = tables - 1 /\ at' = TableAt(ts, m)
      BY <1>1, <1>10, <2>2
    <3>2. tables' = Len(ts) - m /\ m \in 0 .. Len(ts)
      BY <1>5, <1>9, <3>1
    <3>3. Between(ts, m)'
      BY <1>11, <3>1, <3>2 DEF Between
    <3> QED
      BY <3>2, <3>3 DEF AtPlace
  <2> QED
    BY <2>1, <2>2
<1>13. SnapshotInv'
  <2>1. pc' \in Reads
    BY <1>1 DEF Reads
  <2> QED
    BY <1>1, <1>2, <1>11, <1>12, <2>1, Reached
<1>14. [Next]_vars
  <2>1. CASE ~isUserInfo
    BY <1>1, <1>8, <2>1 DEF vars, server, Beside
  <2>2. CASE isUserInfo
    <3>1. snapshot = TRUE /\ row = k /\ t.rows = UserRows
      BY <1>6, <1>8, <2>2 DEF IsRecorded
    <3>2. ServerTyped /\ MaxSlot \in Nat
      BY MaxSlotAssumption DEF SnapshotInv, Typed
    <3>3. Len(UserRows) = MaxSlot + 1
      BY <3>2, UserRowsAre
    <3>4. row > MaxSlot
      BY <1>9, <3>1, <3>2, <3>3
    <3>5. EndSnapshot
      BY <1>1, <3>1, <3>4 DEF EndSnapshot
    <3> QED
      BY <3>5 DEF Next
  <2> QED
    BY <2>1, <2>2
<1> QED
  BY <1>13, <1>14

LEMMA ReadClientSideStep ==
    ASSUME SnapshotInv, ReadClientSide
    PROVE  SnapshotInv' /\ [Next]_vars
<1>1. /\ pc = "client" /\ strings' = WordAt[at] /\ at' = at + 16 /\ pc' = "client strings"
      /\ UNCHANGED vars /\ data' = data /\ tables' = tables
  BY DEF ReadClientSide
<1>2. PICK ts : /\ Recorded(ts) /\ Len(data) <= 8 * BufferBytes
                /\ \E n \in 0 .. Len(ts), m \in 1 .. Len(ts) : Within(ts, n, m)
  BY <1>1, InATable
<1>3. PICK n \in 0 .. Len(ts), m \in 1 .. Len(ts) : Within(ts, n, m)
  BY <1>2
<1>4. PICK t, p : t = ts[m] /\ p = TableAt(ts, n)
  OBVIOUS
<1>5. m = n + 1 /\ tables = Len(ts) - n /\ InTable(p, t)
  BY <1>3, <1>4 DEF Within
<1>6. IsRecorded(t) /\ p \in Nat /\ Has(data, p, TableCode(t))
  BY <1>2, <1>4, <1>5, NextTable
<1>7. Beside /\ t.clientside # <<>> /\ at = FlagStart(p, t) + 1
  BY <1>1, <1>5, ByPc DEF InClient
<1>8. FlagStart(p, t) \in Nat /\ Has(data, FlagStart(p, t) + 1, RowsCode(t.clientside))
  BY <1>6, <1>7, TableEnds
<1>9. t.clientside \in RowsType /\ Len(t.clientside) \in Nat /\ data \in Seq(BitValues)
  BY <1>6, RecordedTyped DEF SnapshotInv, Typed
<1>10. PICK q \in Nat : q = FlagStart(p, t) + 1
  BY <1>8
<1>11. WordAt[q] = Len(t.clientside) /\ RowAt(q, t.clientside, 0) = q + 16
  BY <1>8, <1>9, <1>10, RowsRead
<1>12. strings' = Len(t.clientside) - 0 /\ at' = RowAt(FlagStart(p, t) + 1, t.clientside, 0)
  <2>1. at = q
    BY <1>7, <1>10
  <2>2. strings' = Len(t.clientside)
    BY <1>1, <1>11, <2>1
  <2>3. at' = RowAt(q, t.clientside, 0)
    BY <1>1, <1>11, <2>1
  <2>4. Len(t.clientside) - 0 = Len(t.clientside)
    BY <1>9
  <2> QED
    BY <1>10, <2>2, <2>3, <2>4
<1>13. slots' = slots /\ listed' = listed /\ Beside'
  BY <1>1, <1>7 DEF vars, Beside
<1>14. InClientRows(p, t, 0)'
  BY <1>1, <1>7, <1>12, <1>13
     DEF InClientRows, RowAt, PartAt, FlagStart, RowsStart, RowsCode, RowCodes, RowCode
<1>15. AtPlace(ts)'
  <2>1. 0 \in 0 .. Len(t.clientside)
    BY <1>9
  <2>2. InTable(p, t)'
    BY <1>14, <2>1 DEF InTable
  <2>3. Within(ts, n, m)'
    BY <1>1, <1>4, <1>5, <2>2 DEF Within
  <2> QED
    BY <2>3 DEF AtPlace
<1>16. SnapshotInv'
  BY <1>1, <1>2, <1>13, <1>15, Reached DEF Reads
<1> QED
  BY <1>1, <1>16

LEMMA AtClientRow ==
    ASSUME SnapshotInv, NEW p \in Nat, NEW t, IsRecorded(t), Has(data, p, TableCode(t)),
           NEW k \in 0 .. Len(t.clientside), InClientRows(p, t, k), strings > 0
    PROVE  /\ k + 1 \in 1 .. Len(t.clientside)
           /\ \A l \in 1 .. Len(t.clientside) : l = k + 1 =>
                /\ RowData.has \in BOOLEAN /\ (RowData.has => RowData.size > 0)
                /\ RowData.end = RowAt(FlagStart(p, t) + 1, t.clientside, l)
<1>1. t.clientside \in RowsType /\ Len(t.clientside) \in Nat /\ data \in Seq(BitValues)
  BY RecordedTyped DEF SnapshotInv, Typed
<1>2. /\ t.clientside # <<>> /\ strings = Len(t.clientside) - k
      /\ at = RowAt(FlagStart(p, t) + 1, t.clientside, k)
  BY DEF InClientRows
<1>3. k + 1 \in 1 .. Len(t.clientside)
  BY <1>1, <1>2
<1>4. FlagStart(p, t) \in Nat /\ Has(data, FlagStart(p, t) + 1, RowsCode(t.clientside))
  BY <1>2, TableEnds
<1>5. PICK q \in Nat : q = FlagStart(p, t) + 1
  BY <1>4
<1>6. PICK rows \in RowsType : rows = t.clientside
  BY <1>1
<1>7. ASSUME NEW l \in 1 .. Len(rows), l = k + 1
      PROVE  /\ RowData.has \in BOOLEAN /\ (RowData.has => RowData.size > 0)
             /\ RowData.end = RowAt(q, rows, l)
  <2>1. k \in 0 .. Len(rows)
    BY <1>6
  <2>2. Has(data, q, RowsCode(rows))
    BY <1>4, <1>5, <1>6
  <2>3. /\ RowAt(q, rows, k) \in Nat /\ Has(data, RowAt(q, rows, k), RowCode(rows[l]))
        /\ RowAt(q, rows, l) = RowAt(q, rows, k) + Len(RowCode(rows[l]))
    <3>1. /\ \A n \in 0 .. Len(rows) : RowAt(q, rows, n) \in Nat
          /\ \A n \in 0 .. Len(rows) : \A m \in 1 .. Len(rows) : m = n + 1 =>
                /\ Has(data, RowAt(q, rows, n), RowCode(rows[m]))
                /\ RowAt(q, rows, m) = RowAt(q, rows, n) + Len(RowCode(rows[m]))
      BY <1>1, <2>2, RowsRead
    <3> QED
      BY <1>7, <2>1, <3>1
  <2>4. at = RowAt(q, rows, k)
    BY <1>2, <1>5, <1>6
  <2>5. rows \in Seq(RowType) /\ Len(rows[l].userdata) < 2^16
    BY DEF RowsType
  <2>6. PICK r \in RowType : r = rows[l]
    BY <2>5, SeqMember
  <2>7. /\ RowData.has \in BOOLEAN /\ (RowData.has <=> r.userdata # <<>>)
        /\ RowData.end = at + Len(RowCode(r))
        /\ RowData.has => RowData.size = Len(r.userdata)
    <3>1. at \in Nat /\ Has(data, at, RowCode(r)) /\ Len(r.userdata) < 2^16
      BY <2>3, <2>4, <2>5, <2>6
    <3> QED
      BY <1>1, <3>1, RowRead
  <2>8. r.userdata # <<>> => Len(r.userdata) > 0
    <3>1. r.userdata \in Seq(Bytes)
      BY DEF RowType
    <3> QED
      BY <3>1
  <2> QED
    BY <2>3, <2>4, <2>6, <2>7, <2>8
<1> QED
  BY <1>3, <1>5, <1>6, <1>7

LEMMA ReadClientRowStep ==
    ASSUME SnapshotInv, ReadClientRow
    PROVE  SnapshotInv' /\ [Next]_vars
<1>1. /\ pc = "client strings" /\ strings > 0 /\ strings' = strings - 1 /\ at' = RowData.end
      /\ UNCHANGED vars /\ data' = data /\ tables' = tables /\ pc' = pc
  BY DEF ReadClientRow
<1>2. PICK ts : /\ Recorded(ts) /\ Len(data) <= 8 * BufferBytes
                /\ \E n \in 0 .. Len(ts), m \in 1 .. Len(ts) : Within(ts, n, m)
  BY <1>1, InATable
<1>3. PICK n \in 0 .. Len(ts), m \in 1 .. Len(ts) : Within(ts, n, m)
  BY <1>2
<1>4. PICK t, p : t = ts[m] /\ p = TableAt(ts, n)
  OBVIOUS
<1>5. m = n + 1 /\ tables = Len(ts) - n /\ InTable(p, t)
  BY <1>3, <1>4 DEF Within
<1>6. IsRecorded(t) /\ p \in Nat /\ Has(data, p, TableCode(t))
  BY <1>2, <1>4, <1>5, NextTable
<1>7. PICK k \in 0 .. Len(t.clientside) : InClientRows(p, t, k)
  BY <1>1, <1>5, ByPc
<1>8. Beside /\ t.clientside # <<>> /\ strings = Len(t.clientside) - k
  BY <1>7 DEF InClientRows
<1>9. k + 1 \in 1 .. Len(t.clientside) /\ Len(t.clientside) \in Nat
  BY <1>1, <1>6, <1>7, AtClientRow, RecordedTyped
<1>10. PICK l \in 1 .. Len(t.clientside) : l = k + 1
  BY <1>9
<1>11. at' = RowAt(FlagStart(p, t) + 1, t.clientside, l)
  BY <1>1, <1>6, <1>7, <1>10, AtClientRow
<1>12. strings' = Len(t.clientside) - l
  <2>1. PICK c \in Nat : c = Len(t.clientside)
    BY <1>9
  <2>2. k \in 0 .. c /\ l = k + 1 /\ strings = c - k /\ strings' = strings - 1
    BY <1>1, <1>8, <1>10, <2>1
  <2>3. strings' = c - l
    BY <2>2
  <2> QED
    BY <2>1, <2>3
<1>13. slots' = slots /\ listed' = listed /\ Beside'
  BY <1>1, <1>8 DEF vars, Beside
<1>14. InClientRows(p, t, l)'
  BY <1>1, <1>8, <1>11, <1>12, <1>13
     DEF InClientRows, RowAt, PartAt, FlagStart, RowsStart, RowsCode, RowCodes, RowCode
<1>15. AtPlace(ts)'
  <2>1. l \in 0 .. Len(t.clientside)
    BY <1>9
  <2>2. InTable(p, t)'
    BY <1>14, <2>1 DEF InTable
  <2>3. Within(ts, n, m)'
    BY <1>1, <1>4, <1>5, <2>2 DEF Within
  <2> QED
    BY <2>3 DEF AtPlace
<1>16. SnapshotInv'
  BY <1>1, <1>2, <1>13, <1>15, Reached DEF Reads
<1> QED
  BY <1>1, <1>16

LEMMA EndClientRowsStep ==
    ASSUME SnapshotInv, EndClientRows
    PROVE  SnapshotInv' /\ [Next]_vars
<1>1. /\ pc = "client strings" /\ strings = 0 /\ pc' = "table" /\ tables' = tables - 1
      /\ UNCHANGED vars /\ data' = data /\ at' = at
  BY DEF EndClientRows
<1>2. PICK ts : /\ Recorded(ts) /\ Len(data) <= 8 * BufferBytes
                /\ \E n \in 0 .. Len(ts), m \in 1 .. Len(ts) : Within(ts, n, m)
  BY <1>1, InATable
<1>3. PICK n \in 0 .. Len(ts), m \in 1 .. Len(ts) : Within(ts, n, m)
  BY <1>2
<1>4. PICK t, p : t = ts[m] /\ p = TableAt(ts, n)
  OBVIOUS
<1>5. m = n + 1 /\ tables = Len(ts) - n /\ InTable(p, t)
  BY <1>3, <1>4 DEF Within
<1>6. /\ IsRecorded(t) /\ p \in Nat /\ Has(data, p, TableCode(t))
      /\ TableAt(ts, m) = p + Len(TableCode(t))
  BY <1>2, <1>4, <1>5, NextTable
<1>7. PICK k \in 0 .. Len(t.clientside) : InClientRows(p, t, k)
  BY <1>1, <1>5, ByPc
<1>8. /\ Beside /\ t.clientside # <<>> /\ strings = Len(t.clientside) - k
      /\ at = RowAt(FlagStart(p, t) + 1, t.clientside, k)
  BY <1>7 DEF InClientRows
<1>9. k = Len(t.clientside) /\ Len(ts) \in Nat
  <2>1. Len(t.clientside) \in Nat
    BY <1>6, RecordedTyped
  <2>2. Len(ts) \in Nat
    BY <1>2 DEF Recorded, AreRecorded
  <2>3. PICK c \in Nat : c = Len(t.clientside)
    BY <2>1
  <2>4. k \in 0 .. c /\ strings = c - k /\ strings = 0
    BY <1>1, <1>8, <2>3
  <2>5. k = c
    BY <2>4
  <2> QED
    BY <2>2, <2>3, <2>5
<1>10. at = TableAt(ts, m)
  BY <1>6, <1>8, <1>9, TableEnds
<1>11. slots' = slots /\ listed' = listed /\ Beside'
  BY <1>1, <1>8 DEF vars, Beside
<1>12. AtPlace(ts)'
  <2>1. tables' = Len(ts) - m /\ m \in 0 .. Len(ts)
    <3>1. PICK c \in Nat : c = Len(ts)
      BY <1>9
    <3>2. n \in 0 .. c /\ m = n + 1 /\ m \in 1 .. c /\ tables = c - n /\ tables' = tables - 1
      BY <1>1, <1>5, <3>1
    <3>3. tables' = c - m /\ m \in 0 .. c
      BY <3>2
    <3> QED
      BY <3>1, <3>3
  <2>2. Between(ts, m)'
    BY <1>1, <1>10, <1>11, <2>1 DEF Between
  <2> QED
    BY <2>1, <2>2 DEF AtPlace
<1>13. SnapshotInv'
  BY <1>1, <1>2, <1>11, <1>12, Reached DEF Reads
<1> QED
  BY <1>1, <1>13

(* Of the assertions of a row only the one about what is left can fail.    *)
LEMMA LessBehind ==
    ASSUME NEW p \in Nat, NEW q \in Nat, p <= q, GetNumBytesLeft(p) <= 10
    PROVE  GetNumBytesLeft(q) <= 10
<1>1. \A a, b \in Int : b <= a => b \div 8 <= a \div 8
  OBVIOUS
<1>2. 8 * BufferBytes - p \in Int /\ 8 * BufferBytes - q \in Int
  BY LimitsAssumption
<1>3. 8 * BufferBytes - q <= 8 * BufferBytes - p
  BY LimitsAssumption
<1>4. PICK a \in Int, b \in Int : a = 8 * BufferBytes - p /\ b = 8 * BufferBytes - q
  BY <1>2
<1>5. b \div 8 <= a \div 8
  BY <1>1, <1>3, <1>4
<1>6. a \div 8 <= 10
  BY <1>4 DEF GetNumBytesLeft
<1>7. b \div 8 <= 10
  <2>1. a \div 8 \in Int /\ b \div 8 \in Int
    OBVIOUS
  <2> QED
    BY <1>5, <1>6, <2>1
<1> QED
  BY <1>4, <1>7 DEF GetNumBytesLeft

LEMMA AbortStep ==
    ASSUME SnapshotInv, Abort
    PROVE  SnapshotInv' /\ [Next]_vars
<1>1. /\ pc' = "aborted" /\ UNCHANGED vars /\ data' = data
      /\ \/ pc = "strings" /\ strings > 0 /\ ~RowAsserted
         \/ pc = "client strings" /\ strings > 0 /\ ~ClientRowAsserted
  BY DEF Abort
<1>2. PICK ts : /\ Recorded(ts) /\ Len(data) <= 8 * BufferBytes
                /\ \E n \in 0 .. Len(ts), m \in 1 .. Len(ts) : Within(ts, n, m)
  BY <1>1, InATable
<1>3. PICK n \in 0 .. Len(ts), m \in 1 .. Len(ts) : Within(ts, n, m)
  BY <1>2
<1>4. PICK t, p : t = ts[m] /\ p = TableAt(ts, n)
  OBVIOUS
<1>5. m = n + 1 /\ InTable(p, t)
  BY <1>3, <1>4 DEF Within
<1>6. IsRecorded(t) /\ p \in Nat /\ Has(data, p, TableCode(t))
  BY <1>2, <1>4, <1>5, NextTable
<1>7. data \in Seq(BitValues)
  BY DEF SnapshotInv, Typed
<1>8. ~(pc = "client strings" /\ strings > 0 /\ ~ClientRowAsserted)
  <2> SUFFICES ASSUME pc = "client strings", strings > 0 PROVE ClientRowAsserted
    OBVIOUS
  <2>1. PICK k \in 0 .. Len(t.clientside) : InClientRows(p, t, k)
    BY <1>5, ByPc
  <2>2. k + 1 \in 1 .. Len(t.clientside)
    BY <1>6, <2>1, AtClientRow
  <2>3. PICK l \in 1 .. Len(t.clientside) : l = k + 1
    BY <2>2
  <2>4. RowData.has => RowData.size > 0
    BY <1>6, <2>1, <2>3, AtClientRow
  <2> QED
    BY <2>4 DEF ClientRowAsserted
<1>9. pc = "strings" /\ strings > 0 /\ ~RowAsserted
  BY <1>1, <1>8
<1>10. PICK k \in 0 .. Len(t.rows) : InRows(p, t, k)
  BY <1>5, <1>9, ByPc
<1>11. k + 1 \in 1 .. Len(t.rows)
  BY <1>6, <1>9, <1>10, AtRow
<1>12. PICK l \in 1 .. Len(t.rows) : l = k + 1
  BY <1>11
<1>13. /\ at \in Nat /\ t.rows[l] \in RowType /\ Len(t.rows[l].userdata) < 2^16
       /\ Has(data, at, RowCode(t.rows[l]))
  BY <1>6, <1>9, <1>10, <1>12, AtRow
<1>14. PICK r \in RowType : r = t.rows[l]
  BY <1>13
<1>15. /\ \E limit \in Nat : StringName.v = Left(r.string, limit)
       /\ RowData.has \in BOOLEAN /\ (RowData.has <=> r.userdata # <<>>)
       /\ RowData.end = at + Len(RowCode(r))
       /\ RowData.has => RowData.size = Len(r.userdata)
  BY <1>7, <1>13, <1>14, RowRead
<1>16. Len(StringName.v) < StringLimit
  <2>1. PICK limit \in Nat : StringName.v = Left(r.string, limit)
    BY <1>15
  <2>2. r.string \in Seq(Letters)
    BY DEF RowType
  <2>3. Len(StringName.v) <= Len(r.string)
    BY <2>1, <2>2, LeftIsNoLonger
  <2>4. Len(r.string) < StringLimit
    BY <1>6, <1>14 DEF IsRecorded
  <2>5. Len(StringName.v) \in Int /\ Len(r.string) \in Int /\ StringLimit \in Int
    <3>1. Len(StringName.v) \in Nat
      BY <2>1, <2>2, LeftIsNoLonger
    <3> QED
      BY <2>2, <3>1, LimitsAssumption
  <2> QED
    BY <2>3, <2>4, <2>5
<1>17. RowData.has => RowData.size > 0
  <2>1. r.userdata \in Seq(Bytes)
    BY DEF RowType
  <2>2. r.userdata # <<>> => Len(r.userdata) > 0
    BY <2>1
  <2> QED
    BY <1>15, <2>2
<1>18. ~(GetNumBytesLeft(RowData.end) > 10)
  BY <1>9, <1>16, <1>17 DEF RowAsserted
<1>19. RowData.end \in Nat /\ RowData.end <= Len(data) /\ Len(data) \in Nat
  <2>1. RowCode(r) \in Seq(BitValues)
    BY RowCodeIs
  <2>2. at + Len(RowCode(r)) <= Len(data)
    BY <1>13, <1>14 DEF Has
  <2> QED
    BY <1>7, <1>13, <1>15, <2>1, <2>2
<1>20. GetNumBytesLeft(RowData.end) <= 10
  <2>1. GetNumBytesLeft(RowData.end) \in Int
    BY <1>19, LimitsAssumption DEF GetNumBytesLeft
  <2> QED
    BY <1>18, <2>1
<1>21. GetNumBytesLeft(Len(data)) <= 10
  BY <1>19, <1>20, LessBehind
<1>22. AssertionsHold'
  BY <1>1, <1>21 DEF AssertionsHold, GetNumBytesLeft
<1>23. Typed'
  BY <1>1 DEF SnapshotInv, Typed, ServerTyped, Slots, Nobody, vars
<1> QED
  BY <1>1, <1>22, <1>23 DEF SnapshotInv, Reads

(* Behind the last table nothing is left.                                  *)
LEMMA NothingLeft ==
    ASSUME SnapshotInv, pc = "table", tables = 0
    PROVE  at = Len(data)
<1>1. PICK ts : Recorded(ts) /\ \E n \in 0 .. Len(ts) : Between(ts, n)
  BY AtTable
<1>2. PICK n \in 0 .. Len(ts) : Between(ts, n)
  BY <1>1
<1>3. data \in Seq(BitValues)
  BY DEF SnapshotInv, Typed
<1>4. Len(ts) \in Nat /\ TableAt(ts, Len(ts)) = Len(data)
  BY <1>1, <1>3, TablesRead
<1>5. tables = Len(ts) - n /\ at = TableAt(ts, n)
  BY <1>2 DEF Between
<1>6. n = Len(ts)
  BY <1>4, <1>5
<1> QED
  BY <1>4, <1>5, <1>6

LEMMA EndTablesStep ==
    ASSUME SnapshotInv, EndTables
    PROVE  SnapshotInv' /\ [Next]_vars
<1>1. /\ pc = "table" /\ pc' = "idle" /\ data' = <<>> /\ UNCHANGED vars
  BY DEF EndTables
<1>2. PICK ts : Recorded(ts) /\ \E n \in 0 .. Len(ts) : Between(ts, n)
  BY <1>1, AtTable
<1>3. Beside
  BY <1>2 DEF Between
<1>4. Typed'
  BY <1>1 DEF SnapshotInv, Typed, ServerTyped, Slots, Nobody, vars
<1>5. Beside' /\ pc' # "aborted" /\ pc' \notin Reads
  BY <1>1, <1>3 DEF Beside, vars, Reads
<1> QED
  BY <1>1, <1>4, <1>5 DEF SnapshotInv, AssertionsHold

LEMMA ElsewhereStep ==
    ASSUME SnapshotInv, Elsewhere
    PROVE  SnapshotInv' /\ [Next]_vars
<1>1. pc = "idle" /\ UNCHANGED readVars
  BY DEF Elsewhere
<1>2. PICK slot \in Slots :
          \/ \E user \in Users : Join(slot, user)
          \/ player_connect(slot) \/ player_disconnect(slot) \/ UpdateUserInfo(slot)
  BY DEF Elsewhere
<1>3. Beside /\ ServerTyped /\ pc' = "idle" /\ data' = data /\ Typed
  BY <1>1 DEF SnapshotInv, Typed, readVars
<1>4. \A user \in Users : user # Nobody
  BY UsersAssumption DEF Nobody
<1>5. ServerTyped' /\ snapshot' = snapshot /\ row' = row
  <2>1. ASSUME NEW user \in Users, Join(slot, user)
        PROVE  ServerTyped' /\ snapshot' = snapshot /\ row' = row
    BY <1>3, <1>4, <2>1 DEF Join, ServerTyped, Slots, Nobody
  <2>2. ASSUME player_connect(slot)
        PROVE  ServerTyped' /\ snapshot' = snapshot /\ row' = row
    BY <1>3, <2>2 DEF player_connect, Announce, ServerTyped, Slots, Nobody
  <2>3. ASSUME player_disconnect(slot)
        PROVE  ServerTyped' /\ snapshot' = snapshot /\ row' = row
    BY <1>3, <2>3 DEF player_disconnect, TakeOut, ServerTyped, Slots, Nobody
  <2>4. ASSUME UpdateUserInfo(slot)
        PROVE  ServerTyped' /\ snapshot' = snapshot /\ row' = row
    BY <1>3, <2>4 DEF UpdateUserInfo, ServerTyped, Slots, Nobody
  <2> QED
    BY <1>2, <2>1, <2>2, <2>3, <2>4
<1>6. SnapshotInv'
  <2>1. Typed'
    BY <1>3, <1>5 DEF Typed
  <2>2. Beside'
    BY <1>3, <1>5 DEF Beside
  <2>3. pc' \notin Reads /\ pc' # "aborted"
    BY <1>3 DEF Reads
  <2> QED
    BY <2>1, <2>2, <2>3 DEF SnapshotInv, AssertionsHold
<1>7. Next
  <2>1. ~snapshot
    BY <1>3 DEF Beside
  <2> QED
    BY <1>2, <2>1 DEF Next
<1> QED
  BY <1>6, <1>7

LEMMA SnapshotStep ==
    ASSUME SnapshotInv, [SnapshotNext]_snapshotVars
    PROVE  SnapshotInv' /\ [Next]_vars
<1>1. CASE UNCHANGED snapshotVars
  <2>1. UNCHANGED vars /\ UNCHANGED readVars
    BY <1>1 DEF snapshotVars
  <2>2. slots' = slots /\ listed' = listed /\ snapshot' = snapshot /\ row' = row
    BY <2>1 DEF vars
  <2>3. data' = data /\ at' = at /\ tables' = tables /\ strings' = strings
        /\ isUserInfo' = isUserInfo /\ pc' = pc
    BY <2>1 DEF readVars
  <2>4. CASE pc \in Reads
    <3>1. PICK ts : Recorded(ts) /\ Len(data) <= 8 * BufferBytes /\ AtPlace(ts)
      BY <2>4 DEF SnapshotInv, InReads
    <3>2. AtPlace(ts)'
      BY <2>2, <2>3, <3>1
         DEF AtPlace, Between, Within, InTable, InRows, InClient, InClientRows, Beside, IsUserInfo
    <3> QED
      BY <2>1, <2>2, <2>3, <2>4, <3>1, <3>2, Reached
  <2>5. CASE pc \notin Reads
    <3>1. Typed'
      BY <2>2, <2>3 DEF SnapshotInv, Typed, ServerTyped, Slots, Nobody
    <3>2. AssertionsHold'
      BY <2>3 DEF SnapshotInv, AssertionsHold, GetNumBytesLeft
    <3> QED
      BY <2>1, <2>2, <2>3, <2>5, <3>1, <3>2 DEF SnapshotInv, Beside
  <2> QED
    BY <2>4, <2>5
<1>2. CASE \E before \in TablesBefore, clientside \in ClientSide, behind \in TablesBehind :
              dem_stringtables(before, clientside, behind)
  BY <1>2, CommandStep
<1>3. CASE ReadTable
  BY <1>3, ReadTableStep
<1>4. CASE ReadRow
  BY <1>4, ReadRowStep
<1>5. CASE EndRows
  BY <1>5, EndRowsStep
<1>6. CASE ReadClientSide
  BY <1>6, ReadClientSideStep
<1>7. CASE ReadClientRow
  BY <1>7, ReadClientRowStep
<1>8. CASE EndClientRows
  BY <1>8, EndClientRowsStep
<1>9. CASE Abort
  BY <1>9, AbortStep
<1>10. CASE EndTables
  BY <1>10, EndTablesStep
<1>11. CASE Elsewhere
  BY <1>11, ElsewhereStep
<1> QED
  BY <1>1, <1>2, <1>3, <1>4, <1>5, <1>6, <1>7, <1>8, <1>9, <1>10, <1>11 DEF SnapshotNext, Reading

LEMMA SnapshotBegins == SnapshotInit => SnapshotInv
<1> SUFFICES ASSUME SnapshotInit PROVE SnapshotInv
  OBVIOUS
<1>1. /\ slots = [s \in Slots |-> Nobody] /\ listed = {} /\ row = 0 /\ snapshot = FALSE
      /\ data = <<>> /\ pc = "idle"
  BY DEF SnapshotInit, Init
<1>2. ServerTyped
  BY <1>1 DEF ServerTyped
<1>3. Typed
  BY <1>1, <1>2 DEF Typed
<1> QED
  BY <1>1, <1>3 DEF SnapshotInv, Beside, Reads, AssertionsHold

-----------------------------------------------------------------------------
(* No assertion fails on a snapshot that leaves the buffer more than ten   *)
(* bytes, whatever the tables, the players and the limits are: the asserts *)
(* of DumpStringTable hold of what a server writes.                        *)
THEOREM NoAssertionFails == SnapshotSpec => []AssertionsHold
<1>1. SnapshotInit => SnapshotInv
  BY SnapshotBegins
<1>2. SnapshotInv /\ [SnapshotNext]_snapshotVars => SnapshotInv'
  BY SnapshotStep
<1>3. SnapshotInv => AssertionsHold
  BY DEF SnapshotInv
<1> QED
  BY <1>1, <1>2, <1>3, PTL DEF SnapshotSpec

(* DumpStringTables leaves the buffer where the recorder stopped writing:  *)
(* neither a name that is cut off, nor user data of an unknown table, nor  *)
(* the strings of the client side put it out of step.                      *)
THEOREM SnapshotEndsInStep == SnapshotSpec => EndsInStep
<1>1. SnapshotInit => SnapshotInv
  BY SnapshotBegins
<1>2. SnapshotInv /\ [SnapshotNext]_snapshotVars => SnapshotInv'
  BY SnapshotStep
<1>3. SnapshotInv /\ [SnapshotNext]_snapshotVars
          => [pc # "idle" /\ pc' = "idle" => at = Len(data)]_snapshotVars
  <2> SUFFICES ASSUME SnapshotInv, SnapshotNext, pc # "idle", pc' = "idle" PROVE at = Len(data)
    BY DEF snapshotVars, vars, readVars
  <2>1. EndTables
    BY DEF SnapshotNext, Reading, dem_stringtables, ReadTable, ReadRow, EndRows,
           ReadClientSide, ReadClientRow, EndClientRows, Abort, Elsewhere
  <2> QED
    BY <2>1, NothingLeft DEF EndTables
<1> QED
  BY <1>1, <1>2, <1>3, PTL DEF SnapshotSpec, EndsInStep

(* Reading a snapshot from its bits is a step of Players for every row of  *)
(* userinfo, with the user ID and the flag that were recorded for that     *)
(* slot, and none for anything else in it.                                 *)
THEOREM SnapshotImplementsPlayers == SnapshotSpec => ImplementsPlayers
<1>1. SnapshotInit => SnapshotInv /\ Init
  BY SnapshotBegins DEF SnapshotInit
<1>2. SnapshotInv /\ [SnapshotNext]_snapshotVars => SnapshotInv' /\ [Next]_vars
  BY SnapshotStep
<1> QED
  BY <1>1, <1>2, PTL DEF SnapshotSpec, ImplementsPlayers, Spec
=============================================================================
