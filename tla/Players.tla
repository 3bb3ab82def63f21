------------------------------ MODULE Players ------------------------------
(***************************************************************************)
(* s_PlayerInfos of src/demofiledump.cpp: who plays in which slot, learnt  *)
(* from two sources that know nothing of each other.  The userinfo string  *)
(* table tells it in updates and, for a dem_stringtables command, as a     *)
(* snapshot; the game events player_connect and player_disconnect tell it  *)
(* as well.                                                                *)
(*                                                                         *)
(* The other side is the game server: a player takes a free slot, is       *)
(* announced by an event and listed in userinfo, in either order, and      *)
(* leaves.  A user ID is never given twice.                                *)
(***************************************************************************)
EXTENDS Integers, Sequences

CONSTANTS
    MaxSlot,        \* the largest slot
    Users,          \* user IDs
    Bots            \* those of bots

ASSUME MaxSlotAssumption == MaxSlot \in Nat
ASSUME UsersAssumption == Users \subseteq Nat
ASSUME BotsAssumption == Bots \subseteq Users

Slots == 0 .. MaxSlot
Nobody == -1

VARIABLES
    s_PlayerInfos,  \* the vector of player infos
    row,            \* the row of the snapshot that DumpStringTable is at
    snapshot,       \* whether it is reading one
    slots,          \* the server's players
    announced,      \* the slots an event announced since the last snapshot
    listed,         \* the slots userinfo lists
    gone            \* the users that left

vars == <<s_PlayerInfos, row, snapshot, slots, announced, listed, gone>>
server == <<slots, announced, listed, gone>>

Infos == [entityID : Slots, userID : Users \union {-1}, fakeplayer : BOOLEAN]
-----------------------------------------------------------------------------
(* The first info of an entity or a user, by its position; 0 for NULL.     *)
FindPlayerByEntity(entityId) ==
    LET found == {i \in DOMAIN s_PlayerInfos : s_PlayerInfos[i].entityID = entityId}
    IN  IF found = {} THEN 0 ELSE CHOOSE i \in found : \A j \in found : i <= j
FindPlayerInfo(userId) ==
    LET found == {i \in DOMAIN s_PlayerInfos : s_PlayerInfos[i].userID = userId}
    IN  IF found = {} THEN 0 ELSE CHOOSE i \in found : \A j \in found : i <= j

PlayerInfo(slot, user) ==
    [entityID |-> slot, userID |-> user, fakeplayer |-> user \in Bots]

(* Mutant: the info is added even if the slot has one.                     *)
AlwaysAdd(slot, info) == Append(s_PlayerInfos, info)
(* Mutant: an info that is there is not replaced.                          *)
AddIfNone(slot, info) ==
    IF FindPlayerByEntity(slot) = 0 THEN Append(s_PlayerInfos, info)
    ELSE s_PlayerInfos
(* "add entity if it doesn't exist, update if it does"                     *)
AddOrReplace(slot, info) ==
    IF FindPlayerByEntity(slot) = 0 THEN Append(s_PlayerInfos, info)
    ELSE [s_PlayerInfos EXCEPT ![FindPlayerByEntity(slot)] = info]

(* Mutant: the info keeps its user ID.                                     *)
LeaveAsIs(user) == s_PlayerInfos
(* "mark the player info slot as disconnected"                             *)
MarkDisconnected(user) ==
    IF FindPlayerInfo(user) = 0 THEN s_PlayerInfos
    ELSE [s_PlayerInfos EXCEPT ![FindPlayerInfo(user)].userID = -1]
-----------------------------------------------------------------------------
Init ==
    /\ s_PlayerInfos = <<>>
    /\ row = 0 /\ snapshot = FALSE
    /\ slots = [s \in Slots |-> Nobody]
    /\ announced = {} /\ listed = {} /\ gone = {}

(* The server takes a player in; nothing is recorded of it yet.            *)
Join(slot, user) ==
    /\ slots[slot] = Nobody
    /\ user \notin gone
    /\ \A s \in Slots : slots[s] # user
    /\ slots' = [slots EXCEPT ![slot] = user]
    /\ UNCHANGED <<s_PlayerInfos, row, snapshot, announced, listed, gone>>

(* The server announces a player.                                          *)
Announce(slot) ==
    /\ ~snapshot
    /\ slots[slot] # Nobody
    /\ slot \notin announced
    /\ announced' = announced \union {slot}
    /\ UNCHANGED <<row, snapshot, slots, listed, gone>>

(* It takes one out, of userinfo at the same time; an update without user  *)
(* data changes no player info.                                            *)
TakeOut(slot) ==
    /\ ~snapshot
    /\ slots[slot] # Nobody
    /\ slots' = [slots EXCEPT ![slot] = Nobody]
    /\ announced' = announced \ {slot}
    /\ listed' = listed \ {slot}
    /\ gone' = gone \union {slots[slot]}
    /\ UNCHANGED <<row, snapshot>>

(* What an event of that name makes of the player infos.                   *)
HandlePlayerConnectDisconnectEvents(name, slot, user) ==
    CASE name = "player_connect"    -> AddOrReplace(slot, PlayerInfo(slot, user))
      [] name = "player_disconnect" -> MarkDisconnected(user)
      [] OTHER                      -> s_PlayerInfos

player_connect(slot) ==
    /\ Announce(slot)
    /\ s_PlayerInfos' =
            HandlePlayerConnectDisconnectEvents("player_connect", slot, slots[slot])

player_disconnect(slot) ==
    /\ TakeOut(slot)
    /\ s_PlayerInfos' =
            HandlePlayerConnectDisconnectEvents("player_disconnect", slot, slots[slot])

(* One entry of ParseStringTableUpdate, with user data, for userinfo.      *)
UpdateUserInfo(slot) ==
    /\ ~snapshot
    /\ slots[slot] # Nobody
    /\ s_PlayerInfos' = AddOrReplace(slot, PlayerInfo(slot, slots[slot]))
    /\ listed' = listed \union {slot}
    /\ UNCHANGED <<row, snapshot, slots, announced, gone>>

(* DumpStringTable of userinfo: it begins by clearing the vector,          *)
ClearPlayers ==
    /\ ~snapshot
    /\ snapshot' = TRUE
    /\ row' = 0
    /\ s_PlayerInfos' = <<>>
    /\ announced' = {}
    /\ UNCHANGED <<slots, listed, gone>>

(* then adds the rows that have user data,                                 *)
AddRow ==
    /\ snapshot
    /\ row <= MaxSlot
    /\ row' = row + 1
    /\ s_PlayerInfos' = IF row \in listed
                        THEN AddOrReplace(row, PlayerInfo(row, slots[row]))
                        ELSE s_PlayerInfos
    /\ UNCHANGED <<snapshot, server>>

(* up to the last of them.                                                 *)
EndSnapshot ==
    /\ snapshot
    /\ row > MaxSlot
    /\ snapshot' = FALSE
    /\ row' = 0
    /\ UNCHANGED <<s_PlayerInfos, server>>

Next ==
    \/ \E slot \in Slots :
          \/ ~snapshot /\ \E user \in Users : Join(slot, user)
          \/ player_connect(slot)
          \/ player_disconnect(slot)
          \/ UpdateUserInfo(slot)
    \/ ClearPlayers
    \/ AddRow
    \/ EndSnapshot

Spec == Init /\ [][Next]_vars
-----------------------------------------------------------------------------
TypeOK ==
    /\ s_PlayerInfos \in Seq(Infos)
    /\ Len(s_PlayerInfos) <= MaxSlot + 1
    /\ row \in 0 .. MaxSlot + 1
    /\ snapshot \in BOOLEAN
    /\ slots \in [Slots -> Users \union {Nobody}]
    /\ announced \subseteq Slots
    /\ listed \subseteq Slots
    /\ gone \subseteq Users

(* The two sources never put two infos in for one slot, of which           *)
(* FindPlayerByEntity would replace the first and leave the other to be    *)
(* found by its user ID.                                                   *)
UniqueSlots ==
    \A i, j \in DOMAIN s_PlayerInfos :
        s_PlayerInfos[i].entityID = s_PlayerInfos[j].entityID => i = j

(* A player that was announced since the last snapshot, or is listed, is   *)
(* found by its user ID, in the slot it plays in, and as the bot it is or  *)
(* is not: whatever order the events, the updates and the snapshots come   *)
(* in, and whoever had the slot before.                                    *)
RightSlot ==
    ~snapshot => \A s \in announced \union listed :
        LET i == FindPlayerInfo(slots[s])
        IN  i # 0 /\ s_PlayerInfos[i] = PlayerInfo(s, slots[s])

(* A player that left is not found again, not even after a later snapshot. *)
GoneUnknown == \A u \in gone : FindPlayerInfo(u) = 0

(* demofiledump.cpp:1578, of the info that a row of the snapshot would     *)
(* replace: "shouldn't ever exist, but just incase".  It does not.         *)
RowsAreNew ==
    snapshot => \A i \in DOMAIN s_PlayerInfos : s_PlayerInfos[i].entityID < row
=============================================================================
