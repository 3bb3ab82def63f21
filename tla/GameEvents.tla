----------------------------- MODULE GameEvents -----------------------------
(***************************************************************************)
(* The game events of src/demofiledump.cpp: GetGameEventDescriptor,        *)
(* ParseGameEvent and ShowPlayerInfo.  An event is named by a number of    *)
(* the last list of events; it may change the player infos, and what is    *)
(* printed of it depends on the command line, on whether a match has       *)
(* started, on the player infos and on the entities of the players.        *)
(*                                                                         *)
(* An event names one player here: of the further ones of a death each is  *)
(* looked up like the first.                                               *)
(***************************************************************************)
EXTENDS Players, Options

CONSTANTS
    EventLists,     \* each a sequence of descriptors
    Updates         \* the sets of props that a message may carry at once

(* A list gives a number to one event.                                     *)
Descriptors == [eventid : Nat, name : STRING]
ASSUME EventListsAssumption ==
    \A list \in EventLists :
        /\ list \in Seq(Descriptors)
        /\ \A d, e \in DOMAIN list : list[d].eventid = list[e].eventid => d = e

VARIABLES
    m_GameEventList,
    s_bMatchStartOccured,
    s_Entities,     \* of each prop, the player it was sent for, if it is there
    printed,        \* what the last event was and what was printed of it
    events,         \* the server's list of events
    phase,          \* "warmup", "live", or "other" if the recording does not
                    \* begin with the warm-up of its only match
    sent,           \* the props that the server sent of each slot's player
    stale           \* the slots whose entity was not taken back from the last
                    \* player, but dropped without a message or entered over

eventVars == <<m_GameEventList, s_bMatchStartOccured, s_Entities, printed, events,
               phase, sent, stale>>
allVars == <<vars, mainVars, eventVars>>

(* The lines that show an entity, and the props that each needs.           *)
Lines ==
    [position |-> {"m_vecOrigin", "m_vecOrigin[2]"},
     facing   |-> {"m_angEyeAngles[0]", "m_angEyeAngles[1]"},
     team     |-> {"m_iTeamNum"}]
PropNames == UNION {Lines[l] : l \in DOMAIN Lines}

ASSUME UpdatesAssumption == Updates \subseteq SUBSET PropNames

Numbers == 0 .. MaxSlot + 1     \* of entities; that of the world is 0
NoProps == [p \in PropNames |-> Nobody]
-----------------------------------------------------------------------------
(* The first descriptor of that number; 0 for NULL.                        *)
GetGameEventDescriptor(eventid) ==
    LET found == {d \in DOMAIN m_GameEventList : m_GameEventList[d].eventid = eventid}
    IN  IF found = {} THEN 0 ELSE CHOOSE d \in found : \A e \in found : d <= e

NameOf(eventid) ==
    LET d == GetGameEventDescriptor(eventid)
    IN  IF d = 0 THEN "none" ELSE m_GameEventList[d].name

(* Mutant: the entity of a player has the number of his slot.              *)
SlotEntity(slot) == slot
PlayerEntity(slot) == slot + 1

(* The lines that ShowPlayerInfo prints of a player it finds.              *)
FindProp(entity, p) == s_Entities[entity][p]
LinesOf(user) ==
    LET entity == PlayerEntity(s_PlayerInfos[FindPlayerInfo(user)].entityID)
    IN  {l \in DOMAIN Lines : \A p \in Lines[l] : FindProp(entity, p) # Nobody}
ShowPlayerInfo(user, details) ==
    IF FindPlayerInfo(user) = 0 THEN {}
    ELSE {"player"} \union (IF details THEN LinesOf(user) ELSE {})

(* Mutant: the reports wait for a match whatever the options are.          *)
AlwaysWait == s_bMatchStartOccured
AllowDeathReport == "g_bSupressWarmupDeaths" \notin flags \/ s_bMatchStartOccured

If(condition, lines) == IF condition THEN lines ELSE {}
Prefixed(prefix, lines) == {<<prefix, l>> : l \in lines}

Skipped(name) == name = "player_footstep" /\ "g_bSupressFootstepEvents" \in flags

PlayerEvents == {"player_connect", "player_disconnect"}

(* What ParseGameEvent prints of an event that names a player.  A player   *)
(* who takes over the info of a slot is not reported as connected.         *)
Printed(name, user, isNew) ==
    IF name = "none" THEN If("g_bDumpGameEvents" \in flags, {<<"raw", "event">>})
    ELSE IF Skipped(name) THEN {}
    ELSE IF name \in PlayerEvents
    THEN If("g_bDumpGameEvents" \in flags /\ (name = "player_connect" => isNew),
            {<<"event", name>>})
    ELSE If(name = "player_death" /\ "g_bDumpDeaths" \in flags /\ AllowDeathReport,
            {<<"death", "line">>} \union Prefixed("death", ShowPlayerInfo(user, TRUE)))
         \union
         If("g_bDumpGameEvents" \in flags,
            {<<"event", name>>}
                \union Prefixed("event",
                           ShowPlayerInfo(user, "g_bShowExtraPlayerInfoInGameEvents" \in flags)))

Nothing == [name |-> "none", lines |-> {}]
-----------------------------------------------------------------------------
EventsInit ==
    /\ Init /\ MainInit
    /\ m_GameEventList = <<>>
    /\ s_bMatchStartOccured = FALSE
    /\ s_Entities = [n \in Numbers |-> NoProps]
    /\ printed = Nothing
    /\ events = <<>>
    /\ phase \in {"warmup", "other"}
    /\ sent = [s \in Slots |-> {}]
    /\ stale = {}

(* The program reads the next message: it is not at a snapshot.            *)
AtMessage == main = "dump" /\ ~snapshot /\ UNCHANGED mainVars
-----------------------------------------------------------------------------
(* Mutant: a list is put behind the one that is there.                     *)
MergeFrom(list) == m_GameEventList \o list
CopyFrom(list) == list

(* svc_GameEventList.                                                      *)
EventList(list) ==
    /\ AtMessage
    /\ events' = list
    /\ m_GameEventList' = CopyFrom(list)
    /\ printed' = Nothing
    /\ UNCHANGED <<vars, s_bMatchStartOccured, s_Entities, phase, sent, stale>>

(* ParseGameEvent, of an event that the server sends under its number.     *)
GameEvent(name, slot, user) ==
    /\ AtMessage
    /\ \E d \in DOMAIN events :
          /\ events[d].name = name
          /\ LET known == NameOf(events[d].eventid)
             IN  /\ s_PlayerInfos' = HandlePlayerConnectDisconnectEvents(known, slot, user)
                 /\ s_bMatchStartOccured' =
                        (s_bMatchStartOccured \/ known = "round_announce_match_start")
                 /\ printed' = [name |-> name,
                                lines |-> Printed(known, user, FindPlayerByEntity(slot) = 0)]
    /\ UNCHANGED <<m_GameEventList, s_Entities, events, sent, stale>>

Connect(slot) ==
    /\ Announce(slot)
    /\ GameEvent("player_connect", slot, slots[slot])
    /\ UNCHANGED phase

Disconnect(slot) ==
    /\ TakeOut(slot)
    /\ GameEvent("player_disconnect", slot, slots[slot])
    /\ UNCHANGED phase

(* Of an event that names no player; there is none with the user ID 0.     *)
NoUser == 0
ASSUME NoUserAssumption == NoUser \notin Users

MatchStart ==
    /\ GameEvent("round_announce_match_start", 0, NoUser)
    /\ phase' = IF phase = "warmup" THEN "live" ELSE "other"
    /\ UNCHANGED <<row, snapshot, server>>

(* The server goes on with the warm-up of another match.                   *)
NewWarmup ==
    /\ AtMessage
    /\ phase = "live" /\ phase' = "other"
    /\ printed' = Nothing
    /\ UNCHANGED <<vars, m_GameEventList, s_bMatchStartOccured, s_Entities, events, sent, stale>>

PlayerDoes(name, slot) ==
    /\ slots[slot] # Nobody
    /\ GameEvent(name, slot, slots[slot])
    /\ UNCHANGED <<phase, row, snapshot, server>>
-----------------------------------------------------------------------------
(* PacketEntities, as far as Entities says what it does to a player's      *)
(* entity: it changes, or enters, perhaps where the program has one, which *)
(* then keeps the props that do not come again;                            *)
UpdateEntity(slot, props) ==
    /\ AtMessage
    /\ slots[slot] # Nobody
    /\ s_Entities' = [s_Entities EXCEPT ![slot + 1] =
                        [p \in PropNames |-> IF p \in props THEN slots[slot] ELSE @[p]]]
    /\ sent' = [sent EXCEPT ![slot] = @ \union props]
    /\ printed' = Nothing
    /\ UNCHANGED <<vars, m_GameEventList, s_bMatchStartOccured, events, phase, stale>>

(* or leaves.                                                              *)
RemoveEntity(slot) ==
    /\ AtMessage
    /\ sent[slot] # {} \/ slot \in stale
    /\ s_Entities' = [s_Entities EXCEPT ![slot + 1] = NoProps]
    /\ sent' = [sent EXCEPT ![slot] = {}]
    /\ stale' = stale \ {slot}
    /\ printed' = Nothing
    /\ UNCHANGED <<vars, m_GameEventList, s_bMatchStartOccured, events, phase>>

(* A full update does not name the entities that are not there any more,   *)
(* and the program keeps them.                                             *)
FullUpdate ==
    LET dropped == {s \in Slots : slots[s] = Nobody /\ sent[s] # {}}
    IN  /\ AtMessage
        /\ dropped # {}
        /\ sent' = [s \in Slots |-> IF s \in dropped THEN {} ELSE sent[s]]
        /\ stale' = stale \union dropped
        /\ printed' = Nothing
        /\ UNCHANGED <<vars, m_GameEventList, s_bMatchStartOccured, s_Entities, events, phase>>

(* A slot may be given away while its last player's entity is still there: *)
(* nothing has then been sent for the next one.                            *)
JoinSlot(slot) ==
    /\ ~snapshot
    /\ \E user \in Users : Join(slot, user)
    /\ sent' = [sent EXCEPT ![slot] = {}]
    /\ stale' = IF sent[slot] = {} THEN stale ELSE stale \union {slot}

PlayersStep ==
    /\ main = "dump" /\ UNCHANGED mainVars
    /\ \/ \E slot \in Slots : JoinSlot(slot)
       \/ /\ \/ \E slot \in Slots : UpdateUserInfo(slot)
             \/ ClearPlayers \/ AddRow \/ EndSnapshot
          /\ UNCHANGED <<sent, stale>>
    /\ printed' = Nothing
    /\ UNCHANGED <<m_GameEventList, s_bMatchStartOccured, s_Entities, events, phase>>

(* DoDump begins by forgetting matches.                                    *)
Main ==
    /\ MainStep
    /\ s_bMatchStartOccured' = FALSE
    /\ UNCHANGED <<vars, m_GameEventList, s_Entities, printed, events, phase, sent, stale>>

EventsNext ==
    \/ Main
    \/ PlayersStep
    \/ \E list \in EventLists : EventList(list)
    \/ MatchStart
    \/ NewWarmup
    \/ FullUpdate
    \/ \E slot \in Slots :
          \/ Connect(slot)
          \/ Disconnect(slot)
          \/ \E name \in {"player_death", "player_footstep", "player_jump"} : PlayerDoes(name, slot)
          \/ \E props \in Updates : UpdateEntity(slot, props)
          \/ RemoveEntity(slot)

EventsSpec == EventsInit /\ [][EventsNext]_allVars
-----------------------------------------------------------------------------
EventsTypeOK ==
    /\ TypeOK
    /\ i \in 1 .. Len(argv) + 1
    /\ nFileArgument <= Len(argv) \/ argv = <<>>
    /\ flags \subseteq Dumps \union Suppressions
    /\ main \in {"arguments", "open", "exit", "dump"}
    /\ m_GameEventList \in EventLists \union {<<>>}
    /\ s_bMatchStartOccured \in BOOLEAN
    /\ s_Entities \in [Numbers -> [PropNames -> Users \union {Nobody}]]
    /\ phase \in {"warmup", "live", "other"}
    /\ sent \in [Slots -> SUBSET PropNames]
    /\ stale \subseteq Slots

(* The file that the command line names is the one that is opened, where   *)
(* the usage has it and where it is the only one; only a demo is dumped.   *)
OpensTheFile ==
    main \in {"exit", "dump"} => \A name \in DOMAIN Files : Named(name) => (main = "dump" <=> Opens(name))

(* An event is handled under the name by which the server sent it, also    *)
(* when another list of events has come.                                   *)
Understood == \A d \in DOMAIN events : NameOf(events[d].eventid) = events[d].name

(* Options in their documented order: a death is reported if it was asked  *)
(* for, and with -nowarmup only behind the warm-up, in a recording that    *)
(* begins with the warm-up of its only match.                              *)
DeathsAsAsked ==
    LET everyDeath == Everything \/ ~Given("nowarmup")
    IN  InOrder /\ printed.name = "player_death" /\ (everyDeath \/ phase # "other") =>
            (<<"death", "line">> \in printed.lines <=>
                (Everything \/ Given("deathscsv")) /\ (everyDeath \/ phase = "live"))

(* An event is dumped if it was asked for, footsteps unless they were not, *)
(* and shows an entity only if that was asked for too.                     *)
EventsAsAsked ==
    LET asked == \/ Everything
                 \/ /\ Given("gameevents")
                    /\ printed.name = "player_footstep" => ~Given("nofootsteps")
    IN  InOrder /\ printed # Nothing =>
        /\ <<"event", printed.name>> \in printed.lines => asked
        /\ asked /\ printed.name \notin PlayerEvents => <<"event", printed.name>> \in printed.lines
        /\ (\E l \in DOMAIN Lines : <<"event", l>> \in printed.lines) =>
                Everything \/ Given("extrainfo")

(* What was sent for a player is what is shown of him, however the slot    *)
(* was given away.  What was not is shown only where the entity of one who *)
(* had the slot before was never taken back: a full update dropped it      *)
(* without a message, or the player's own entered over it.                 *)
ShownIsHis ==
    \A user \in Users : FindPlayerInfo(user) # 0 =>
        LET slot == s_PlayerInfos[FindPlayerInfo(user)].entityID
        IN  \A l \in LinesOf(user) : \A p \in Lines[l] :
                \/ FindProp(PlayerEntity(slot), p) = user
                \/ slot \in stale /\ p \notin sent[slot]
=============================================================================
