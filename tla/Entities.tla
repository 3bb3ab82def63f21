------------------------------ MODULE Entities ------------------------------
(***************************************************************************)
(* The entity table of src/demofiledump.cpp: s_Entities, kept up to date   *)
(* by the PacketEntities messages of a demo.  A message lists entities by  *)
(* ascending number; each of them enters, leaves, or changes some of its   *)
(* props.                                                                  *)
(*                                                                         *)
(* The other side is the server that wrote the messages.  It is modelled   *)
(* by what it has sent: `server' holds the entities it takes the reader to *)
(* know, and the values it sent for them since they entered.  A sound      *)
(* server changes only entities it knows, takes none away in a full        *)
(* update, and uses only props the class has; `sound' says whether it has  *)
(* been so far.                                                            *)
(***************************************************************************)
EXTENDS Integers, Sequences

CONSTANTS
    MaxEdict,       \* the largest entity number
    Classes,        \* server classes
    Serials,        \* serial numbers
    Names,          \* var_names of props
    Values,         \* values of props
    PropNames,      \* the var_names of each class's flattened props, in order
    MaxIndex        \* the largest field index a message may hold

ENTITY_SENTINEL == 9999

ASSUME MaxEdictAssumption == MaxEdict \in 0 .. ENTITY_SENTINEL
ASSUME PropNamesAssumption == PropNames \in [Classes -> Seq(Names)]
ASSUME MaxIndexAssumption == MaxIndex \in Nat

VARIABLES
    s_Entities,     \* the table, in the order of the vector
    pc,             \* "idle", "entity", "fields" or "abort"
    bAsDelta,       \* this message's is_delta
    nHeaderCount,   \* how many entities it has left
    nHeaderBase,    \* the last entity number it held
    pEntity,        \* the entry whose fields are being read, by its position
    fieldIndices,   \* the fields left to decode (they are in ascending order)
    server,         \* what the server has sent
    sound           \* whether it kept to the rules

vars == <<s_Entities, pc, bAsDelta, nHeaderCount, nHeaderBase, pEntity,
          fieldIndices, server, sound>>
header == <<bAsDelta, nHeaderCount, nHeaderBase>>

Ids == 0 .. MaxEdict
Props == [name : Names, value : Values]
Entries == [id : Ids, class : Classes, serial : Serials, props : Seq(Props)]

(* What the server knows of an entity: sent is a partial map of the names. *)
PartialMaps == UNION {[D -> Values] : D \in SUBSET Names}
Known == [class : Classes, serial : Serials, sent : PartialMaps]
-----------------------------------------------------------------------------
(* FindEntity: the position of the first entry of that number, 0 for NULL. *)
FindEntity(id) ==
    IF \E i \in DOMAIN s_Entities : s_Entities[i].id = id
    THEN CHOOSE i \in DOMAIN s_Entities :
            /\ s_Entities[i].id = id
            /\ \A j \in 1 .. i - 1 : s_Entities[j].id # id
    ELSE 0

(* Mutant: an entity that enters is added, whether or not it is there.     *)
AddAlways(id, class, serial) ==
    Append(s_Entities, [id |-> id, class |-> class, serial |-> serial, props |-> <<>>])
AddEntity(id, class, serial) ==
    IF FindEntity(id) = 0
    THEN Append(s_Entities,
            [id |-> id, class |-> class, serial |-> serial, props |-> <<>>])
    ELSE [s_Entities EXCEPT ![FindEntity(id)].class = class,
                            ![FindEntity(id)].serial = serial]

(* Mutant: the last entry goes, whichever it is.                           *)
RemoveLast(id) ==
    IF FindEntity(id) = 0 THEN s_Entities
    ELSE SubSeq(s_Entities, 1, Len(s_Entities) - 1)
RemoveEntity(id) ==
    IF FindEntity(id) = 0 THEN s_Entities
    ELSE [i \in 1 .. Len(s_Entities) - 1 |->
            IF i < FindEntity(id) THEN s_Entities[i] ELSE s_Entities[i + 1]]

(* EntityEntry::FindProp, by name.                                         *)
FindProp(props, name) ==
    IF \E i \in DOMAIN props : props[i].name = name
    THEN CHOOSE i \in DOMAIN props :
            /\ props[i].name = name
            /\ \A j \in 1 .. i - 1 : props[j].name # name
    ELSE 0

(* Mutant: a prop that is there keeps its value.                           *)
AddIfNewProp(props, name, value) ==
    IF FindProp(props, name) = 0
    THEN Append(props, [name |-> name, value |-> value])
    ELSE props
AddOrUpdateProp(props, name, value) ==
    IF FindProp(props, name) = 0
    THEN Append(props, [name |-> name, value |-> value])
    ELSE [props EXCEPT ![FindProp(props, name)].value = value]
-----------------------------------------------------------------------------
NothingSent == [n \in {} |-> n]

Init ==
    /\ s_Entities = <<>>
    /\ pc = "idle"
    /\ bAsDelta = FALSE /\ nHeaderCount = 0 /\ nHeaderBase = -1
    /\ pEntity = 0 /\ fieldIndices = {}
    /\ server = NothingSent
    /\ sound = TRUE

(* A message arrives.  In a full update the server starts afresh; the      *)
(* table stays as it is.                                                   *)
BeginMessage ==
    /\ pc = "idle"
    /\ bAsDelta' \in BOOLEAN
    /\ nHeaderCount' \in 0 .. MaxEdict + 1
    /\ nHeaderBase' = -1
    /\ server' = IF bAsDelta' THEN server ELSE NothingSent
    /\ pc' = "entity"
    /\ UNCHANGED <<s_Entities, pEntity, fieldIndices, sound>>

(* The next entity of the message has number id: the server leaves room    *)
(* for those still to come.                                                *)
NextEntity(id) ==
    /\ pc = "entity"
    /\ nHeaderCount - 1 >= 0
    /\ \E gap \in 0 .. MaxEdict - nHeaderBase - nHeaderCount :
          id = nHeaderBase + 1 + gap
    /\ id <= ENTITY_SENTINEL
    /\ nHeaderCount' = nHeaderCount - 1
    /\ nHeaderBase' = id
    /\ UNCHANGED bAsDelta

(* The first loop of ReadNewEntity reads all the field indices.            *)
ReadFieldIndices ==
    /\ fieldIndices' \in SUBSET (0 .. MaxIndex)
    /\ pc' = "fields"

EnterPVS(id, uClass, uSerialNum) ==
    /\ NextEntity(id)
    /\ s_Entities' = AddEntity(id, uClass, uSerialNum)
    /\ pEntity' = IF FindEntity(id) = 0 THEN Len(s_Entities) + 1 ELSE FindEntity(id)
    /\ ReadFieldIndices
    /\ server' = [i \in DOMAIN server \union {id} |->
            IF i = id
            THEN [class |-> uClass, serial |-> uSerialNum, sent |-> NothingSent]
            ELSE server[i]]
    /\ UNCHANGED sound

LeavePVS(id) ==
    /\ NextEntity(id)
    /\ IF bAsDelta
       THEN s_Entities' = RemoveEntity(id) /\ pc' = pc /\ sound' = sound
       ELSE s_Entities' = s_Entities /\ pc' = "abort" /\ sound' = FALSE
    /\ server' = [i \in DOMAIN server \ {id} |-> server[i]]
    /\ UNCHANGED <<pEntity, fieldIndices>>

DeltaEnt(id) ==
    /\ NextEntity(id)
    /\ sound' = (sound /\ id \in DOMAIN server)
    /\ IF FindEntity(id) = 0
       THEN pc' = "abort" /\ UNCHANGED <<pEntity, fieldIndices>>
       ELSE pEntity' = FindEntity(id) /\ ReadFieldIndices
    /\ UNCHANGED <<s_Entities, server>>

(* One round of the second loop of ReadNewEntity: GetSendPropByIndex,      *)
(* DecodeProp and AddOrUpdateProp.                                         *)
IsNextField(index) ==
    /\ pc = "fields"
    /\ index \in fieldIndices
    /\ \A i \in fieldIndices : index <= i

NameOf(index) == PropNames[s_Entities[pEntity].class][index + 1]
HasProp(index) == index < Len(PropNames[s_Entities[pEntity].class])

(* What the server knows it sent, if the entity is one it knows.           *)
Sent(id, name, value) ==
    IF id \notin DOMAIN server THEN server
    ELSE [server EXCEPT ![id].sent =
            [n \in DOMAIN server[id].sent \union {name} |->
                IF n = name THEN value ELSE server[id].sent[n]]]

DecodeField(index, value) ==
    /\ IsNextField(index)
    /\ HasProp(index)
    /\ s_Entities' = [s_Entities EXCEPT ![pEntity].props =
            AddOrUpdateProp(s_Entities[pEntity].props, NameOf(index), value)]
    /\ server' = Sent(s_Entities[pEntity].id, NameOf(index), value)
    /\ fieldIndices' = fieldIndices \ {index}
    /\ UNCHANGED <<pc, header, pEntity, sound>>

(* "Bailing on this PacketEntities": the rest of the message is not read.  *)
Bail(index) ==
    /\ IsNextField(index)
    /\ ~HasProp(index)
    /\ pc' = "idle"
    /\ fieldIndices' = {}
    /\ sound' = FALSE
    /\ UNCHANGED <<s_Entities, header, pEntity, server>>

EndFields ==
    /\ pc = "fields"
    /\ fieldIndices = {}
    /\ pc' = "entity"
    /\ UNCHANGED <<s_Entities, header, pEntity, fieldIndices, server, sound>>

Finished ==
    /\ pc = "entity"
    /\ nHeaderCount - 1 < 0
    /\ pc' = "idle"
    /\ UNCHANGED <<s_Entities, header, pEntity, fieldIndices, server, sound>>

(* A failed assertion has ended the program.                               *)
Aborted == pc = "abort" /\ UNCHANGED vars

Next ==
    \/ BeginMessage
    \/ \E id \in Ids :
          \/ \E c \in Classes, n \in Serials : EnterPVS(id, c, n)
          \/ LeavePVS(id)
          \/ DeltaEnt(id)
    \/ \E i \in 0 .. MaxIndex :
          \/ \E v \in Values : DecodeField(i, v)
          \/ Bail(i)
    \/ EndFields
    \/ Finished
    \/ Aborted

Spec == Init /\ [][Next]_vars
-----------------------------------------------------------------------------
TypeOK ==
    /\ s_Entities \in Seq(Entries)
    /\ pc \in {"idle", "entity", "fields", "abort"}
    /\ bAsDelta \in BOOLEAN
    /\ nHeaderCount \in 0 .. MaxEdict + 1
    /\ nHeaderBase \in -1 .. MaxEdict
    /\ pEntity \in Nat
    /\ fieldIndices \subseteq 0 .. MaxIndex
    /\ DOMAIN server \subseteq Ids
    /\ server \in [DOMAIN server -> Known]
    /\ sound \in BOOLEAN

(* FindEntity stops at the first entry of a number: there never is another *)
(* one behind it, which would come back to life when the first is removed. *)
UniqueIds ==
    \A i, j \in DOMAIN s_Entities :
        s_Entities[i].id = s_Entities[j].id => i = j

(* Nor does an entry hold two props of a name, of which FindProp would     *)
(* find the older.                                                         *)
UniqueProps ==
    \A e \in DOMAIN s_Entities :
        \A i, j \in DOMAIN s_Entities[e].props :
            s_Entities[e].props[i].name = s_Entities[e].props[j].name => i = j

(* The table is a map of maps, whatever messages came and broke off.       *)
IsMap == UniqueIds /\ UniqueProps

(* The assertions of the DeltaEnt and the LeavePVS case (demofiledump.cpp: *)
(* 1288 and 1251) hold as long as the server keeps to the rules: no        *)
(* sequence of messages makes it change an entity the table lost.          *)
NoneMissing == pc = "abort" => ~sound

(* The entity the server knows under a number is the one in the table, of  *)
(* the same class, whose props the changes are decoded with.               *)
SameEntity ==
    sound => \A id \in DOMAIN server :
        \E i \in DOMAIN s_Entities :
            /\ s_Entities[i].id = id
            /\ s_Entities[i].class = server[id].class
            /\ s_Entities[i].serial = server[id].serial

(* For each value the server sent since the entity entered, FindProp finds *)
(* the last one that it sent under that name.                              *)
LatestValue ==
    sound => \A i \in DOMAIN s_Entities :
        LET e == s_Entities[i] IN
        e.id \in DOMAIN server =>
            \A n \in DOMAIN server[e.id].sent :
                /\ FindProp(e.props, n) # 0
                /\ e.props[FindProp(e.props, n)].value = server[e.id].sent[n]

(* The table follows the server, entity by entity and value by value.      *)
FollowsServer == SameEntity /\ LatestValue

(* demofiledump.cpp:1118, of an entity that enters: "if entity already     *)
(* exists, then replace it".  The one that replaces it has the values that *)
(* were sent for it, and none of its predecessor's.                        *)
NoStaleProps ==
    pc = "idle" /\ sound => \A i \in DOMAIN s_Entities :
        s_Entities[i].id \in DOMAIN server =>
            \A p \in DOMAIN s_Entities[i].props :
                s_Entities[i].props[p].name \in DOMAIN server[s_Entities[i].id].sent
=============================================================================
