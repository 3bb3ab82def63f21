----------------------------- MODULE EntityData -----------------------------
(***************************************************************************)
(* The entity_data of a PacketEntities message, bit by bit: the header of  *)
(* each entity, its field indices and its values, as the loop over the     *)
(* entities and ReadNewEntity of src/demofiledump.cpp read them.  What is  *)
(* done with an entity is in Entities; here is how it is found.            *)
(*                                                                         *)
(* `sent' is what the server wrote, in the code of Encoding.  The data may *)
(* have lost its last bytes.                                               *)
(***************************************************************************)
EXTENDS Encoding

CONSTANTS
    Messages,           \* what a server may write: a sequence of entities
    Cuts,               \* by how many bytes the data may be too short
    flattenedProps,     \* the props of each class, from index 0
    s_nServerClassBits,
    Present,            \* the entities in the table, and their classes
    MaxFields           \* bound: after so many, reading indices is taken to go on

NUM_NETWORKED_EHANDLE_SERIAL_NUMBER_BITS == 10
ENTITY_SENTINEL == 9999
Classes == DOMAIN flattenedProps

VARIABLES
    sent,
    data,           \* the bits of entity_data
    at,             \* how many of them were read
    pc,             \* "header", "enter", "leave", "delta", "way", "indices", "values", "done", "abort"
    nHeaderBase,
    index,          \* the last field index
    fieldIndices,   \* those whose values are not read yet
    entity,         \* the one at hand, as far as it was read
    got,            \* those that were read
    table           \* the classes of the entities in the table

vars == <<sent, data, at, pc, nHeaderBase, index, fieldIndices, entity, got, table>>
-----------------------------------------------------------------------------
NoEntity ==
    [id |-> -1, kind |-> "delta", delete |-> FALSE, class |-> 0, serial |-> 0, way |-> FALSE,
     fields |-> <<>>]

(* What a server writes: entities in the order of their numbers, an update *)
(* only of one that is in the table, and of each the fields in the order   *)
(* of their indices.                                                       *)
Field(i, v) == [index |-> i, value |-> v]
Skips(fields, i) == fields[i].index - (IF i = 1 THEN -1 ELSE fields[i - 1].index) - 1
IsFields(props, fields) ==
    /\ IsRow(fields)
    /\ \A i \in 1 .. Len(fields) :
          /\ fields[i] = Field(fields[i].index, fields[i].value)
          /\ fields[i].index \in DOMAIN props
          /\ Skips(fields, i) \in Nat /\ Skips(fields, i) < 4095
          /\ PropHas(props[fields[i].index], fields[i].value)
IsEntity(e) ==
    /\ e.id \in 0 .. ENTITY_SENTINEL
    /\ \/ /\ e.kind = "leave" /\ e.delete \in BOOLEAN
          /\ e = [NoEntity EXCEPT !.id = e.id, !.kind = e.kind, !.delete = e.delete]
       \/ /\ e.kind \in {"enter", "delta"}
          /\ IF e.kind = "enter"
             THEN /\ e.class \in Classes /\ e.class < 2^s_nServerClassBits
                  /\ e.serial \in 0 .. 2^NUM_NETWORKED_EHANDLE_SERIAL_NUMBER_BITS - 1
             ELSE e.id \in DOMAIN Present /\ e.class = Present[e.id] /\ e.serial = 0
          /\ e.way \in BOOLEAN /\ IsFields(flattenedProps[e.class], e.fields)
          /\ e = [NoEntity EXCEPT !.id = e.id, !.kind = e.kind, !.class = e.class,
                      !.serial = e.serial, !.way = e.way, !.fields = e.fields]

ASSUME MessagesAssumption ==
    \A message \in Messages :
        /\ IsRow(message)
        /\ \A i \in 1 .. Len(message) :
              IsEntity(message[i]) /\ (i > 1 => message[i - 1].id < message[i].id)
ASSUME CutsAssumption == Cuts \subseteq Nat
ASSUME ClassesAssumption ==
    /\ Classes \subseteq Nat /\ 0 \in Classes /\ s_nServerClassBits \in 0 .. 16
    /\ \A class \in Classes : \A i \in DOMAIN flattenedProps[class] :
          i \in Nat /\ IsProp(flattenedProps[class][i])
    /\ \A id \in DOMAIN Present : id \in Nat /\ Present[id] \in Classes
-----------------------------------------------------------------------------
EntityCode(base, e) ==
    UBitVarCode(e.id - base - 1)
        \o (IF e.kind = "leave" THEN <<1>> \o Flag(e.delete)
            ELSE Flag(FALSE) \o Flag(e.kind = "enter"))
        \o Unless(e.kind # "enter",
                ToBits(e.class, s_nServerClassBits)
                    \o ToBits(e.serial, NUM_NETWORKED_EHANDLE_SERIAL_NUMBER_BITS))
        \o Unless(e.kind = "leave",
                Flag(e.way)
                    \o IndicesCode(e.way, [i \in DOMAIN e.fields |-> e.fields[i].index])
                    \o FlattenSeq([i \in DOMAIN e.fields |->
                            PropCode(flattenedProps[e.class][e.fields[i].index], e.fields[i].value)]))

MessageCode(message) ==
    FlattenSeq([i \in DOMAIN message |->
        EntityCode(IF i = 1 THEN -1 ELSE message[i - 1].id, message[i])])

Bytes(code) == Extend(code, 8 * ((Len(code) + 7) \div 8), 0)

Init ==
    /\ sent \in Messages
    /\ \E cut \in Cuts :
          LET whole == Bytes(MessageCode(sent))
          IN  8 * cut < Len(whole) /\ data = SubSeq(whole, 1, Len(whole) - 8 * cut)
    /\ at = 0 /\ pc = "header"
    /\ nHeaderBase = -1
    /\ index = -1 /\ fieldIndices = <<>>
    /\ entity = NoEntity /\ got = <<>>
    /\ table = Present
-----------------------------------------------------------------------------
ReadHeader ==
    /\ pc = "header"
    /\ Len(got) < Len(sent)
    /\ LET n == ReadUBitVar(data, at)
           id == nHeaderBase + 1 + n.v
           leaves == OneBit(data, n.at) = 1
           second == OneBit(data, n.at + 1) = 1
           kind == IF leaves THEN "leave" ELSE IF second THEN "enter" ELSE "delta"
       IN  /\ pc' = IF ~UBitVarAsserted(data, at) THEN "abort"
                    ELSE IF id > ENTITY_SENTINEL THEN "done" ELSE kind
           /\ nHeaderBase' = id
           /\ entity' = [NoEntity EXCEPT !.id = id, !.kind = kind, !.delete = leaves /\ second]
           /\ at' = n.at + 2
    /\ UNCHANGED <<sent, data, index, fieldIndices, got, table>>

EnterPVS ==
    /\ pc = "enter"
    /\ LET class == UNat(data, at, s_nServerClassBits)
           afterClass == at + s_nServerClassBits
       IN  /\ entity' = [entity EXCEPT !.class = class,
                  !.serial = UNat(data, afterClass, NUM_NETWORKED_EHANDLE_SERIAL_NUMBER_BITS)]
           /\ at' = afterClass + NUM_NETWORKED_EHANDLE_SERIAL_NUMBER_BITS
           /\ table' = [id \in DOMAIN table \union {entity.id} |->
                            IF id = entity.id THEN class ELSE table[id]]
    /\ pc' = "way"
    /\ UNCHANGED <<sent, data, nHeaderBase, index, fieldIndices, got>>

LeavePVS ==
    /\ pc = "leave"
    /\ table' = [id \in DOMAIN table \ {entity.id} |-> table[id]]
    /\ got' = Append(got, entity)
    /\ pc' = "header"
    /\ UNCHANGED <<sent, data, at, nHeaderBase, index, fieldIndices, entity>>

DeltaEnt ==
    /\ pc = "delta"
    /\ IF entity.id \in DOMAIN table
       THEN pc' = "way" /\ entity' = [entity EXCEPT !.class = table[entity.id]]
       ELSE pc' = "abort" /\ entity' = entity
    /\ UNCHANGED <<sent, data, at, nHeaderBase, index, fieldIndices, got, table>>

(* ReadNewEntity: first how the indices are written.                       *)
ReadWay ==
    /\ pc = "way"
    /\ entity' = [entity EXCEPT !.way = OneBit(data, at) = 1]
    /\ at' = at + 1
    /\ index' = -1 /\ fieldIndices' = <<>>
    /\ pc' = "indices"
    /\ UNCHANGED <<sent, data, nHeaderBase, got, table>>

(* The next index, and where the reader is behind it.                      *)
(* Mutant: an index is counted from the last one, not from the next.       *)
SkippedFromLast(skipped) == index + skipped
FieldIndex(skipped) == index + 1 + skipped
PushIndex(skipped, behind) ==
    /\ index' = FieldIndex(skipped)
    /\ fieldIndices' = Append(fieldIndices, index')
    /\ at' = behind
    /\ UNCHANGED <<sent, data, pc, nHeaderBase, entity, got, table>>

ReadingIndices == pc = "indices" /\ Len(fieldIndices) <= MaxFields
IsNextIndex == entity.way /\ OneBit(data, at) = 1
IsShort == entity.way /\ OneBit(data, at) = 0 /\ OneBit(data, at + 1) = 1
AtSkipped == IF entity.way THEN at + 2 ELSE at

ReadNextIndex ==
    /\ ReadingIndices /\ IsNextIndex
    /\ PushIndex(0, at + 1)

ReadShortIndex ==
    /\ ReadingIndices /\ IsShort
    /\ PushIndex(UNat(data, at + 2, 3), at + 5)

ReadLongIndex ==
    /\ ReadingIndices /\ ~IsNextIndex /\ ~IsShort
    /\ SkippedAsserted(data, AtSkipped)
    /\ LET skipped == ReadSkipped(data, AtSkipped)
       IN  ~EndMarker(skipped.v) /\ PushIndex(skipped.v, skipped.at)

FailIndexAssertion ==
    /\ ReadingIndices /\ ~IsNextIndex /\ ~IsShort
    /\ ~SkippedAsserted(data, AtSkipped)
    /\ pc' = "abort"
    /\ UNCHANGED <<sent, data, at, nHeaderBase, index, fieldIndices, entity, got, table>>

EndIndices ==
    /\ ReadingIndices /\ ~IsNextIndex /\ ~IsShort
    /\ EndMarker(ReadSkipped(data, AtSkipped).v)
    /\ at' = ReadSkipped(data, AtSkipped).at
    /\ index' = -1
    /\ pc' = "values"
    /\ UNCHANGED <<sent, data, nHeaderBase, fieldIndices, entity, got, table>>

(* The loop goes on without end, as far as the model follows it.           *)
KeepReadingIndices == pc = "indices" /\ Len(fieldIndices) > MaxFields /\ UNCHANGED vars

(* GetSendPropByIndex and DecodeProp; if there is no such prop, "Bailing   *)
(* on this PacketEntities".                                                *)
DecodeField ==
    /\ pc = "values" /\ fieldIndices # <<>>
    /\ IF Head(fieldIndices) \in DOMAIN flattenedProps[entity.class]
       THEN LET prop == flattenedProps[entity.class][Head(fieldIndices)]
                decoded == DecodeProp(data, at, prop)
            IN  /\ entity' = [entity EXCEPT
                       !.fields = Append(@, Field(Head(fieldIndices), decoded.v))]
                /\ at' = decoded.at
                /\ fieldIndices' = Tail(fieldIndices)
                /\ pc' = pc
       ELSE pc' = "done" /\ UNCHANGED <<at, fieldIndices, entity>>
    /\ UNCHANGED <<sent, data, nHeaderBase, index, got, table>>

EndEntity ==
    /\ pc = "values" /\ fieldIndices = <<>>
    /\ got' = Append(got, entity)
    /\ pc' = "header"
    /\ UNCHANGED <<sent, data, at, nHeaderBase, index, fieldIndices, entity, table>>

Finished ==
    /\ pc = "header"
    /\ Len(got) = Len(sent)
    /\ pc' = "done"
    /\ UNCHANGED <<sent, data, at, nHeaderBase, index, fieldIndices, entity, got, table>>

Ended == pc \in {"done", "abort"} /\ UNCHANGED vars

Next ==
    \/ ReadHeader \/ EnterPVS \/ LeavePVS \/ DeltaEnt
    \/ ReadWay \/ ReadNextIndex \/ ReadShortIndex \/ ReadLongIndex
    \/ FailIndexAssertion \/ EndIndices \/ KeepReadingIndices
    \/ DecodeField \/ EndEntity \/ Finished
    \/ Ended

(* One thread reads, and waits for nothing.                                *)
Spec == Init /\ [][Next]_vars /\ WF_vars(Next)
-----------------------------------------------------------------------------
AllThere == Len(data) >= Len(MessageCode(sent))
AsSent(n) == SubSeq(sent, 1, n)

(* A float that is not scaled is left to NoScaleAsIs, by itself or within  *)
(* a vector or an array.                                                   *)
NotScaled(prop) == (IF prop.type = "Array" THEN prop.element ELSE prop).coding = "noscale"
IsNoScale(class, field) == NotScaled(flattenedProps[class][field.index])
Compared(e) ==
    [e EXCEPT !.fields = [i \in DOMAIN @ |->
        IF IsNoScale(e.class, @[i]) THEN [@[i] EXCEPT !.value = Zeros(32)] ELSE @[i]]]

TypeOK ==
    /\ at \in Nat
    /\ pc \in {"header", "enter", "leave", "delta", "way", "indices", "values", "done", "abort"}
    /\ nHeaderBase \in Nat \union {-1} /\ index \in Nat \union {-1}
    /\ \A i, j \in DOMAIN fieldIndices : i < j => fieldIndices[i] < fieldIndices[j]
    /\ Len(got) <= Len(sent)
    /\ \A id \in DOMAIN table : table[id] \in Classes

(* Every entity that was read from the data, and not from behind its end,  *)
(* is the one the server wrote: its number, what happens to it, its class, *)
(* and the index and the value of each field.                              *)
ReadAsSent ==
    pc = "header" /\ at <= Len(data) =>
        \A i \in DOMAIN got : Compared(got[i]) = Compared(sent[i])

(* The reader is where the next entity begins, as far as the data goes: no *)
(* code is read a bit too long or too short.                               *)
InStep ==
    pc = "header" /\ at <= Len(data) => at = Len(MessageCode(AsSent(Len(got))))

(* No assertion fails on whole data: all that the codes can say are told   *)
(* apart, and an entity that changes is in the table.                      *)
AssertionsHold == pc = "abort" => ~AllThere

(* The indices end with the marker the server wrote, never with one that   *)
(* is made up of what is behind the data.                                  *)
EndIsRead == [][pc = "indices" /\ pc' = "values" => at' <= Len(data)]_vars

(* Whole data is read to its end, and the loop over the indices of each    *)
(* entity with it.                                                         *)
WholeIsRead == AllThere => <>(pc = "done" /\ Len(got) = Len(sent))

(* demofilepropdecode.h:45, of SPROP_NOSCALE: "don't scale into range,     *)
(* just take value as is".                                                 *)
NoScaleAsIs ==
    pc = "header" /\ at <= Len(data) =>
        \A i \in DOMAIN got : \A j \in DOMAIN got[i].fields :
            IsNoScale(got[i].class, got[i].fields[j]) => got[i].fields[j] = sent[i].fields[j]
=============================================================================
