# A TLA+ model of demoinfogo

`demoinfogo` reads a CS:GO demo file (`.dem`) and prints what is in it.  It is
one thread and one pass: there is no concurrency and nothing is written.  What
makes it hard is that it decodes a *stateful* stream.  Nothing in the file says
where a command, a message, an entity or a prop starts; each is found only
because everything before it was consumed to the bit, and is understood only
because the tables the program keeps are what the game server thinks they are.
So the properties here relate two parties: the program, and the recorder or
server that wrote the file and is modelled by what it wrote.

Paths below are relative to the repository.  TLC checks every run on a small
instance; TLAPS proves the theorems of the `*Proof` modules for every value of
the constants.

## 1. Inventory

| component | source | state | operations |
|---|---|---|---|
| bit reader | `src/demofilebitbuf.{h,cpp}` | `m_pData`, `m_nDataBytes`, `m_pDataIn`, `m_nInBufWord`, `m_nBitsAvail`, `m_bOverflow` | `StartReading`, `Seek`, `SeekRelative`, `ReadOneBit`, `ReadUBitLong`, and readers composed of them |
| demo file | `src/demofile.{h,cpp}` | `m_fileBuffer`, `m_fileBufferPos`, the header | `Open`, `Close`, `ReadCmdHeader`, `ReadCmdInfo`, `ReadSequenceInfo`, `ReadUserCmd`, `ReadRawData` |
| command and packet loop | `DoDump`, `HandleDemoPacket`, `DumpDemoPacket` in `src/demofiledump.cpp` | the command at hand, the packet and the offset in it | one handler a command, one round a message |
| entities | `src/demofiledump.{h,cpp}` | `s_Entities`, each entry with its class, serial number and props | `AddEntity`, `FindEntity`, `RemoveEntity`, `ReadNewEntity`, `AddOrUpdateProp`, the `PacketEntities` message |
| player infos | `src/demofiledump.cpp` | `s_PlayerInfos` | `player_connect`, `player_disconnect`, userinfo updates, userinfo snapshots |
| string tables | `src/demofiledump.cpp` | `s_StringTables`, `s_nNumStringTables`, the history of one update | `CreateStringTable`, `UpdateStringTable`, `ParseStringTableUpdate` |
| send tables | `src/demofiledump.cpp` | `s_DataTables`, `s_ServerClasses`, `s_currentExcludes`, `s_nServerClassBits` | `ParseDataTable`, `GatherExcludes`, `GatherProps`, `FlattenDataTable` |
| field indices, prop values | `ReadFieldIndex`, `src/demofilepropdecode.cpp` | none (they advance a reader) | one decoder a type |
| game events | `src/demofiledump.cpp` | `m_GameEventList`, `s_bMatchStartOccured` | `GetGameEventDescriptor`, `ParseGameEvent`, the handlers |
| command line | `src/demoinfogo.cpp` | the print flags | `main` |
| printing | `MsgPrintf`, the `Print` functions, `DumpUserMessage` | none | formatting |
| message definitions | `src/*.proto` | none | the protobuf library's |

**How they interact.**  `main` sets the flags, opens the file and calls `DoDump`.
`DoDump` asks the demo file for one command after another.  A packet is copied
into a buffer under a bit reader, and `DumpDemoPacket` hands each message in it
to a handler.  A `dem_datatables` command fills the send tables, which the
entities use to find the props of a class.  `PacketEntities` messages change the
entity table, string table messages and `dem_stringtables` commands the player
infos, and game events the player infos as well; the event printers look both
up.  All calls are synchronous, and all shared state is in file-scope variables.

**What is hard**, and what makes each component correct:

- *Bit reader.*  It prefetches dwords, reads the odd bytes of a buffer first,
  and is constructed over buffers that are filled only afterwards.  It is
  correct if none of that shows: reads return the bits of the current contents
  in order, and the overflow flag is raised exactly when too many are asked for.
- *Demo file and loops.*  Each handler must consume exactly its command.
  Correct: in step with the file as long as that is sound; every message and
  snapshot in front of any damage is dumped, in order; a sound file never fails;
  every file ends, unless a size that leads back is read over and over.
- *Entities.*  Messages enter, change and remove entities, in any order, full or
  delta, and may break off in the middle.  Correct: the table is a map, it holds
  what the server sent, and the loop's assertions hold if the server is sound.
- *Player infos.*  Two sources in no fixed order, slots and IDs that are reused
  or retired, snapshots that clear everything.  Correct: one info a slot, a known
  player is found in its slot, one that left is not found.
- *String tables.*  A history of 32 strings shared with the encoder, entries
  addressed by an index that is usually left out.
- *Send tables.*  An exclusion list and an unstable sort by priority whose result
  must equal the server's, or each field index names another prop.
- *Codecs.*  Variable-length codes whose ranges must be complete and disjoint.

`PROJECT.json` lists the hazards one by one, at the line where each bites, with
the properties that cover it.

## 2. Modules

| module | models | kind |
|---|---|---|
| `BitStream` | what a bit reader promises | abstract specification |
| `BitRead` | `CBitRead` | detailed, implements `BitStream` |
| `MCBitRead` | constants of its run | TLC |
| `BitReadProof` | invariants and the refinement, proved | TLAPS |
| `Replay` | what a dump of a demo promises | abstract specification |
| `DemoDump` | `CDemoFile` and the command and packet loops | detailed, implements `Replay` |
| `MCDemoDump` | recordings of its runs | TLC |
| `DemoDumpProof` | invariants and the refinement of `Replay`, proved | TLAPS |
| `Entities` | the entity table and the `PacketEntities` loop | detailed |
| `MCEntities` | constants of its runs | TLC |
| `EntitiesProof` | invariants, proved | TLAPS |
| `Players` | the player infos and their two sources | detailed |
| `Snapshot` | `DumpStringTables` bit by bit, composed with `Players` | detailed, implements `Players` |
| `MCSnapshot` | tables and sizes of its run | TLC |
| `Options` | `main` and `CDemoFile::Open` | detailed |
| `GameEvents` | the events and what is printed of them, composed with `Players` and `Options` | detailed |
| `MCGameEvents` | command lines, files and lists of events of its run | TLC |
| `PlayersProof` | invariants of `Players`, `Options`, `GameEvents` and `Snapshot`, that the codes of a snapshot read back what they were given, and both refinements of `Players`, proved | TLAPS |
| `StringTables` | the registry and the decoding of its tables' entries | detailed |
| `MCStringTables` | constants of its runs | TLC |
| `StringTablesProof` | invariants, proved | TLAPS |
| `PropSort` | the sort at the end of `FlattenDataTable` | detailed |
| `MCPropSort` | constants of its run | TLC |
| `SendTables` | `ParseDataTable`, composed with `PropSort` | detailed |
| `MCSendTables` | recordings of its run | TLC |
| `SendTablesProof` | invariants of `PropSort` and `SendTables`, proved | TLAPS |
| `Codec` | the decoders of indices and prop values, as functions of bits | operators |
| `Encoding` | the code they must undo: the server's encoder (external) | reference definition |
| `EntityData` | how `entity_data` is read, with `Codec` | detailed |
| `MCEntityData` | messages of its runs | TLC |
| `EntityDataProof` | every prop and field index is read back as written; invariants, proved | TLAPS |
| `Lemmas` | facts about numbers and flattened sequences that proofs by induction need, and what each decoder of `Codec` makes of the code of `Encoding` | TLAPS |

### BitRead

A bit is an opaque token (`Bit`), so that a property can tell *which* bit of
*which* contents a read returned; the arithmetic on positions is the code's.  A
dword is a function of 32 bits.  `dataIn` is `m_pDataIn` as a byte offset from
`m_pData`; `m_nDataBits` is always eight times `m_nDataBytes`, because no caller
gives a number of bits.

`Init` is the constructor, which ends in `Seek(0)`.  Then the owner of the buffer
either uses the reader at once (`Use`: `entity_data`, `string_data`) or has
`ReadRawData` fill the buffer under it (`Fill`) and calls `Seek(0)` (`Rewind`), as
`HandleDemoPacket` and `DoDump` do.  After that `ReadOneBit`, `ReadUBitLong` (its
two branches are `ReadFromWord` and `ReadMerged`) and `Seek` come in any order.
The `Grab...` operators are `GrabNextDWord`, one per variable it assigns.  The `|`
of the merge is modelled as taking its left operand where that is not clear: if
stale bits ever were above the available ones, the result would be wrong.

`BitStream` is a string of bits, a position and a sticky flag.  Two details of it
come from the code: a read that overflows may return some bits it had, and a
reader that overflowed and was then repositioned may return anything.

### DemoDump

A file is a sequence of *fields*, not of bytes: the header of a command is three,
the info of a packet three (command info, two sequence numbers), a block its
length and its data, a message in a packet its type, its size and its data.  The
position is a field.  A read that finds a field of another kind is out of step
with the file, and takes any value of `Garbage` for it; that is how the model
keeps what happens after an error without modelling bytes.  A read behind the
file's end, or in front of its beginning, makes the rest of the run undefined
(`"undefined"`).

Sizes are signed, as in the code (`demofile.cpp:105`, `demofiledump.cpp:1346`), and
what a message says of its size may be anything (`Ints`); an int ends at eight times
`SeekLimit`, because `SeekRelative` is given eight times a size.  `Skip` adds the size
of a block to `m_fileBufferPos`, so that one below zero takes the file's position back
and even in front of the file; a block of such a size that is to be copied is handed to
`memcpy` as one of nearly 4 GB (`CopyFails`).  In a packet, `Overruns` is the check of
line 1348, which a size below zero passes, and so does one that makes its sum
overflow (`Wrapped`); `NextMessage` is where `SeekRelative` then leads, back in the
packet or to its end.  What such a message says it holds is not there (`Inside`):
protobuf parses nothing of it, or the program fails on it (`FailInMessage`).
`lastSize` is the size read last, for `Terminates`.

The recorder is modelled by the file it wrote: a sequence of frames, encoded, and
possibly cut short by some fields.  `Record` derives from it what is due: the
`script` of items up to the damage, whether the file is `damaged`, and `marks`
(where each sound frame starts, and what precedes it).  These are fixed by `Init`
and read by no action of the program.

`ReadCmdHeader` and one `Handle...` action a command are a round of `DoDump`;
`DumpMessage`, `FailInMessage`, `FailParsing` (`fatal_errorf`) and `EndPacket` a round
of `DumpDemoPacket`.  As in the code, `ReadRawData` refuses a block that is larger
than the buffer without stepping over it, and its callers go on: `HandleTables` parses
what is in the unfilled buffer (dumped as no data, or undefined) and the loop over the
commands continues in the middle of the block; an unhandled command is taken to have no data; a zero where a command should be is a missing
end tag, and the zero the string's terminator puts behind the last byte counts.
Failed assertions end the program: the `Makefile` compiles it without `NDEBUG`.

### Entities

`s_Entities` is the vector, in order, and lookups take the first match, as in the
code.  `BeginMessage`, then for each entity of the message `EnterPVS`, `LeavePVS`
or `DeltaEnt`, then for the fields of an entity `DecodeField` one by one, `Bail`
on an index the class does not have ("Bailing on this PacketEntities"),
`EndFields`, and at the end `Finished`.  A field index is what `ReadFieldIndex`
returns and a value what `DecodeProp` returns.  `PropNames` are the names of the
flattened props of each class; two may share one.

The server is modelled by what it has sent: the entities it takes the reader to
know, their classes and serial numbers, and the values sent since each entered.
`sound` becomes false when it breaks its own rules: a change of an entity it does
not know, a leave in a full update, a field index out of range.  The properties
about the table being a map hold for any server, the others for a sound one.

The `PreserveEnt` case of the loop is unreachable (every update is one of the
other three), and `ENTITY_SENTINEL` is above every entity number a sound encoder
uses; `MaxEdict` may be anything up to it.

### Players

`s_PlayerInfos` holds an info a slot; of an info, the slot, the user ID and the
bot flag matter here.  `player_connect` and `player_disconnect` are the two
handlers of events, `UpdateUserInfo` one entry of a userinfo update, and
`ClearPlayers`, `AddRow`..., `EndSnapshot` a `dem_stringtables` snapshot of
userinfo.  The server gives a slot to one player at a time, never gives a user ID
twice, and drops a player from userinfo when it announces that he left.  What it
does is `Join`, `Announce` and `TakeOut`, what the program makes of an event
`HandlePlayerConnectDisconnectEvents`, so that `GameEvents` can put a list of events
between the two.

The handler is not, as the comment at `demofiledump.cpp:277` has it, the only place
where bots get added: `UpdateUserInfo` and `AddRow` add them as well, in the code and
in the model, and `UniqueSlots` and `RightSlot` hold all the same.

### Snapshot

`dem_stringtables` puts the recorded bits into the buffer, `ReadTable` reads a table's
name and size, `ReadRow` and `EndRows` its strings, `ReadClientSide`, `ReadClientRow`
and `EndClientRows` those of the client side; `EndTables` is the end of the command,
and `Abort` a failed assertion (more than `StringLimit` letters, user data of no
bytes, ten bytes or less left in the buffer).  The recorder is external and given by
the code it wrote (`TablesCode`); what of a `player_info_t` matters is four bytes of
user ID, high byte first, and one of `fakeplayer`.

A read has the form of a function of a position, as in `Codec`.  `ReadBits` fills
memory by `unsigned long`: the `Makefile` builds for 32 bits, where that is four
bytes, and so does the model.  The other copy of the same code, in
`ParseStringTableUpdate`, is an action of `Players` here, as are the events
(`Elsewhere`): between two commands the infos may change in any way, and
`ImplementsPlayers` says that reading a snapshot is a run of the abstract actions of
`Players`.

### Options and GameEvents

`Options` is `main`: one step an argument, then `Open`.  `On` and `Off` say what an
option switches; a word that starts like an option and is none is passed over, an
absolute path too, and of several file arguments the last counts.

`GameEvents` starts where `Options` ends in a dump.  `EventList` is
`svc_GameEventList`; `GameEvent` is `PrintNetMessage` of `svc_GameEvent` with
everything it calls: `GetGameEventDescriptor` gives its number a name by the list the
program has, `HandlePlayerConnectDisconnectEvents` changes the player infos, the
match start sets `s_bMatchStartOccured`, and `Printed` is what is printed, as a set of
kinds of lines: a death in CSV form, an event, the player it names, and the
`position`, `facing` and `team` of his entity.  The values of `s_Entities` are the
users that they were sent for; the actions of entities are those of `Entities`
reduced to that.  An entity may be left behind in two ways, which `stale` remembers:
a full update does not name it any more (`FullUpdate`), or the slot is given to the
next player while it is still there (`JoinSlot`).  What the server then sends for the
next player enters over it, and `AddEntity` keeps the props that do not come again.
`ShownIsHis` says that nothing else goes wrong: what was sent for a player is what is
shown of him always, and what was not is shown only in such a slot.

An event names one player here.  The attacker and the assister of a death are looked
up by the same `ShowPlayerInfo`.

### StringTables

`s_StringTables` is the registry, as long as `s_nNumStringTables` says.  A message
is `CreateStringTable` or `UpdateStringTable` (or `BadUpdateStringTable`, which the
code refuses; it leaves the entries it holds unread in `entries`), then
`ReadEncoding`, then for each entry `ReadIndex`, one of
`OmitString`, `ReadWholeString`, `ReadSubstring` and `ExitOnIndex`, and
`ReadUserData`, which also does what the loop does with the history.  `EndUpdate`
leaves the loop; every way out goes through `Return`, which is where the code
registers a created table.  A table encoded with dictionaries is not decoded and
is registered all the same, and so is one for which the array `s_StringTables` has no
room: it is written behind the array, where it may be found again or have spoilt
something else (`"undefined"`).  Nothing but the server's own limit keeps the registry
inside the array, and `TypeOK` bounds it for a sound server only.

The server is modelled by its tables (`tables`), its history (`sent`) and the
entry it wrote (`due`).  An index is written in as many bits as the table's size
gives (`IndexCode`).  A server may break its rules: create more tables than there
is room for, use an index the table does not have, refer to a string that is not
in its history; then `sound` is false.  It does not break them by an update of every
entry of a table (`ChangesEveryEntry`), although the code refuses that: the comparison
at `demofiledump.cpp:776` is strict, so that every update of a table of one entry is
reported as a bad one and lost.  `ReadToItsEnd` says that of a sound server's messages
these are the only ones that are left unread.

The string a history gives and the rest that was read are joined by an `snprintf`
whose output is also its argument, which is undefined: `ReadSubstring` keeps the
prefix or loses it, and `intact` remembers whether one was lost.  `SameHistory` and
`EntryAsSent` speak of strings only while `intact` is true, of the length of the
history, indices and user data always.  A string that is
left out is an empty one.

`demofiledump.h:63` says of `nUserDataSizeBits` that it is not used to parse updates;
the code uses it, and so does the model.

### PropSort and SendTables

`PropSort` is the sort on its own, from any list of props, so that it can be
proved about: `TakeProp` is a round of the inner loop that finds a prop and swaps
it, `NextPriority` one that finds none.  `SendTables` extends it: `ReadTable`,
`EndTables`, `ReadServerClass`, `EndClasses`, then for each class
`FlattenDataTable`, which gathers the excludes and props and starts the sort, and
`SortProps` until it ends; `EndParse` computes the bits of a class ID.  `EndTables`
fails the assertion on the number of classes (`demofiledump.cpp:1477`) if there are
none.  Tables that break off before their end mark do not stop the program where the
data end: the buffer is larger than those, and what is read on is refused sooner or
later (`"failed"`) or leads astray (`"undefined"`).

The program's recursion over the tables is one over the depth here (`ExcludesOf`,
`PropsOf`): what is gathered of every table when it is iterated that deep.
`GatherExcludes` and `GatherProps_IterateProps` are the body of the recursion, given
what is gathered of the tables below.  The depth is cut off at the number of tables,
which no chain of tables exceeds as none is below itself (`RecordingsAssumption`; the
program would not end otherwise); `RecursionEndsAlways` proves that nothing is lost by
it.  The program appends to two lists while it recurses, that of the class and the
temporary one of a table; the model gathers what is appended to each.

What the recursion gathers is compared with a
definition that does not recurse: a prop is the end of a *walk* of references from
the table of the class, it is sent if no step of the walk is excluded, and
`Before` orders two walks by where they part.  The sort is not stable, so the
order in which props are gathered decides among those of equal priority, and is
part of what `GatheredAsSent` demands.

### Codec, Encoding and EntityData

`Entities` takes the number of an entity, its field indices and their values as
given; here is how they are found.  Bits are a sequence of 0 and 1, the lowest
first, because TLC's integers have 32 bits and the code's numbers up to 64.  A
decoder returns a value and the position behind it; a read behind the end gives
zeros, as `CBitRead` does (`BitRead` shows that it does).

`Codec` has `ReadUBitVar`, the varints and their zigzag, the coordinates and
normals, the `..._Decode` function of each type of prop, and the codes of field
indices.  Every number of units and fractions is an integer in units of the
resolution; a scaled float is left as the number that is scaled, and the third
component of a normal as its sign, since the arithmetic behind them is not
checked.  The `coding` of a prop is the first flag that `DecodeSpecialFloat` finds.
`Encoding` is written from what the comments and assertions of the readers demand
of their input (shortest codes, sizes, ranges), and never from the readers.  `IsProp`
says which props a server has (the types, codings and widths the decoders are asked
for), `PropHas` which values the code of such a prop can say.

`EntityData` is the loop: `ReadHeader`, then `EnterPVS`, `LeavePVS` or `DeltaEnt`;
`ReadWay`, then for each index `ReadNextIndex`, `ReadShortIndex` or
`ReadLongIndex`, `EndIndices` at the marker, `DecodeField` for each, `EndEntity`.
A failed `Assert` aborts.  `sent` is what the server wrote; the data may have lost
some bytes at its end.  What a server may write is `MessagesAssumption`: entities in
the order of their numbers, up to `ENTITY_SENTINEL`, an update only of one that is in
the table, and fields in the order of their indices, none further from the one before
than the end marker's 4095.  The loop over the indices does not look at the overflow
flag, so on data that ends there it never ends: behind `MaxFields` indices the
model takes it to go on (`KeepReadingIndices`).  All messages are deltas here; what
a full update changes is in `Entities`, and so is what is done with the values.

## 3. Runs

| run | checks | bounds |
|---|---|---|
| `bitread` | `FetchInBounds`, `PrefetchCurrent`, `ImplementsBitStream` | buffers of 1, 3, 4, 6 and 9 bytes, reads of 1, 8, 17 and 32 bits, seeks to every byte, one before the data and one behind it |
| `demodump` | `TypeOK`, `InStep`, `FailsOnlyIfDamaged`, `Terminates`, `ImplementsReplay` | every recording of up to two frames of thirteen kinds and a last one of seven, cut short by up to two fields; packets of ten fields, ints from -128 to 127 |
| `customdata` | `EveryMessageDumped`, violated | recordings of three frames with a `dem_customdata` |
| `entities` | `IsMap`, `NoneMissing`, `FollowsServer` | two entities, two classes, three flattened props with two names, two values |
| `entities_replace` | `NoStaleProps`, violated | the same |
| `snapshot` | `AssertionsHold`, `ImplementsPlayers`, `EndsInStep` | three slots, three users, two kinds of tables around userinfo, a buffer of 124 bytes |
| `gameevents` | `EventsTypeOK`, `OpensTheFile`, `Understood`, `DeathsAsAsked`, `EventsAsAsked`, `ShownIsHis`, and of `Players` `RightSlot`, `GoneUnknown` | two slots, two users, one a bot; two lists of events; every command line of up to three of twelve arguments, and seven with a file to open |
| `stringtables` | `TypeOK`, `SameHistory`, `EntryAsSent`, `SameTables`, `ReadToItsEnd` | three tables created, room for two, three entries a message, histories of two strings of two letters |
| `propsort` | `Permuted`, `Sorted`, `SortEnds` | every list of up to four of seven props |
| `sendtables` | `TypeOK`, `GatheredAsSent`, `LookupsAgree`, `SoundIsParsed` | three tables and classes, three of seven and two of five kinds of props, arrays, and recordings that break off, or have one class or none |
| `entitydata` | `TypeOK`, `ReadAsSent`, `InStep`, `AssertionsHold`, `EndIsRead`, `WholeIsRead` | 25 kinds of props with values at the limits of their codes, pairs of field indices and of entity numbers at the limits of theirs, data whole and short of one and three bytes |
| `entitydata_noscale` | `NoScaleAsIs`, violated | one prop, two values |

Some invariants are proved and not run: the type invariants of `BitRead`, `Entities`,
`PropSort` and `Players`, `UniqueSlots` and `RowsAreNew`.

Why the bounds are enough:

- `bitread`: the sizes are shorter than a dword, a dword, a dword with odd bytes,
  and two dwords with one odd byte, so that a merge crosses from the odd bytes
  into a dword, between dwords, and over the end; 17 bits makes every offset in a
  dword come up.  All theorems of this component are proved without bounds.
- `demodump`: a frame's handler sees only where it starts, so two frames and a
  last one show each command behind each other one and at the end of the file;
  packets hold up to three messages (known, unknown, empty, longer or shorter than
  they say, filling the packet exactly), and packets and blocks are empty, fit, or are
  refused.  A message of size -2 leads back to itself, one of -5 to the message in
  front of it, one of -16 in front of the packet; 126 makes the check of line 1348
  overflow.  Out of step, sizes of both signs are taken for blocks and messages, and a
  block of -4 leads back to its own command.  The frames end in blocks, infos and
  headers, so that a cut of two fields reaches into each of those.
- `entities`: the vector has at most two entries, which is enough for a first and
  a second match, for removal in front of another entry, and for one entry to
  take another's place; the class with a shared name makes two indices update one
  prop.  Values are symmetric: nothing compares them except with what was sent.
- `snapshot`: a third slot shows the vector in an order that is not the slots'.  User
  IDs of one, two and three bytes that matter tell the orders of bytes apart.  In
  front of userinfo and behind it stand a table with user data that is not a
  player's, and one whose name begins with that of userinfo and is longer than the
  buffer for names; client-side strings may have user data of their own, and one
  string is as long as `StringLimit` allows no other.  With 124 bytes the largest
  snapshots leave ten bytes or less, the others more.
- `gameevents`: with two slots and two users a slot changes hands, a user who left is
  replaced, and one player's entity is next to the other's.  The two lists of events
  exchange numbers, and the second lacks two events.  A slot is given away with its
  entity taken back, dropped by a full update, or still there.  The command lines that are
  dumped differ in every flag that events look at; `player_jump` stands for the events
  that are not treated in a special way.
- `stringtables`: the third entry of a message makes a history forget its first
  string, and one string is longer than what a history keeps; the third table is
  one more than the registry has room for.  Tables have four entries, two and one:
  one has an index of no bits, one has user data of a fixed size, one is userinfo.
- `propsort`: priorities lie below 64, at it and above, with and without the flag
  that a prop changes often; four props allow a swap over two others.
- `sendtables`: with three tables a table is reached twice, along one way that
  collapses and one that does not, and an exclude stands above, below or behind
  what it excludes.

- `entitydata`: a code can only be wrong where it changes its length or its form:
  field indices and skips of 0, 7, 8, 31, 32, 127, 128, 511, 512 and 4094 (the last
  in front of the marker), entity numbers of 0, 15, 16, 255, 256, 4095, 4096 and
  9999, varints at every power of 128, coordinates at 0 and 1 units, at the largest
  and at those that are in bounds and just not.  A second entity behind the first
  shows that the reader is in step.  A field index is cut by three bytes as well as
  a value, so that lists of indices end without their marker.

Deadlock is checked in every run but `propsort` and `sendtables`, where the sort
and the parsing come to their end, `snapshot`, which an assertion ends, and
`gameevents`, which the usage or a file that is no demo ends; elsewhere a program that ended stutters
(`Ended`, `Aborted`).

**Fairness.**  `DemoDump`, `PropSort` and `EntityData` state `WF_vars(Next)` of all
their steps together.  A single thread that waits for nothing goes on as long as
it can.  Nothing is assumed of the file.  `Terminates` then says that a file makes
the loops of `DoDump` and `DumpDemoPacket` spin in one way only, sound or not: by sizes
below zero, or so large that a sum overflows, that are read over and over again.  The
code does spin on those.  `SortEnds` says that the sort's `while (true)` is left.  `WholeIsRead` is about whole data only:
the loop over field indices in truncated data does not end, in the code either, so
`Terminates` says nothing of what the handlers do.

## 4. What the violated properties show

- `EveryMessageDumped`: `README.md:8` says the program "dumps out every message in
  the demo".  `DoDump` has no case for `dem_customdata`, whose block of data is
  then taken for commands, and messages behind it are lost.
- `NoStaleProps`: `demofiledump.cpp:1118` says an entity that enters under a number
  in use *replaces* the one that is there.  `AddEntity` keeps its props: `FindProp`
  on the new entity finds values that were sent for the old one.
- `NoScaleAsIs`: `demofilepropdecode.h:45` says of `SPROP_NOSCALE` "don't scale into
  range, just take value as is".  `ReadBitFloat` reads 32 bits as an integer and
  converts it (`demofilebitbuf.cpp:691`): the bits of 1.0 become 1065353216.0.

Two things of the same kind are in the model without a run of their own, as the
exceptions the properties above name.  `demofile.cpp:121` says of a block that is not
copied "just skip it", where a size below zero leads back (`Terminates`); and an update
of every entry of a string table is not read at all (`demofiledump.cpp:776`,
`ReadToItsEnd`), though it is a part of "every message in the demo".

## 5. Proofs

`BitReadProof` assumes of the constants only what `BitRead` names: `Zero \in Bit`,
sizes in `1 .. MaxBytes`, widths in `1 .. 32`, seek targets integers, contents
functions of the bit.  Its inductive invariant `IInv` is `TypeOK` with three
additions: `Aligned` (the next fetch starts the odd bytes modulo 4 into the data,
so that a fetch that starts inside ends inside), `Positioned` (no more bits at hand
than were fetched), and `Unread` (in a ready reader that has not overflowed, the
word holds the unread bits and zeros above, or the phantom bit at the end; after an
overflow only zeros come).  `PrefetchCurrent` alone is not inductive: that a
straddling read merges the right bits needs the alignment, and that it does not
overflow one read early needs the exact position of the phantom dword.  From it
follow `TypeCorrect`, `FetchesStayInBounds`, `PrefetchIsCurrent`, and `Refinement`,
one lemma an action, each mapping to one action of `BitStream` or to a stutter.

`DemoDumpProof` assumes that a recording is a sequence of frames of which `dem_stop` is
the last (`RecordingsAssumption`), that sizes are ints, of either sign, and that the
buffer of a packet is smaller than where eight times a size overflows
(`CapacityAssumption`); any recording, whatever its messages say of their sizes, damaged
in any place.  Its `Inv` is `Recorded`
(the file is some recording's encoding up to where it was cut), `Typed` and `Where`:
the program is at the end of a sound frame and has dumped what those before it hold
(`InOrder`), in a sound frame (`InFrame`) or packet (`InPacket`, at the end of a whole
number of its messages as well), or it has dumped all that was due and met damage
(`Stray`); where it is then is not said, as sizes may lead anywhere.  `InStep` alone is not inductive: that the next field is taken for
what it is needs a place in the recording, and that nothing is dumped wrongly beyond
the damage needs that there is nothing left to dump.  `TypeOKAlways`, `InStepAlways`
and `FailsOnlyIfDamagedAlways` follow, and `DumpImplementsReplay`: a command or a
message dumped whole is one step of `Replay`, everything else none.

What the encoder's folds compute for recordings of any length is proved by induction
on the length.  The library's induction theorems take an operator, which the provers
cannot instantiate; `Lemmas` states the principle for a *set* of numbers instead
(`NatSet`: a set that has 0, and with a number the next, has them all), and derives
it by counting.  It also holds what both proofs need of sequences that are
flattened.

`EntitiesProof` assumes `MaxEdict <= 9999`, a sequence of names for each class, and
nothing of the sizes of the sets.  Its `IInv` joins `TypeOK`, `UniqueIds`,
`UniqueProps` (together `IsMap`), `SameEntity`, `LatestValue` (together
`FollowsServer`), that the entry whose fields are being
read is in the table, and `NoneMissing`.  They need each other: a removal deletes
*the* entity only because ids are unique, an update changes *the* value only
because names are, and the assertion of a delta holds because a sound server
changes only entities it knows, which are in the table.  The lemmas `AddEntityIs`,
`RemoveEntityIs`, `FindEntityIs`, `FindPropIs` and `AddOrUpdatePropIs` say what the
helpers return; there is one step lemma an action.

`StringTablesProof` assumes what `StringTables` names: strings are sequences of
letters, sizes are positive, and every index of a table survives being written in
the bits its size gives (`EntryBitsAssumption`; true of tables with a power of two
of entries, as the game's are).  Its `IInv` is `Shape` (the types, that a message
under way is about a table the server has, and that its entries are counted) and
`Agreed`: `SameHistory`, `EntryAsSent`, `SameTables`, `ReadToItsEnd` and
`SameMessage`, that the message is decoded with the table the server encoded it
for.  They need each other: an entry is as sent because the history it refers to
is the server's, which holds because every entry before was as sent; and its
index and size are read correctly because the table is the same, which holds
because every table is registered, decoded or not.  That the registry stays inside its
array (`TypeCorrect`) follows from `SameTables` and the server's limit, and from nothing
in the program.

`SendTablesProof` assumes that a priority is a natural number, as it is for a
`uint32`, and of a recording what `IsRecording` says: its tables and classes are
sequences, there are fewer than 2^15 classes, as their number is a short, and no table
is below itself; there may be no classes, and the tables may break off.  Its first part is the sort.  `SortInv` joins `SortTypeOK` and
`Permuted` with `Partial` (the props in front of `start` are sorted, none of them ranks
above one that is left, and what is left ranks no lower than any priority that is left
to take) and `Finished` (none is left when the sort ends), from which `Sorted` follows.

The second part is about what is gathered.  A list of walks `Enumerates` the props that
are sent if each is in it and every one is `Before` the next; `Lists` says the same of
one table at one depth, of the two lists the program appends to.  By induction over the
depth, what `GatherProps_IterateProps` appends for a table are the entries of such lists
(`TableLists`, prop by prop `PropLists`), because walks behind one link part as they did
without it, those of a prop in front are before those of a prop behind, and those that
go into a table that is not collapsed are before all that do not.  The same induction
shows that the excludes gathered are those the walks end at (`ExcludesAre`).  As
`Before` is never true both ways, the list has no prop twice, and the place of a prop
in it is the number of those before it (`GatheredRight`).

The third part is the machine.  `IInv` says that what was read is the recording's
(`TablesRead`, `ClassesRead`), that the classes behind `nServerClass` have no props yet
and those in front of it the ones gathered for their table, rearranged into the order of
their ranks (`ClassesFlattened`), and that the one at `nServerClass` is being sorted, in
a state the sort's own invariant allows (`ClassSorted`).  `GatheredAsSent` and
`LookupsAgree` are not inductive alone: that a class still has the server's props when
all is done needs that no later step touched it, and that the sort kept them.
`LookupsAgree` also needs that `ClassBits` is enough for every class ID (`BitsHoldID`).
`TypeOKAlways`, `SoundIsParsedAlways`, `GatheredAsSentAlways` and `LookupsAgreeAlways`
follow; `ClassesInOrderAlways` adds that the classes stay in the order of the ranks,
and `RecursionEndsAlways` that the recursion ends: a table of level n is gathered to its
end at depth n, and no level exceeds the number of tables.

The first part of `PlayersProof`, about `Players`, assumes that `MaxSlot` is a number and user IDs are numbers, so that
none is the -1 of a player who left.  Its `IInv` joins `TypeOK`, `UniqueSlots` and
`RowsAreNew` with `OneSlotEach` (no user plays in two slots), `GoneLeft` and
`OnlyPlayers` (who left does not play, who is announced or listed does),
`InfosCurrent` (an info that is not of a player who disconnected is of the one who
plays in its slot *now*) and `KnownHaveInfos` (who is announced or listed has one; in
the middle of a snapshot, who is listed in a row that was read).  The last two are
what makes it inductive: a slot can be given away only because its last player's
info was marked, which needs `FindPlayerInfo` to have found it, which needs that no
other info has that user ID.  `NoMoreThanSlots` counts: infos of different slots are
no more than there are slots.  `RightSlot` and `GoneUnknown` then follow.

The second part, about `Options`, assumes that a command is a sequence of words, and nothing of the
words or the files.  Its `MainInv` says of the arguments read so far what the
variables are: `FlagsAsSeen` (if the options are in order, what selects something is
true when it was seen; what leaves something out, which is true from the start, until
what it belongs to was seen without it) and `FileAsSeen`.

The third part, about `GameEvents`, assumes that a list of events gives a number to one event, and that
an update names props a player has.  `SameList` (the program has the server's list)
gives `Understood`; with it every step is a step of `Players` or none
(`EventsImplementPlayers`), so that the invariant of `Players` holds here.  `PropsAreHis`
(what was sent for the player in a slot is in his entity, and nothing else is, unless
the last player's was left behind) joins with `InfosCurrent` to `ShownIsHis`.
`MatchKnown` (`s_bMatchStartOccured` agrees with the phase while the recording is of
one match) joins with `MainInv` to `DeathsAsAsked` and `EventsAsAsked`.

The last part of `PlayersProof` assumes of the constants what `Snapshot` names.  `TablesAssumption`:
tables other than `userinfo` have other names, their strings fit the buffer they are
read into, and all counts fit the bits they are written in.  `LimitsAssumption`: that
buffer holds a slot's number, and the one for the name more than `userinfo`, so that no
longer name is cut off to it.  `NumbersAssumption`: a user ID is not negative as a signed
number of four bytes, and a slot's number is written as one letter.  Its first half
says of each code of `DumpStringTables` that reading what was written gives it back and
stops behind it: `NumberRead` (of `Lemmas`), `StringRead`, `UserDataRead`, `RowRead`, then by
induction `RowsRead`, `TableRead` and `TablesRead`.
The second half is about the machine.  Its `SnapshotInv` is `Typed`, `AssertionsHold`, that no
snapshot is under way while nothing is read, and `InReads`, which says that the reader
is at the beginning of a part of a list of tables that was recorded, and that a snapshot
of `Players` is under way exactly while that part is among the rows of `userinfo`, at the
row of that number.  Neither half is enough: a row replaces the right slot's info only if
it is read from where it was written *and* as many rows of the snapshot were applied.
Each action has one lemma,
which proves both that `SnapshotInv` is kept and that the step is one of `Players` or none.
From them follow `NoAssertionFails`, `SnapshotEndsInStep` and
`SnapshotImplementsPlayers`, so that what is proved of `Players` (`RightSlot`,
`GoneUnknown`) holds where snapshots are read from bits.

`EntityDataProof` assumes what `Encoding` and `EntityData` name: a server's props and
values (`IsProp`, `PropHas`), its messages (`MessagesAssumption`), classes whose
numbers fit their bits and of which 0 is one (`ClassesAssumption`: it is what is read
behind the end of the data), and nothing of where the data are cut off.  Nothing
bounds the number of entities, fields, elements or characters, and every width is
there: TLC sees only 25 props and some limits.

The first half, with the second half of `Lemmas`, is about codes.  It says of each
decoder two things.  *Typed* (`IntTyped`, `FloatTyped`, `IndexTyped`, ...): whatever the
bits are, it returns a position that is not before the one it was given.  *Read*
(`IntRead`, `Int64Read`, `CoordRead`, `CoordMPRead`, `CellCoordRead`, `FloatRead`,
`VectorRead`, `TextRead`, `ArrayRead`, ...): if the data *show* a code, that is have its
bits as far as they go (`Shows`), it ends where the code ends or both end behind the
data (`ReadTo`), and returns the value written if the code ends within the data
(`ReadsAs`).  The two cases are needed because `CBitRead` gives zeros behind the end:
a prefix of a code is then read as a shorter one, and what must be shown is that this
is never taken for the end of something.  `ReadUBitVar` and `ReadFieldIndex` are
proved by which of four sizes a number takes (`SizedRead`), varints by groups of seven
bits (`VarIntBytesIs`), an int of 64 bits by its two reads (`HalvesRead`), arrays by
induction over the places where their elements end (`ElementsRead`).  `PropRead`
collects them.  The recursion of the arrays is over numbers, and the sets of numbers
have the induction of `NatSet`; no induction over data is needed.

The second half is about the loop.  Its `IInv` says of every state that it is `Typed`;
of one that still reads and whose position is within the data that it is `InPlace`
(the position is where a part of the message lies: `AtHeader`, `AtKind`, `AtWay`,
`AtIndices`, `AtValues`; the entity at hand is the sent one as far as it was read, and
the ones before it are); that whole data are never overrun; and that no assertion
failed on them.  `InPlace` cannot be demanded behind the end, where the reader goes on
with zeros, and `ReadAsSent` and `InStep` are not inductive without it: they speak of
`header` only, and which entity is read next is decided many steps before it is
complete.  `EntityParted`, `FieldsParted` and `NextLies` say where each part of each
entity lies; then each action has one lemma.  In each, the position behind the read
is either within the data, and then so was the one before it, and the part read is
the one due; or it is not, and only the types have to be kept.  From `Invariant` follow
`TypeCorrect`, `ReadAsSentHolds`, `InStepHolds`, `AssertionsAlwaysHold` and, as an
action property, `EndAlwaysRead`: a marker that reaches behind the end cannot come up,
since of such a number all but the lowest five bits are zeros (`LowNumber`).

Two things had to change in the model for this, neither in what it says: the decoders
of vectors and arrays are functions (they were operators with operator parameters,
which the provers do not instantiate), and what a message may contain, which had been
only in the constants of the run, is now an assumption that TLC evaluates there.

Only model-checked:

- Liveness (`Terminates`, `SortEnds`, `WholeIsRead`), which is out of the prover's
  reach.
- The runs that expect a violation: a counterexample is all they are to show.

## 6. Not modelled

- What `-nowarmup` is to mean in a recording that does not begin with the warm-up of
  its only match: `s_bMatchStartOccured` is then false during a match, or true during
  a warm-up, and deaths are left out or reported accordingly (`demofiledump.cpp:490`).
  The model does the same; `DeathsAsAsked` speaks of the other recordings.
- A `player_death` without an attacker, whose default, -1, is also the user ID of a
  disconnected player's info.
- The copy of `ReadFromBuffer`, readers that nothing calls, and `ReadBits` of bits
  that are no whole bytes.  Kilobyte strings: the limits of the buffers strings are read into.
- Send tables: a second `dem_datatables`, what later commands make of the tables that
  are left behind where the parsing failed, and tables that refer to each other in a
  circle.  Props: arrays of arrays, and scaled floats of 32 bits.
- String tables: a negative `table_id`, `string_data` that is empty or ends early.
  What a table written behind the registry does to the variables there.  The check
  of `nBytes` against the size of its own buffer can never fire and is left out.
- File I/O that fails in the middle: `Open` reads the whole file before anything else.
- Printing, wording and the protobuf library.  A message that fails to parse
  changes nothing, and is not told from an unknown one.
- `CBitRead` over an empty buffer, or repositioned to the end of one shorter than
  a dword (a hazard, listed).

## 7. Plan

Done, in this order, most important first: `BitRead` (everything is read through
it), `DemoDump` (everything is dispatched by it), `Entities` (the largest state),
`Players`, `StringTables`, `SendTables` with `PropSort`, `Codec` with `EntityData`,
`Snapshot`, `Options`, `GameEvents`; and the proofs of `BitRead`, `Entities`,
`StringTables`, `PropSort`, `Players`, `Options`, `GameEvents`, `DemoDump`, `Snapshot`,
`SendTables` and `EntityData`.

Next:

1. Refinement: an entity that `EntityData` has read is a step of `Entities`, and an
   entry that `StringTables` has read is one of `Players`.
2. A second `dem_datatables` in `SendTables`.
