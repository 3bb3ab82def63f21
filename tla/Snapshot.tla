------------------------------ MODULE Snapshot ------------------------------
(***************************************************************************)
(* A dem_stringtables command, bit by bit: DumpStringTables and            *)
(* DumpStringTable of src/demofiledump.cpp.  The snapshot holds every      *)
(* string table; of the one named userinfo the player infos are made anew. *)
(* To whoever looks only at these, it is the snapshot of Players.          *)
(*                                                                         *)
(* Of a player_info_t only the user ID and fakeplayer are left; of the     *)
(* sizes of the program's buffers, that they are limits.                   *)
(***************************************************************************)
EXTENDS Players, Encoding

CONSTANTS
    TablesBefore,   \* the tables that may be recorded in front of userinfo,
    ClientSide,     \* the client-side strings behind those of userinfo,
    TablesBehind,   \* and the tables behind it
    NameSize,       \* the size of tablename
    StringLimit,    \* no string may be that long
    BufferBytes     \* the size of the buffer

(* What is recorded: a string is the sequence of its bytes, without its    *)
(* zero; the numbers of rows and of bytes have sixteen bits.               *)
Letters == 1 .. 255
Bytes == 0 .. 255
RowType == [string : Seq(Letters), userdata : Seq(Bytes)]
RowsType == {rows \in Seq(RowType) :
                /\ Len(rows) < 2^16
                /\ \A k \in 1 .. Len(rows) : Len(rows[k].userdata) < 2^16}
TableType == [name : Seq(Letters), rows : RowsType, clientside : RowsType]

Userinfo == <<7, 8, 9>>     \* "userinfo", in fewer letters

(* The other tables have other names, and strings that fit.                *)
OtherTables ==
    {ts \in Seq(TableType) :
        \A k \in 1 .. Len(ts) :
            /\ ts[k].name # Userinfo
            /\ \A i \in 1 .. Len(ts[k].rows) : Len(ts[k].rows[i].string) < StringLimit}

ASSUME TablesAssumption ==
    /\ TablesBefore \subseteq OtherTables /\ TablesBehind \subseteq OtherTables
    /\ ClientSide \subseteq RowsType
    /\ \A before \in TablesBefore, behind \in TablesBehind : Len(before) + 1 + Len(behind) < 2^8
(* The buffers hold more than "userinfo" and the number of a slot.         *)
ASSUME LimitsAssumption ==
    /\ NameSize \in Nat /\ NameSize > 4
    /\ StringLimit \in Nat /\ StringLimit > 1
    /\ BufferBytes \in Nat
(* A user ID is not negative in 32 bits; a slot's number is one letter.    *)
ASSUME NumbersAssumption ==
    /\ \A user \in Users : user \div 2^24 < 128
    /\ MaxSlot + 48 \in Letters

VARIABLES
    data,           \* the bits of the buffer that were recorded
    at,             \* how many were read
    tables,         \* how many tables are left
    strings,        \* how many strings of this one are left
    isUserInfo,
    pc              \* "idle", "table", "strings", "client", "client strings", "aborted"

readVars == <<data, at, tables, strings, isUserInfo, pc>>
snapshotVars == <<vars, readVars>>
-----------------------------------------------------------------------------
(* The recorder.  A string is the sequence of its bytes, user data too.    *)
BytesCode(bytes) == FlattenSeq([k \in DOMAIN bytes |-> ToBits(bytes[k], 8)])
StringZCode(s) == BytesCode(Append(s, 0))
RowCode(r) ==
    StringZCode(r.string) \o Flag(r.userdata # <<>>)
        \o Unless(r.userdata = <<>>, ToBits(Len(r.userdata), 16) \o BytesCode(r.userdata))
RowsCode(rows) == ToBits(Len(rows), 16) \o FlattenSeq([k \in DOMAIN rows |-> RowCode(rows[k])])
TableCode(t) ==
    StringZCode(t.name) \o RowsCode(t.rows)
        \o Flag(t.clientside # <<>>) \o Unless(t.clientside = <<>>, RowsCode(t.clientside))
TablesCode(ts) == ToBits(Len(ts), 8) \o FlattenSeq([k \in DOMAIN ts |-> TableCode(ts[k])])

(* It writes the user ID with the high byte first.                         *)
InfoBytes(user) ==
    <<user \div 2^24, (user \div 2^16) % 256, (user \div 256) % 256, user % 256,
      IF user \in Bots THEN 1 ELSE 0>>
UserinfoTable(clientside) ==
    [name |-> Userinfo, clientside |-> clientside,
     rows |-> [k \in 1 .. MaxSlot + 1 |->
                  [string |-> <<48 + k - 1>>,
                   userdata |-> IF k - 1 \in listed THEN InfoBytes(slots[k - 1]) ELSE <<>>]]]
-----------------------------------------------------------------------------
(* CBitRead's readers of bytes.                                            *)
ByteAt[p \in Nat] == UNat(data, p, 8)
WordAt[p \in Nat] == UNat(data, p, 16)

(* Where the zero is that ends a string; behind the data all is zero.      *)
StringEnd[p \in Nat] == IF ByteAt[p] = 0 THEN p ELSE StringEnd[p + 8]

(* Mutant: the rest of a string that does not fit is left in the stream.   *)
UpToLimit(n, maxLen) == IF n < maxLen THEN n + 1 ELSE maxLen
ThroughItsEnd(n, maxLen) == n + 1
(* What does not fit is read and dropped.                                  *)
ReadString(p, maxLen) ==
    LET n == (StringEnd[p] - p) \div 8
    IN  Result([k \in 1 .. Min({n, maxLen - 1}) |-> ByteAt[p + 8 * (k - 1)]],
               p + 8 * ThroughItsEnd(n, maxLen))

(* Mutant: a long has eight bytes, but only four of them are read.         *)
EightByteLongs(p, k) ==
    IF (k - 1) % 8 > 3 THEN 0 ELSE ByteAt[p + 32 * ((k - 1) \div 8) + 8 * ((k - 1) % 8)]
(* The k-th byte that ReadBits puts into memory, by longs of four bytes    *)
(* and then one by one.                                                    *)
FourByteLongs(p, k) == ByteAt[p + 8 * (k - 1)]
ReadBytes(p, nBytes) == [k \in 1 .. nBytes |-> FourByteLongs(p, k)]

LowLevelByteSwap(bytes) == Reverse(bytes)

LittleEndian(bytes) == bytes[1] + 256 * bytes[2] + 2^16 * bytes[3] + 2^24 * bytes[4]
Info(entity, bytes) ==
    [entityID |-> entity, userID |-> LittleEndian(LowLevelByteSwap(SubSeq(bytes, 1, 4))),
     fakeplayer |-> bytes[5] # 0]

GetNumBytesLeft(p) == (8 * BufferBytes - p) \div 8

(* What follows the string of a row, and where the row ends.               *)
UserData(p) ==
    LET size == WordAt[p + 1]
    IN  IF OneBit(data, p) = 0 THEN [has |-> FALSE, end |-> p + 1]
        ELSE [has |-> TRUE, size |-> size, bytes |-> ReadBytes(p + 17, size),
              end |-> p + 17 + 8 * size]
StringName == ReadString(at, 4096)
RowData == UserData(StringName.at)

(* The assertions of a row; those of a client-side one.                    *)
RowAsserted ==
    /\ Len(StringName.v) < StringLimit
    /\ RowData.has => RowData.size > 0 /\ GetNumBytesLeft(RowData.end) > 10
ClientRowAsserted == RowData.has => RowData.size > 0
-----------------------------------------------------------------------------
SnapshotInit ==
    /\ Init
    /\ data = <<>> /\ at = 0
    /\ tables = 0 /\ strings = 0
    /\ isUserInfo = FALSE
    /\ pc = "idle"

(* The command comes, is copied into the buffer, into which it must fit    *)
(* (or it is refused, as in DemoDump), and DumpStringTables reads the      *)
(* number of tables.                                                       *)
dem_stringtables(before, clientside, behind) ==
    /\ pc = "idle"
    /\ data' = TablesCode(before \o <<UserinfoTable(clientside)>> \o behind)
    /\ Len(data') <= 8 * BufferBytes
    /\ tables' = UNat(data', 0, 8)
    /\ at' = 8
    /\ pc' = "table"
    /\ UNCHANGED <<vars, strings, isUserInfo>>

IsUserInfo(name) == name = Userinfo

(* The name of a table and the number of its strings; userinfo clears the  *)
(* player infos.                                                           *)
ReadTable ==
    LET tablename == ReadString(at, NameSize)
    IN  /\ pc = "table" /\ tables > 0
        /\ isUserInfo' = IsUserInfo(tablename.v)
        /\ strings' = WordAt[tablename.at]
        /\ at' = tablename.at + 16
        /\ pc' = "strings"
        /\ IF isUserInfo' THEN ClearPlayers ELSE UNCHANGED vars
        /\ UNCHANGED <<data, tables>>

(* The row of a player updates the infos, under the number of the row.     *)
ReadRow ==
    /\ pc = "strings" /\ strings > 0
    /\ RowAsserted
    /\ s_PlayerInfos' = IF RowData.has /\ isUserInfo
                        THEN AddOrReplace(row, Info(row, RowData.bytes)) ELSE s_PlayerInfos
    /\ row' = IF isUserInfo THEN row + 1 ELSE row
    /\ strings' = strings - 1
    /\ at' = RowData.end
    /\ UNCHANGED <<snapshot, server, data, tables, isUserInfo, pc>>

(* Mutant: the strings of the client side are left in the stream.          *)
NotRead == FALSE
ClientSideFollows == OneBit(data, at) = 1

EndRows ==
    /\ pc = "strings" /\ strings = 0
    /\ row' = 0 /\ snapshot' = FALSE
    /\ pc' = IF ClientSideFollows THEN "client" ELSE "table"
    /\ tables' = IF ClientSideFollows THEN tables ELSE tables - 1
    /\ at' = at + 1
    /\ UNCHANGED <<s_PlayerInfos, server, data, strings, isUserInfo>>

ReadClientSide ==
    /\ pc = "client"
    /\ strings' = WordAt[at]
    /\ at' = at + 16
    /\ pc' = "client strings"
    /\ UNCHANGED <<vars, data, tables, isUserInfo>>

ReadClientRow ==
    /\ pc = "client strings" /\ strings > 0
    /\ ClientRowAsserted
    /\ strings' = strings - 1
    /\ at' = RowData.end
    /\ UNCHANGED <<vars, data, tables, isUserInfo, pc>>

EndClientRows ==
    /\ pc = "client strings" /\ strings = 0
    /\ pc' = "table"
    /\ tables' = tables - 1
    /\ UNCHANGED <<vars, data, at, strings, isUserInfo>>

(* An assertion that fails ends the program.                               *)
Abort ==
    /\ \/ pc = "strings" /\ strings > 0 /\ ~RowAsserted
       \/ pc = "client strings" /\ strings > 0 /\ ~ClientRowAsserted
    /\ pc' = "aborted"
    /\ UNCHANGED <<vars, data, at, tables, strings, isUserInfo>>

EndTables ==
    /\ pc = "table" /\ tables = 0
    /\ pc' = "idle"
    /\ data' = <<>> /\ at' = 0
    /\ isUserInfo' = FALSE
    /\ UNCHANGED <<vars, tables, strings>>

Reading ==
    \/ ReadTable \/ ReadRow \/ EndRows
    \/ ReadClientSide \/ ReadClientRow \/ EndClientRows
    \/ Abort \/ EndTables

(* The rest of the program and the server, as in Players.                  *)
Elsewhere ==
    /\ pc = "idle" /\ UNCHANGED readVars
    /\ \E slot \in Slots :
          \/ \E user \in Users : Join(slot, user)
          \/ player_connect(slot) \/ player_disconnect(slot) \/ UpdateUserInfo(slot)

SnapshotNext ==
    \/ \E before \in TablesBefore, clientside \in ClientSide, behind \in TablesBehind :
          dem_stringtables(before, clientside, behind)
    \/ Reading
    \/ Elsewhere

SnapshotSpec == SnapshotInit /\ [][SnapshotNext]_snapshotVars
-----------------------------------------------------------------------------
(* Whoever sees only the player infos sees the steps of Players: one that  *)
(* clears them, one for every row of userinfo, with the user ID and the    *)
(* flag that the server recorded for that slot, and an end.                *)
ImplementsPlayers == Spec

(* A snapshot is left where the recorder stopped writing it, whatever      *)
(* tables it has, with client-side strings or without.                     *)
EndsInStep == [][pc # "idle" /\ pc' = "idle" => at = Len(data)]_snapshotVars

(* No assertion fails on a snapshot that leaves the buffer more than ten   *)
(* bytes.                                                                  *)
AssertionsHold == pc = "aborted" => GetNumBytesLeft(Len(data)) <= 10
=============================================================================
