---------------------------- MODULE StringTables ----------------------------
(***************************************************************************)
(* The string tables of src/demofiledump.cpp: the registry that the        *)
(* CreateStringTable messages fill, and the decoding of entries            *)
(* (ParseStringTableUpdate), which depends on a history of the last        *)
(* strings that both sides keep, on the index of the entry before, and on  *)
(* the sizes the registry holds.                                           *)
(*                                                                         *)
(* The other side is the server that encoded the entries: it has its own   *)
(* tables and its own history, and `due' is the entry it wrote.  `sound'   *)
(* says whether it has kept to the rules so far.                           *)
(***************************************************************************)
EXTENDS Integers, Sequences

CONSTANTS
    Letters,            \* what strings are made of
    Strings,            \* the strings entries are spelt with
    Tables,             \* what a table may be
    UserDataSizes,      \* the sizes of user data, in bits
    MAX_STRING_TABLES,
    HistorySize,        \* how many strings a history holds (32)
    HistoryLength,      \* and how much of each (31 letters)
    MaxCreated,         \* bound: the tables a server creates
    MaxSent             \* bound: the entries of a message

(* floor(log2(n)), as the loop computes it.                                *)
Log2[n \in Nat] == IF n < 2 THEN 0 ELSE 1 + Log2[n \div 2]
nEntryBits(nMaxEntries) == Log2[nMaxEntries]

(* An index written in that many bits, and read back.                      *)
IndexCode(index, nMaxEntries) == index % 2^nEntryBits(nMaxEntries)

TableRecords ==
    [userinfo : BOOLEAN, nMaxEntries : Nat \ {0}, nUserDataSizeBits : Nat \ {0},
     nUserDataFixedSize : BOOLEAN]

ASSUME StringsAssumption == Strings \subseteq Seq(Letters)
ASSUME TablesAssumption == Tables \subseteq TableRecords
ASSUME SizesAssumption == UserDataSizes \subseteq Nat \ {0}
ASSUME HistoryAssumption ==
    HistorySize \in Nat \ {0} /\ HistoryLength \in Nat
ASSUME BoundsAssumption ==
    MAX_STRING_TABLES \in Nat /\ MaxCreated \in Nat /\ MaxSent \in Nat
(* A server's tables have a power of two of entries, or their indices do   *)
(* not fit into the bits they are written in.                              *)
ASSUME EntryBitsAssumption ==
    \A t \in Tables : \A i \in 0 .. t.nMaxEntries - 1 : IndexCode(i, t.nMaxEntries) = i

VARIABLES
    s_StringTables,     \* the registry; s_nNumStringTables is its length
    pc,                 \* "idle", "begin", "index", "string", "data", "exit", "undefined"
    table,              \* what the update is parsed with
    creating,           \* whether the message creates the table
    entries,            \* how many entries it has left unread
    lastEntry,
    history,            \* of the last strings
    entry,              \* the entry as far as it was read
    tables,             \* the server's tables
    subject,            \* the one its message is about
    plain,              \* whether that is not encoded with dictionaries
    sent,               \* the server's history
    due,                \* the entry it wrote
    intact,             \* no string of this message lost its prefix
    sound

vars == <<s_StringTables, pc, table, creating, entries, lastEntry, history, entry,
          tables, subject, plain, sent, due, intact, sound>>
message == <<table, creating, tables, subject, plain>>

NoData == 0
Entries == [index : Int, string : Seq(Letters), data : Nat, player : BOOLEAN]
NoEntry == [index |-> -1, string |-> <<>>, data |-> NoData, player |-> FALSE]
-----------------------------------------------------------------------------
Truncate(string, n) == IF Len(string) <= n THEN string ELSE SubSeq(string, 1, n)

(* What the server's history is after a string.                            *)
Record(h, string) ==
    Append(IF Len(h) >= HistorySize THEN Tail(h) ELSE h, Truncate(string, HistoryLength))

(* Mutant: strings are kept in full.                                       *)
KeepWhole(h, string) ==
    Append(IF Len(h) >= HistorySize THEN Tail(h) ELSE h, string)
(* Mutant: the oldest string is dropped one entry late.                    *)
DropLate(h, string) ==
    Append(IF Len(h) > HistorySize THEN Tail(h) ELSE h, Truncate(string, HistoryLength))
(* The history after a string: the oldest makes room, the new one is cut.  *)
Remember(h, string) ==
    Append(IF Len(h) >= HistorySize THEN Tail(h) ELSE h, Truncate(string, HistoryLength))

(* Mutant: an index that was written does not count for the next entry.    *)
LastImplied(implied, entryIndex) == IF implied THEN entryIndex ELSE lastEntry
NextLastEntry(implied, entryIndex) == entryIndex

(* Mutant: the last entry of a table is out of bounds.                     *)
BogusLast(entryIndex) == entryIndex < 0 \/ entryIndex >= table.nMaxEntries - 1
Bogus(entryIndex) == entryIndex < 0 \/ entryIndex >= table.nMaxEntries

(* The size of an entry's user data, of which `written' says so itself.    *)
UserDataRead(t, written) ==
    IF t.nUserDataFixedSize THEN t.nUserDataSizeBits ELSE written

(* Mutant: a table whose entries could not be read is not registered.      *)
RegisterIfRead == IF entries > 0 THEN s_StringTables ELSE Append(s_StringTables, table)
Register == Append(s_StringTables, table)

(* ParseStringTableUpdate returns; CreateStringTable then registers the    *)
(* table, whether the array is full or not: one behind its end may be      *)
(* found there again, or have spoilt what else was there.                  *)
Return ==
    /\ s_StringTables' = IF creating THEN Register ELSE s_StringTables
    /\ IF creating /\ Len(s_StringTables) >= MAX_STRING_TABLES
       THEN pc' \in {"idle", "undefined"}
       ELSE pc' = "idle"
-----------------------------------------------------------------------------
Init ==
    /\ s_StringTables = <<>>
    /\ pc = "idle"
    /\ table \in Tables
    /\ creating = FALSE
    /\ entries = 0 /\ lastEntry = -1
    /\ history = <<>> /\ entry = NoEntry
    /\ tables = <<>> /\ subject = 0 /\ plain = TRUE
    /\ sent = <<>> /\ due = NoEntry
    /\ intact = TRUE /\ sound = TRUE

BeginParse(n, t) ==
    /\ table' = t
    /\ entries' = n
    /\ lastEntry' = -1
    /\ history' = <<>> /\ sent' = <<>>
    /\ entry' = NoEntry /\ due' = NoEntry
    /\ intact' = TRUE
    /\ plain' \in BOOLEAN
    /\ pc' = "begin"

CreateStringTable(t, n) ==
    /\ pc = "idle"
    /\ Len(tables) < MaxCreated
    /\ n <= t.nMaxEntries
    /\ BeginParse(n, t)
    /\ creating' = TRUE
    /\ tables' = Append(tables, t)
    /\ subject' = Len(tables) + 1
    /\ sound' = (sound /\ Len(tables) < MAX_STRING_TABLES)
    /\ UNCHANGED s_StringTables

(* table_id counts from 0.                                                 *)
IsGood(table_id, n) ==
    /\ table_id < Len(s_StringTables)
    /\ s_StringTables[table_id + 1].nMaxEntries > n

UpdateStringTable(table_id, n) ==
    /\ pc = "idle"
    /\ table_id < Len(tables)
    /\ IsGood(table_id, n)
    /\ BeginParse(n, s_StringTables[table_id + 1])
    /\ creating' = FALSE
    /\ subject' = table_id + 1
    /\ UNCHANGED <<s_StringTables, tables, sound>>

(* "Bad UpdateStringTable": all of its entries are left unread.  A sound   *)
(* one is bad only if it changes every entry of the table.                 *)
BadUpdateStringTable(table_id, n) ==
    /\ pc = "idle"
    /\ ~IsGood(table_id, n)
    /\ entries' = n
    /\ creating' = FALSE
    /\ subject' = IF table_id < Len(tables) THEN table_id + 1 ELSE 0
    /\ plain' \in BOOLEAN
    /\ sound' = (sound /\ table_id < Len(tables) /\ n = tables[table_id + 1].nMaxEntries)
    /\ UNCHANGED <<s_StringTables, pc, table, tables, lastEntry, history, entry, sent, due, intact>>

(* "Encoded with dictionaries, unable to decode": none of it is.           *)
ReadEncoding ==
    /\ pc = "begin"
    /\ IF plain THEN pc' = "index" /\ s_StringTables' = s_StringTables ELSE Return
    /\ UNCHANGED <<message, entries, lastEntry, history, entry, sent, due, intact, sound>>

(* The loop over the entries begins with the index of one; the server may  *)
(* leave it out if it is the next one, which a sound server does only if   *)
(* the table has it.                                                       *)
EntryIndex(implied, code) == IF implied THEN lastEntry + 1 ELSE code

ReadIndex(index, implied) ==
    /\ pc = "index"
    /\ entries > 0
    /\ IF implied THEN index = due.index + 1 ELSE index < tables[subject].nMaxEntries
    /\ LET entryIndex == EntryIndex(implied, IndexCode(index, tables[subject].nMaxEntries))
       IN  /\ lastEntry' = NextLastEntry(implied, entryIndex)
           /\ IF Bogus(entryIndex)
              THEN /\ Return
                   /\ entry' = entry
              ELSE /\ pc' = "string"
                   /\ entry' = [NoEntry EXCEPT !.index = entryIndex]
                   /\ UNCHANGED s_StringTables
    /\ due' = [NoEntry EXCEPT !.index = index]
    /\ sound' = (sound /\ index < tables[subject].nMaxEntries)
    /\ UNCHANGED <<message, entries, history, sent, intact>>

(* A string may be left out,                                               *)
OmitString ==
    /\ pc = "string"
    /\ pc' = "data"
    /\ UNCHANGED <<s_StringTables, message, entries, lastEntry, history, entry, sent, due, intact, sound>>

(* written in full,                                                        *)
ReadWholeString(string) ==
    /\ pc = "string"
    /\ entry' = [entry EXCEPT !.string = string]
    /\ due' = [due EXCEPT !.string = string]
    /\ pc' = "data"
    /\ UNCHANGED <<s_StringTables, message, entries, lastEntry, history, sent, intact, sound>>

(* or begin like one in the history.  The snprintf that joins the two      *)
(* parts has its own output as an argument: it keeps the prefix or, where  *)
(* the library clears the output first, loses it.                          *)
ReadSubstring(i, bytestocopy, rest) ==
    /\ pc = "string"
    /\ i < Len(history)
    /\ \E kept \in BOOLEAN :
          LET prefix == IF kept THEN Truncate(history[i + 1], bytestocopy) ELSE <<>>
          IN  /\ entry' = [entry EXCEPT !.string = prefix \o rest]
              /\ intact' = (intact /\ prefix = Truncate(history[i + 1], bytestocopy))
    /\ IF i < Len(sent)
       THEN due' = [due EXCEPT !.string = Truncate(sent[i + 1], bytestocopy) \o rest]
       ELSE due' = due
    /\ sound' = (sound /\ i < Len(sent))
    /\ pc' = "data"
    /\ UNCHANGED <<s_StringTables, message, entries, lastEntry, history, sent>>

(* "Invalid index": the program exits.                                     *)
ExitOnIndex(i) ==
    /\ pc = "string"
    /\ i >= Len(history)
    /\ pc' = "exit"
    /\ sound' = (sound /\ i < Len(sent))
    /\ UNCHANGED <<s_StringTables, message, entries, lastEntry, history, entry, sent, due, intact>>

(* The user data, if there is any, and with it the end of the entry, which *)
(* is put in the history by the program as it is by the server.            *)
ReadUserData(size) ==
    /\ pc = "data"
    /\ LET written == UserDataRead(tables[subject], size)
       IN  /\ due' = [due EXCEPT !.data = IF size = NoData THEN NoData ELSE written,
                                 !.player = tables[subject].userinfo /\ size # NoData]
           /\ entry' = [entry EXCEPT
                  !.data = IF size = NoData THEN NoData ELSE UserDataRead(table, written),
                  !.player = table.userinfo /\ size # NoData]
    /\ history' = Remember(history, entry.string)
    /\ sent' = Record(sent, due.string)
    /\ entries' = entries - 1
    /\ pc' = "index"
    /\ UNCHANGED <<s_StringTables, message, lastEntry, intact, sound>>

EndUpdate ==
    /\ pc = "index"
    /\ entries = 0
    /\ Return
    /\ UNCHANGED <<message, entries, lastEntry, history, entry, sent, due, intact, sound>>

Ended == pc \in {"exit", "undefined"} /\ UNCHANGED vars

Next ==
    \/ \E n \in 0 .. MaxSent :
          \/ \E t \in Tables : CreateStringTable(t, n)
          \/ \E table_id \in 0 .. MaxCreated :
                UpdateStringTable(table_id, n) \/ BadUpdateStringTable(table_id, n)
    \/ ReadEncoding
    \/ \E implied \in BOOLEAN :
          pc = "index" /\ \E index \in 0 .. tables[subject].nMaxEntries : ReadIndex(index, implied)
    \/ OmitString
    \/ \E string \in Strings :
          \/ ReadWholeString(string)
          \/ \E i \in 0 .. HistorySize - 1, n \in 0 .. HistoryLength :
                ReadSubstring(i, n, string)
    \/ \E i \in 0 .. HistorySize - 1 : ExitOnIndex(i)
    \/ \E size \in UserDataSizes \union {NoData} : ReadUserData(size)
    \/ EndUpdate
    \/ Ended

Spec == Init /\ [][Next]_vars
-----------------------------------------------------------------------------
TypeOK ==
    /\ s_StringTables \in Seq(Tables)
    /\ sound => Len(s_StringTables) <= MAX_STRING_TABLES
    /\ pc \in {"idle", "begin", "index", "string", "data", "exit", "undefined"}
    /\ table \in Tables
    /\ creating \in BOOLEAN /\ plain \in BOOLEAN
    /\ entries \in 0 .. MaxSent
    /\ lastEntry \in Int
    /\ history \in Seq(Seq(Letters)) /\ Len(history) <= HistorySize
    /\ entry \in Entries
    /\ tables \in Seq(Tables) /\ subject \in 0 .. Len(tables)
    /\ sent \in Seq(Seq(Letters))
    /\ due \in Entries
    /\ intact \in BOOLEAN /\ sound \in BOOLEAN

(* The history has as many strings as the server's, so that no index of a  *)
(* sound server is taken for an invalid one; string by string it is the    *)
(* server's as long as no prefix of this message was lost (`intact').      *)
SameHistory ==
    sound =>
        /\ Len(history) = Len(sent)
        /\ intact => history = sent

(* Every entry is read under the index it was sent with, whether that was  *)
(* written or left out, and with as much user data as there is, which is   *)
(* what keeps the reader in step; with its string too, as long as no       *)
(* prefix of this message was lost (`intact').                             *)
EntryAsSent ==
    sound /\ pc \in {"index", "string", "data"} =>
        /\ [entry EXCEPT !.string = <<>>] = [due EXCEPT !.string = <<>>]
        /\ intact => entry = due

(* The registry has the server's tables, in its order: a table_id means    *)
(* the same to both, also behind a table whose entries were not decoded.   *)
SameTables ==
    sound =>
        IF pc # "idle" /\ creating
        THEN Append(s_StringTables, table) = tables
        ELSE s_StringTables = tables

(* The update of every entry of a table, which line 776 refuses.           *)
ChangesEveryEntry == ~creating /\ entries = tables[subject].nMaxEntries

(* A sound message that is not encoded with dictionaries is read to its    *)
(* last entry, unless it is an update of every entry of its table; none    *)
(* makes the program exit or register a table outside its array.           *)
ReadToItsEnd ==
    sound =>
        /\ pc \notin {"exit", "undefined"}
        /\ pc = "idle" /\ plain /\ entries > 0 => ChangesEveryEntry
=============================================================================
