-------------------------- MODULE StringTablesProof --------------------------
(***************************************************************************)
(* The invariants of StringTables, for histories, tables, strings and      *)
(* messages of any size.                                                   *)
(***************************************************************************)
EXTENDS StringTables, SequenceTheorems, TLAPS

Reading == {"begin", "index", "string", "data"}

(* What holds whatever the server does.                                    *)
Shape ==
    /\ TypeOK
    /\ pc # "idle" => subject \in 1 .. Len(tables)
    /\ pc \in {"string", "data"} => entries > 0

(* What the two sides agree on.                                            *)
SameMessage ==
    pc \in Reading =>
        /\ table = tables[subject]
        /\ lastEntry = due.index
        /\ pc = "begin" => entry = due
        /\ creating => Len(tables) <= MAX_STRING_TABLES

Agreed ==
    /\ SameHistory
    /\ EntryAsSent
    /\ SameTables
    /\ ReadToItsEnd
    /\ sound => SameMessage

IInv == Shape /\ Agreed
-----------------------------------------------------------------------------
(* A truncated string is a string.                                         *)
LEMMA TruncateTyped ==
    ASSUME NEW s \in Seq(Letters), NEW n \in Nat
    PROVE  Truncate(s, n) \in Seq(Letters)
BY DEF Truncate

(* A history that remembers one more string is a history, and its length   *)
(* depends only on what it was.                                            *)
LEMMA RememberTyped ==
    ASSUME NEW h \in Seq(Seq(Letters)), Len(h) <= HistorySize, NEW s \in Seq(Letters)
    PROVE  /\ Remember(h, s) \in Seq(Seq(Letters))
           /\ Len(Remember(h, s)) <= HistorySize
           /\ Len(Remember(h, s)) = IF Len(h) = HistorySize THEN HistorySize ELSE Len(h) + 1
<1> DEFINE T == Truncate(s, HistoryLength)
<1>1. T \in Seq(Letters)
  BY TruncateTyped, HistoryAssumption
<1>2. HistorySize \in Nat \ {0} /\ Len(h) \in Nat
  BY HistoryAssumption
<1> HIDE DEF T
<1>3. CASE Len(h) >= HistorySize
  <2>1. Len(h) = HistorySize /\ h # <<>>
    BY <1>2, <1>3
  <2>2. Tail(h) \in Seq(Seq(Letters)) /\ Len(Tail(h)) = Len(h) - 1
    BY <2>1, HeadTailProperties
  <2>3. Remember(h, s) = Append(Tail(h), T)
    BY <1>3 DEF Remember, T
  <2> QED BY <1>1, <1>2, <2>1, <2>2, <2>3, AppendProperties
<1>4. CASE ~(Len(h) >= HistorySize)
  <2>1. Remember(h, s) = Append(h, T)
    BY <1>4 DEF Remember, T
  <2> QED BY <1>1, <1>2, <1>4, <2>1, AppendProperties
<1> QED BY <1>3, <1>4

(* What the server remembers is a history, however long it was.            *)
LEMMA RecordTyped ==
    ASSUME NEW h \in Seq(Seq(Letters)), NEW s \in Seq(Letters)
    PROVE  Record(h, s) \in Seq(Seq(Letters))
<1> DEFINE T == Truncate(s, HistoryLength)
<1>1. T \in Seq(Letters)
  BY TruncateTyped, HistoryAssumption
<1>2. HistorySize \in Nat \ {0} /\ Len(h) \in Nat
  BY HistoryAssumption
<1> HIDE DEF T
<1>3. CASE Len(h) >= HistorySize
  <2>1. h # <<>>
    BY <1>2, <1>3
  <2>2. Tail(h) \in Seq(Seq(Letters))
    BY <2>1, HeadTailProperties
  <2>3. Record(h, s) = Append(Tail(h), T)
    BY <1>3 DEF Record, T
  <2> QED BY <1>1, <2>2, <2>3, AppendProperties
<1>4. CASE ~(Len(h) >= HistorySize)
  <2>1. Record(h, s) = Append(h, T)
    BY <1>4 DEF Record, T
  <2> QED BY <1>1, <2>1, AppendProperties
<1> QED BY <1>3, <1>4

(* The program and the server remember a string in the same way.           *)
LEMMA RecordIsRemember ==
    ASSUME NEW h, NEW s PROVE Record(h, s) = Remember(h, s)
BY DEF Record, Remember
-----------------------------------------------------------------------------
(* Return goes back to the loop over the messages, with one table more if  *)
(* the message created one.                                                *)
LEMMA ReturnStep ==
    ASSUME TypeOK, Return
    PROVE  /\ pc' \in {"idle", "undefined"}
           /\ s_StringTables' \in Seq(Tables)
           /\ ~creating => pc' = "idle" /\ s_StringTables' = s_StringTables
           /\ creating => s_StringTables' = Append(s_StringTables, table)
           /\ creating /\ Len(s_StringTables) < MAX_STRING_TABLES => pc' = "idle"
<1>1. /\ s_StringTables \in Seq(Tables)
      /\ table \in Tables /\ creating \in BOOLEAN
  BY DEF TypeOK
<1>2. Append(s_StringTables, table) \in Seq(Tables)
  BY <1>1, AppendProperties
<1>3. MAX_STRING_TABLES \in Nat /\ Len(s_StringTables) \in Nat
  BY <1>1, BoundsAssumption
<1> QED BY <1>1, <1>2, <1>3 DEF Return, Register

(* When a sound server's message is left, the registry has its tables and  *)
(* room for them.                                                          *)
LEMMA ReturnAgreed ==
    ASSUME IInv, Return, sound, pc \in Reading
    PROVE  /\ pc' = "idle" /\ s_StringTables' = tables
           /\ Len(s_StringTables') <= MAX_STRING_TABLES
<1>1. CASE ~creating
  BY <1>1, ReturnStep DEF IInv, Shape, TypeOK, Agreed, SameTables
<1>2. CASE creating
  <2>1. Append(s_StringTables, table) = tables /\ Len(tables) <= MAX_STRING_TABLES
    BY <1>2 DEF IInv, Agreed, SameTables, SameMessage, Reading
  <2>2. Len(s_StringTables) < MAX_STRING_TABLES
    <3>1. s_StringTables \in Seq(Tables) /\ table \in Tables
      BY DEF IInv, Shape, TypeOK
    <3>2. Len(tables) = Len(s_StringTables) + 1
      BY <2>1, <3>1, AppendProperties
    <3> QED BY <2>1, <3>1, <3>2, BoundsAssumption
  <2> QED BY <1>2, <2>1, <2>2, ReturnStep DEF IInv, Shape
<1>3. creating \in BOOLEAN
  BY DEF IInv, Shape, TypeOK
<1> QED BY <1>1, <1>2, <1>3
-----------------------------------------------------------------------------
LEMMA NoEntryTyped == NoEntry \in Entries
BY DEF NoEntry, Entries, NoData

LEMMA InitInv == Init => IInv
<1> SUFFICES ASSUME Init PROVE IInv
  OBVIOUS
<1>1. TypeOK
  <2>1. /\ s_StringTables = <<>> /\ tables = <<>> /\ history = <<>> /\ sent = <<>>
        /\ entry = NoEntry /\ due = NoEntry /\ pc = "idle" /\ table \in Tables
        /\ creating = FALSE /\ plain = TRUE /\ intact = TRUE /\ sound = TRUE
        /\ entries = 0 /\ lastEntry = -1 /\ subject = 0
    BY DEF Init
  <2>2. <<>> \in Seq(Tables) /\ <<>> \in Seq(Seq(Letters)) /\ Len(<<>>) = 0
    OBVIOUS
  <2>3. 0 <= MAX_STRING_TABLES /\ 0 \in 0 .. MaxSent /\ 0 <= HistorySize
    BY BoundsAssumption, HistoryAssumption
  <2>4. -1 \in Int /\ 0 \in 0 .. 0
    OBVIOUS
  <2> QED BY <2>1, <2>2, <2>3, <2>4, NoEntryTyped DEF TypeOK
<1>2. Shape
  BY <1>1 DEF Init, Shape
<1>3. Agreed
  BY DEF Init, Agreed, SameHistory, EntryAsSent, SameTables, ReadToItsEnd, SameMessage, Reading
<1> QED BY <1>2, <1>3 DEF IInv

(* A new message starts both sides afresh.                                 *)
LEMMA BeginStep ==
    ASSUME TypeOK, NEW n \in 0 .. MaxSent, NEW t \in Tables, BeginParse(n, t)
    PROVE  /\ pc' = "begin" /\ table' = t /\ entries' = n
           /\ lastEntry' = -1 /\ due' = NoEntry /\ entry' = NoEntry
           /\ history' = <<>> /\ sent' = <<>>
           /\ intact' \in BOOLEAN /\ plain' \in BOOLEAN
BY DEF BeginParse

LEMMA CreateInv ==
    ASSUME IInv, NEW t \in Tables, NEW n \in 0 .. MaxSent, CreateStringTable(t, n)
    PROVE  IInv'
<1>1. TypeOK /\ pc = "idle" /\ BeginParse(n, t) /\ creating' = TRUE
      /\ tables' = Append(tables, t) /\ subject' = Len(tables) + 1
      /\ sound' = (sound /\ Len(tables) < MAX_STRING_TABLES)
      /\ s_StringTables' = s_StringTables
  BY DEF IInv, Shape, CreateStringTable
<1>2. tables \in Seq(Tables)
  BY <1>1 DEF TypeOK
<1>3. /\ tables' \in Seq(Tables) /\ Len(tables') = Len(tables) + 1
      /\ tables'[Len(tables) + 1] = t
  BY <1>1, <1>2, AppendProperties
<1>4. Len(tables) \in Nat
  BY <1>2
<1>5. /\ pc' = "begin" /\ table' = t /\ entries' = n
      /\ lastEntry' = -1 /\ due' = NoEntry /\ entry' = NoEntry
      /\ history' = <<>> /\ sent' = <<>>
      /\ intact' \in BOOLEAN /\ plain' \in BOOLEAN
  BY <1>1, BeginStep
<1>6. TypeOK'
  <2>1. <<>> \in Seq(Seq(Letters)) /\ Len(<<>>) <= HistorySize
    BY HistoryAssumption
  <2>2. subject' \in 0 .. Len(tables')
    BY <1>1, <1>3, <1>4
  <2>3. sound' \in BOOLEAN
    BY <1>1 DEF TypeOK
  <2> QED BY <1>1, <1>3, <1>5, <2>1, <2>2, <2>3, NoEntryTyped DEF TypeOK
<1>7. Shape'
  BY <1>1, <1>3, <1>4, <1>5, <1>6 DEF Shape
<1>8. Agreed'
  <2>1. (SameHistory /\ EntryAsSent /\ ReadToItsEnd)'
    BY <1>5 DEF SameHistory, EntryAsSent, ReadToItsEnd
  <2>2. SameTables'
    <3>1. sound' => s_StringTables = tables
      BY <1>1 DEF IInv, Agreed, SameTables
    <3> QED BY <1>1, <1>5, <3>1 DEF SameTables
  <2>3. sound' => SameMessage'
    <3>1. sound' => Len(tables') <= MAX_STRING_TABLES
      <4>1. sound' => Len(tables) < MAX_STRING_TABLES
        BY <1>1
      <4> QED BY <4>1, <1>3, <1>4, BoundsAssumption
    <3>2. table' = tables'[subject'] /\ lastEntry' = due'.index
      BY <1>1, <1>3, <1>5 DEF NoEntry
    <3> QED BY <1>5, <3>1, <3>2 DEF SameMessage
  <2> QED BY <2>1, <2>2, <2>3 DEF Agreed
<1> QED BY <1>7, <1>8 DEF IInv

LEMMA UpdateInv ==
    ASSUME IInv, NEW id \in 0 .. MaxCreated, NEW n \in 0 .. MaxSent,
           UpdateStringTable(id, n)
    PROVE  IInv'
<1>1. /\ TypeOK /\ pc = "idle" /\ id < Len(tables) /\ id < Len(s_StringTables)
      /\ BeginParse(n, s_StringTables[id + 1])
      /\ creating' = FALSE /\ subject' = id + 1
      /\ s_StringTables' = s_StringTables /\ tables' = tables /\ sound' = sound
  BY DEF IInv, Shape, UpdateStringTable, IsGood
<1>2. tables \in Seq(Tables) /\ s_StringTables \in Seq(Tables)
  BY <1>1 DEF TypeOK
<1>3. id \in Nat /\ id + 1 \in 1 .. Len(tables) /\ id + 1 \in 1 .. Len(s_StringTables)
  BY <1>1, <1>2, BoundsAssumption
<1>4. s_StringTables[id + 1] \in Tables
  BY <1>2, <1>3, ElementOfSeq
<1>5. /\ pc' = "begin" /\ table' = s_StringTables[id + 1] /\ entries' = n
      /\ lastEntry' = -1 /\ due' = NoEntry /\ entry' = NoEntry
      /\ history' = <<>> /\ sent' = <<>>
      /\ intact' \in BOOLEAN /\ plain' \in BOOLEAN
  BY <1>1, <1>4, BeginStep
<1>6. TypeOK'
  <2>1. <<>> \in Seq(Seq(Letters)) /\ Len(<<>>) <= HistorySize
    BY HistoryAssumption
  <2>2. subject' \in 0 .. Len(tables')
    BY <1>1, <1>3
  <2>3. /\ s_StringTables' \in Seq(Tables)
        /\ sound' => Len(s_StringTables') <= MAX_STRING_TABLES
        /\ tables' \in Seq(Tables) /\ sound' \in BOOLEAN
    BY <1>1 DEF TypeOK
  <2>4. lastEntry' \in Int
    BY <1>5
  <2> QED BY <1>1, <1>4, <1>5, <2>1, <2>2, <2>3, <2>4, NoEntryTyped DEF TypeOK
<1>7. Shape'
  BY <1>1, <1>3, <1>5, <1>6 DEF Shape
<1>8. Agreed'
  <2>1. (SameHistory /\ EntryAsSent /\ ReadToItsEnd)'
    BY <1>5 DEF SameHistory, EntryAsSent, ReadToItsEnd
  <2>2. sound => s_StringTables = tables
    BY <1>1 DEF IInv, Agreed, SameTables
  <2>3. SameTables'
    BY <1>1, <2>2 DEF SameTables
  <2>4. sound' => SameMessage'
    BY <1>1, <1>5, <2>2 DEF SameMessage, NoEntry
  <2> QED BY <2>1, <2>3, <2>4 DEF Agreed
<1> QED BY <1>7, <1>8 DEF IInv

LEMMA BadUpdateInv ==
    ASSUME IInv, NEW id \in 0 .. MaxCreated, NEW n \in 0 .. MaxSent,
           BadUpdateStringTable(id, n)
    PROVE  IInv'
<1>1. /\ TypeOK /\ pc = "idle" /\ entries' = n /\ creating' = FALSE
      /\ subject' = IF id < Len(tables) THEN id + 1 ELSE 0
      /\ plain' \in BOOLEAN
      /\ sound' = (sound /\ id < Len(tables) /\ n = tables[id + 1].nMaxEntries)
      /\ UNCHANGED <<s_StringTables, pc, table, tables, lastEntry, history, entry, sent, due, intact>>
  BY DEF IInv, Shape, BadUpdateStringTable
<1>2. sound' \in BOOLEAN /\ (sound' => sound)
  BY <1>1 DEF TypeOK
<1>3. subject' \in 0 .. Len(tables)
  <2>1. Len(tables) \in Nat /\ id \in Nat
    BY <1>1, BoundsAssumption DEF TypeOK
  <2> QED BY <1>1, <2>1
<1>4. TypeOK'
  BY <1>1, <1>2, <1>3 DEF TypeOK
<1>5. Shape'
  BY <1>1, <1>4 DEF Shape
<1>6. sound' => ChangesEveryEntry'
  BY <1>1 DEF ChangesEveryEntry
<1>7. Agreed'
  BY <1>1, <1>2, <1>6 DEF IInv, Agreed, SameHistory, EntryAsSent, SameTables, ReadToItsEnd,
     SameMessage, Reading
<1> QED BY <1>5, <1>7 DEF IInv

(* A message is left, at its end or before.                                *)
LEMMA LeaveInv ==
    ASSUME IInv, Return, pc \in Reading,
           UNCHANGED <<table, creating, tables, subject, plain, entries, history, sent, intact>>,
           entry' \in Entries, due' \in Entries, lastEntry' \in Int,
           sound' \in BOOLEAN, sound' => sound,
           sound' /\ plain => entries = 0
    PROVE  IInv'
<1>1. TypeOK
  BY DEF IInv, Shape
<1>2. /\ pc' \in {"idle", "undefined"}
      /\ s_StringTables' \in Seq(Tables)
      /\ sound' => Len(s_StringTables') <= MAX_STRING_TABLES
  BY <1>1, ReturnStep, ReturnAgreed
<1>3. TypeOK'
  BY <1>1, <1>2 DEF TypeOK
<1>4. Shape'
  BY <1>2, <1>3 DEF IInv, Shape, Reading
<1>5. sound' => pc' = "idle" /\ s_StringTables' = tables
  BY ReturnAgreed
<1>6. Agreed'
  <2>1. SameHistory'
    BY DEF IInv, Agreed, SameHistory
  <2>2. EntryAsSent' /\ (sound' => SameMessage')
    BY <1>2 DEF EntryAsSent, SameMessage, Reading
  <2>3. SameTables'
    BY <1>5 DEF SameTables
  <2>4. ReadToItsEnd'
    BY <1>5 DEF ReadToItsEnd
  <2> QED BY <2>1, <2>2, <2>3, <2>4 DEF Agreed
<1> QED BY <1>4, <1>6 DEF IInv

LEMMA EncodingInv == ASSUME IInv, ReadEncoding PROVE IInv'
<1>1. /\ TypeOK /\ pc = "begin"
      /\ UNCHANGED <<table, creating, tables, subject, plain, entries, lastEntry, history,
                     entry, sent, due, intact, sound>>
  BY DEF IInv, Shape, ReadEncoding, message
<1>2. CASE ~plain
  <2>1. Return
    BY <1>2 DEF ReadEncoding
  <2>2. pc \in Reading /\ entry' \in Entries /\ due' \in Entries /\ lastEntry' \in Int
        /\ sound' \in BOOLEAN
    BY <1>1 DEF TypeOK, Reading
  <2> QED BY <1>1, <1>2, <2>1, <2>2, LeaveInv
<1>3. CASE plain
  <2>1. pc' = "index" /\ s_StringTables' = s_StringTables
    BY <1>3 DEF ReadEncoding
  <2>2. Shape'
    BY <1>1, <2>1 DEF IInv, Shape, TypeOK
  <2>3. Agreed'
    <3>1. SameHistory'
      BY <1>1 DEF IInv, Agreed, SameHistory
    <3>2. EntryAsSent'
      BY <1>1, <2>1 DEF IInv, Agreed, SameMessage, EntryAsSent, Reading
    <3>3. SameTables' /\ ReadToItsEnd' /\ (sound' => SameMessage')
      BY <1>1, <2>1 DEF IInv, Agreed, SameTables, ReadToItsEnd, SameMessage, Reading
    <3> QED BY <3>1, <3>2, <3>3 DEF Agreed
  <2> QED BY <2>2, <2>3 DEF IInv
<1> QED BY <1>2, <1>3 DEF IInv, Shape, TypeOK

LEMMA EndInv == ASSUME IInv, EndUpdate PROVE IInv'
<1>1. /\ TypeOK /\ pc = "index" /\ entries = 0 /\ Return
      /\ UNCHANGED <<table, creating, tables, subject, plain, entries, lastEntry, history,
                     entry, sent, due, intact, sound>>
  BY DEF IInv, Shape, EndUpdate, message
<1>2. pc \in Reading /\ entry' \in Entries /\ due' \in Entries /\ lastEntry' \in Int
      /\ sound' \in BOOLEAN
  BY <1>1 DEF TypeOK, Reading
<1> QED BY <1>1, <1>2, LeaveInv

(* The decoded index is the one that was written, or was left out.         *)
LEMMA IndexDecoded ==
    ASSUME IInv, NEW index \in Nat, NEW implied \in BOOLEAN, ReadIndex(index, implied), sound
    PROVE  EntryIndex(implied, IndexCode(index, tables[subject].nMaxEntries)) = index
<1>1. tables[subject] \in Tables
  <2>1. pc = "index" /\ tables \in Seq(Tables) /\ subject \in 1 .. Len(tables)
    BY DEF IInv, Shape, TypeOK, ReadIndex
  <2> QED BY <2>1, ElementOfSeq
<1>2. lastEntry = due.index
  BY DEF IInv, Agreed, SameMessage, Reading, ReadIndex
<1>3. CASE implied
  <2>1. index = due.index + 1
    BY <1>3 DEF ReadIndex
  <2> QED BY <1>2, <1>3, <2>1 DEF EntryIndex
<1>4. CASE ~implied
  <2>1. index < tables[subject].nMaxEntries
    BY <1>4 DEF ReadIndex
  <2>2. tables[subject].nMaxEntries \in Nat
    BY <1>1, TablesAssumption DEF TableRecords
  <2>3. index \in 0 .. tables[subject].nMaxEntries - 1
    BY <2>1, <2>2
  <2>4. IndexCode(index, tables[subject].nMaxEntries) = index
    BY <1>1, <2>3, EntryBitsAssumption
  <2> QED BY <1>4, <2>4 DEF EntryIndex
<1> QED BY <1>3, <1>4

(* Whatever was written, an index is read.                                 *)
LEMMA IndexTyped ==
    ASSUME IInv, NEW index \in Nat, NEW implied \in BOOLEAN, ReadIndex(index, implied)
    PROVE  EntryIndex(implied, IndexCode(index, tables[subject].nMaxEntries)) \in Int
<1>1. tables[subject] \in Tables
  <2>1. pc = "index" /\ tables \in Seq(Tables) /\ subject \in 1 .. Len(tables)
    BY DEF IInv, Shape, TypeOK, ReadIndex
  <2> QED BY <2>1, ElementOfSeq
<1>2. lastEntry \in Int
  BY DEF IInv, Shape, TypeOK
<1>3. CASE implied
  BY <1>2, <1>3 DEF EntryIndex
<1>4. CASE ~implied
  <2>1. index < tables[subject].nMaxEntries
    BY <1>4 DEF ReadIndex
  <2>2. tables[subject].nMaxEntries \in Nat
    BY <1>1, TablesAssumption DEF TableRecords
  <2>3. index \in 0 .. tables[subject].nMaxEntries - 1
    BY <2>1, <2>2
  <2>4. IndexCode(index, tables[subject].nMaxEntries) = index
    BY <1>1, <2>3, EntryBitsAssumption
  <2> QED BY <1>4, <2>4 DEF EntryIndex
<1> QED BY <1>3, <1>4

(* An index put into an entry.                                             *)
LEMMA IndexInEntry ==
    ASSUME NEW e \in Entries, NEW i \in Int
    PROVE  [e EXCEPT !.index = i] \in Entries /\ [e EXCEPT !.index = i].index = i
BY DEF Entries

LEMMA IndexedEntry ==
    ASSUME NEW i \in Int
    PROVE  /\ [NoEntry EXCEPT !.index = i] \in Entries
           /\ [NoEntry EXCEPT !.index = i].index = i
BY IndexInEntry, NoEntryTyped

LEMMA IndexInv ==
    ASSUME IInv, NEW index \in Nat, NEW implied \in BOOLEAN, ReadIndex(index, implied)
    PROVE  IInv'
<1> DEFINE entryIndex == EntryIndex(implied, IndexCode(index, tables[subject].nMaxEntries))
<1>1. /\ TypeOK /\ pc = "index" /\ entries > 0 /\ entryIndex \in Int
      /\ lastEntry' = entryIndex
      /\ due' = [NoEntry EXCEPT !.index = index]
      /\ UNCHANGED <<table, creating, tables, subject, plain, entries, history, sent, intact>>
  BY IndexTyped DEF IInv, Shape, ReadIndex, message, NextLastEntry
<1>2. /\ sound' = (sound /\ index < tables[subject].nMaxEntries)
      /\ sound \in BOOLEAN
  BY DEF ReadIndex, IInv, Shape, TypeOK
<1>3. /\ sound' \in BOOLEAN /\ (sound' => sound)
      /\ sound' => index < tables[subject].nMaxEntries
  BY <1>2
<1>4. due' \in Entries /\ due'.index = index
  BY <1>1, IndexedEntry
<1>5. CASE Bogus(entryIndex)
  <2>1. Return /\ entry' = entry
    BY <1>5 DEF ReadIndex
  <2>2. ~sound'
    <3> SUFFICES ASSUME sound' PROVE FALSE
      OBVIOUS
    <3>1. entryIndex = index /\ table = tables[subject]
      BY <1>1, <1>3, IndexDecoded DEF IInv, Agreed, SameMessage, Reading
    <3>2. index < table.nMaxEntries
      BY <1>3, <3>1
    <3>3. Bogus(index)
      BY <1>5, <3>1
    <3>4. table.nMaxEntries \in Nat
      BY <1>1, TablesAssumption DEF TypeOK, TableRecords
    <3> QED BY <3>2, <3>3, <3>4 DEF Bogus
  <2>3. entry' \in Entries /\ pc \in Reading
    BY <1>1, <2>1 DEF TypeOK, Reading
  <2> HIDE DEF entryIndex
  <2> QED BY <1>1, <1>3, <1>4, <2>1, <2>2, <2>3, LeaveInv
<1>6. CASE ~Bogus(entryIndex)
  <2>1. /\ pc' = "string" /\ s_StringTables' = s_StringTables
        /\ entry' = [NoEntry EXCEPT !.index = entryIndex]
    BY <1>6 DEF ReadIndex
  <2>2. entry' \in Entries
    BY <1>1, <2>1, IndexedEntry
  <2>3. TypeOK'
    BY <1>1, <1>3, <1>4, <2>1, <2>2 DEF TypeOK
  <2>4. Shape'
    BY <1>1, <2>1, <2>3 DEF IInv, Shape
  <2>5. sound' => entryIndex = index
    BY <1>3, IndexDecoded
  <2> HIDE DEF entryIndex
  <2>6. Agreed'
    <3>1. SameHistory'
      BY <1>1, <1>3 DEF IInv, Agreed, SameHistory
    <3>2. EntryAsSent'
      BY <1>1, <2>1, <2>5 DEF EntryAsSent
    <3>3. SameTables' /\ ReadToItsEnd'
      BY <1>1, <1>3, <2>1 DEF IInv, Agreed, SameTables, ReadToItsEnd
    <3>4. sound' => SameMessage'
      BY <1>1, <1>3, <1>4, <2>1, <2>5 DEF IInv, Agreed, SameMessage, Reading
    <3> QED BY <3>1, <3>2, <3>3, <3>4 DEF Agreed
  <2> QED BY <2>4, <2>6 DEF IInv
<1> QED BY <1>5, <1>6

(* A step inside an entry, which leaves both sides with the same one.      *)
LEMMA WithinEntry ==
    ASSUME IInv, pc \in {"index", "string", "data"}, pc' \in {"index", "string", "data"},
           UNCHANGED <<s_StringTables, table, creating, tables, subject, plain, lastEntry>>,
           entries' \in 0 .. MaxSent, pc' \in {"string", "data"} => entries' > 0,
           entry' \in Entries, due' \in Entries, due'.index = due.index,
           history' \in Seq(Seq(Letters)), Len(history') <= HistorySize,
           sent' \in Seq(Seq(Letters)),
           intact' \in BOOLEAN, sound' \in BOOLEAN, sound' => sound,
           SameHistory', EntryAsSent'
    PROVE  IInv'
<1>1. TypeOK'
  BY DEF IInv, Shape, TypeOK
<1>2. Shape'
  BY <1>1 DEF IInv, Shape
<1>3. SameTables' /\ ReadToItsEnd'
  BY DEF IInv, Agreed, SameTables, ReadToItsEnd
<1>4. sound' => SameMessage'
  BY DEF IInv, Agreed, SameMessage, Reading
<1> QED BY <1>2, <1>3, <1>4 DEF IInv, Agreed

LEMMA Untouched ==
    ASSUME IInv
    PROVE  /\ entries \in 0 .. MaxSent /\ (pc \in {"string", "data"} => entries > 0)
           /\ entry \in Entries /\ due \in Entries
           /\ history \in Seq(Seq(Letters)) /\ Len(history) <= HistorySize
           /\ sent \in Seq(Seq(Letters))
           /\ intact \in BOOLEAN /\ sound \in BOOLEAN
           /\ SameHistory /\ EntryAsSent
BY DEF IInv, Shape, TypeOK, Agreed

LEMMA OmitInv == ASSUME IInv, OmitString PROVE IInv'
<1>1. /\ pc = "string" /\ pc' = "data"
      /\ UNCHANGED <<s_StringTables, table, creating, tables, subject, plain, entries,
                     lastEntry, history, entry, sent, due, intact, sound>>
  BY DEF OmitString, message
<1>2. SameHistory' /\ EntryAsSent'
  BY <1>1, Untouched DEF SameHistory, EntryAsSent
<1> QED BY <1>1, <1>2, Untouched, WithinEntry

(* A string put into an entry.                                             *)
LEMMA StringInEntry ==
    ASSUME NEW e \in Entries, NEW s \in Seq(Letters)
    PROVE  /\ [e EXCEPT !.string = s] \in Entries
           /\ [e EXCEPT !.string = s].index = e.index
           /\ [[e EXCEPT !.string = s] EXCEPT !.string = <<>>] = [e EXCEPT !.string = <<>>]
BY DEF Entries

(* Entries that differ in their strings only, and in them if one lost its  *)
(* prefix only, are equal after both were given the same string.           *)
LEMMA WholeInv == ASSUME IInv, NEW string \in Strings, ReadWholeString(string) PROVE IInv'
<1>1. /\ pc = "string" /\ pc' = "data"
      /\ entry' = [entry EXCEPT !.string = string]
      /\ due' = [due EXCEPT !.string = string]
      /\ UNCHANGED <<s_StringTables, table, creating, tables, subject, plain, entries,
                     lastEntry, history, sent, intact, sound>>
  BY DEF ReadWholeString, message
<1>2. string \in Seq(Letters)
  BY StringsAssumption
<1>3. /\ entry' \in Entries /\ due' \in Entries /\ due'.index = due.index
      /\ [entry' EXCEPT !.string = <<>>] = [entry EXCEPT !.string = <<>>]
      /\ [due' EXCEPT !.string = <<>>] = [due EXCEPT !.string = <<>>]
  BY <1>1, <1>2, Untouched, StringInEntry
<1>4. SameHistory'
  BY <1>1, Untouched DEF SameHistory
<1>5. EntryAsSent'
  <2>1. sound /\ intact => entry = due
    BY <1>1, Untouched DEF EntryAsSent
  <2>2. sound => [entry EXCEPT !.string = <<>>] = [due EXCEPT !.string = <<>>]
    BY <1>1, Untouched DEF EntryAsSent
  <2> QED BY <1>1, <1>3, <2>1, <2>2 DEF EntryAsSent
<1> QED BY <1>1, <1>3, <1>4, <1>5, Untouched, WithinEntry
(* A joined string is what the server joined unless it lost its prefix.    *)
LEMMA SubstringInv ==
    ASSUME IInv, NEW i \in 0 .. HistorySize - 1, NEW n \in 0 .. HistoryLength,
           NEW rest \in Strings, ReadSubstring(i, n, rest)
    PROVE  IInv'
<1>1. PICK kept \in BOOLEAN :
         LET prefix == IF kept THEN Truncate(history[i + 1], n) ELSE <<>>
         IN  /\ entry' = [entry EXCEPT !.string = prefix \o rest]
             /\ intact' = (intact /\ prefix = Truncate(history[i + 1], n))
  BY DEF ReadSubstring
<1> DEFINE copied == Truncate(history[i + 1], n)
           prefix == IF kept THEN copied ELSE <<>>
           joined == prefix \o rest
           wanted == Truncate(sent[i + 1], n) \o rest
<1>2. /\ entry' = [entry EXCEPT !.string = joined]
      /\ intact' = (intact /\ prefix = copied)
  BY <1>1
<1>3. /\ pc = "string" /\ pc' = "data" /\ i < Len(history)
      /\ i < Len(sent) => due' = [due EXCEPT !.string = wanted]
      /\ ~(i < Len(sent)) => due' = due
      /\ sound' = (sound /\ i < Len(sent))
      /\ UNCHANGED <<s_StringTables, table, creating, tables, subject, plain, entries,
                     lastEntry, history, sent>>
  BY DEF ReadSubstring, message
<1>4. i \in Nat /\ n \in Nat /\ rest \in Seq(Letters)
  BY StringsAssumption, HistoryAssumption
<1>5. joined \in Seq(Letters)
  <2>1. history \in Seq(Seq(Letters)) /\ i + 1 \in 1 .. Len(history)
    BY <1>3, <1>4, Untouched
  <2>2. history[i + 1] \in Seq(Letters)
    BY <2>1, ElementOfSeq
  <2>3. copied \in Seq(Letters)
    BY <1>4, <2>2, TruncateTyped
  <2>4. prefix \in Seq(Letters)
    BY <2>3
  <2> HIDE DEF prefix
  <2> QED BY <1>4, <2>4
<1>6. i < Len(sent) => wanted \in Seq(Letters)
  <2> SUFFICES ASSUME i < Len(sent) PROVE wanted \in Seq(Letters)
    OBVIOUS
  <2>1. sent \in Seq(Seq(Letters)) /\ i + 1 \in 1 .. Len(sent)
    BY <1>4, Untouched
  <2>2. sent[i + 1] \in Seq(Letters)
    BY <2>1, ElementOfSeq
  <2>3. Truncate(sent[i + 1], n) \in Seq(Letters)
    BY <1>4, <2>2, TruncateTyped
  <2> QED BY <1>4, <2>3
<1>7. /\ intact' \in BOOLEAN /\ sound' \in BOOLEAN
      /\ intact' => intact /\ prefix = copied
      /\ sound' => sound /\ i < Len(sent)
  <2>1. intact \in BOOLEAN /\ sound \in BOOLEAN
    BY Untouched
  <2> HIDE DEF prefix, copied
  <2> QED BY <1>2, <1>3, <2>1
<1>8. sound' /\ intact' => joined = wanted
  <2>1. sound' /\ intact' => history = sent
    BY <1>7, Untouched DEF SameHistory
  <2> QED BY <1>7, <2>1
<1> HIDE DEF joined, wanted
<1>9. /\ entry' \in Entries
      /\ [entry' EXCEPT !.string = <<>>] = [entry EXCEPT !.string = <<>>]
  BY <1>2, <1>5, Untouched, StringInEntry
<1>10. /\ due' \in Entries /\ due'.index = due.index
       /\ [due' EXCEPT !.string = <<>>] = [due EXCEPT !.string = <<>>]
  <2>1. CASE i < Len(sent)
    <3>1. due' = [due EXCEPT !.string = wanted] /\ wanted \in Seq(Letters)
      BY <1>3, <1>6, <2>1
    <3>2. due \in Entries
      BY Untouched
    <3> QED BY <3>1, <3>2, StringInEntry
  <2>2. CASE ~(i < Len(sent))
    BY <1>3, <2>2, Untouched
  <2> QED BY <2>1, <2>2
<1>11. SameHistory'
  BY <1>3, <1>7, Untouched DEF SameHistory
<1>12. EntryAsSent'
  <2>1. sound' => [entry EXCEPT !.string = <<>>] = [due EXCEPT !.string = <<>>]
    BY <1>3, <1>7, Untouched DEF EntryAsSent
  <2>2. sound' /\ intact' => entry = due
    BY <1>3, <1>7, Untouched DEF EntryAsSent
  <2>3. sound' /\ intact' => entry' = due'
    BY <1>2, <1>3, <1>7, <1>8, <2>2
  <2> QED BY <1>9, <1>10, <2>1, <2>3 DEF EntryAsSent
<1> QED BY <1>3, <1>7, <1>9, <1>10, <1>11, <1>12, Untouched, WithinEntry

(* A sound server copies from no string that the program does not have.    *)
LEMMA ExitInv ==
    ASSUME IInv, NEW i \in 0 .. HistorySize - 1, ExitOnIndex(i)
    PROVE  IInv'
<1>1. /\ pc = "string" /\ pc' = "exit" /\ i >= Len(history)
      /\ sound' = (sound /\ i < Len(sent))
      /\ UNCHANGED <<s_StringTables, table, creating, tables, subject, plain, entries,
                     lastEntry, history, entry, sent, due, intact>>
  BY DEF ExitOnIndex, message
<1>2. ~sound'
  <2> SUFFICES ASSUME sound, i < Len(sent) PROVE FALSE
    BY <1>1
  <2>1. Len(history) = Len(sent) /\ Len(history) \in Nat
    BY Untouched DEF SameHistory
  <2> QED BY <1>1, <2>1
<1>3. Shape'
  <2>1. sound' \in BOOLEAN
    BY <1>2, <1>1
  <2> QED BY <1>1, <2>1 DEF IInv, Shape, TypeOK
<1> QED BY <1>2, <1>3 DEF IInv, Agreed, SameHistory, EntryAsSent, SameTables, ReadToItsEnd

(* What the user data add to an entry.                                     *)
LEMMA DataInEntry ==
    ASSUME NEW e \in Entries, NEW d \in Nat, NEW p \in BOOLEAN,
           NEW f, f = [e EXCEPT !.data = d, !.player = p]
    PROVE  /\ f \in Entries
           /\ f.index = e.index
           /\ [f EXCEPT !.string = <<>>]
                = [[e EXCEPT !.string = <<>>] EXCEPT !.data = d, !.player = p]
BY DEF Entries
(* The size of user data is one, and is read as it was written.            *)
LEMMA SizeRead ==
    ASSUME NEW t \in Tables, NEW size \in Nat
    PROVE  /\ UserDataRead(t, size) \in Nat
           /\ UserDataRead(t, UserDataRead(t, size)) = UserDataRead(t, size)
BY TablesAssumption DEF UserDataRead, TableRecords

LEMMA DataInv ==
    ASSUME IInv, NEW size \in UserDataSizes \union {NoData}, ReadUserData(size)
    PROVE  IInv'
<1> DEFINE written == UserDataRead(tables[subject], size)
           wanted == IF size = NoData THEN NoData ELSE written
           got == IF size = NoData THEN NoData ELSE UserDataRead(table, written)
           itsPlayer == tables[subject].userinfo /\ size # NoData
           player == table.userinfo /\ size # NoData
<1>1. /\ TypeOK /\ pc = "data" /\ pc' = "index" /\ entries' = entries - 1
      /\ due' = [due EXCEPT !.data = wanted, !.player = itsPlayer]
      /\ entry' = [entry EXCEPT !.data = got, !.player = player]
      /\ history' = Remember(history, entry.string)
      /\ sent' = Record(sent, due.string)
      /\ UNCHANGED <<s_StringTables, table, creating, tables, subject, plain, lastEntry,
                     intact, sound>>
  BY DEF ReadUserData, message, IInv, Shape
<1>2. tables[subject] \in Tables /\ table \in Tables
  <2>1. tables \in Seq(Tables) /\ subject \in 1 .. Len(tables) /\ table \in Tables
    BY <1>1 DEF IInv, Shape, TypeOK
  <2> QED BY <2>1, ElementOfSeq
<1>3. size \in Nat /\ NoData \in Nat
  BY SizesAssumption DEF NoData
<1>4. written \in Nat /\ UserDataRead(table, written) \in Nat
  <2>1. written \in Nat
    BY <1>2, <1>3, SizeRead
  <2> HIDE DEF written
  <2> QED BY <1>2, <2>1, SizeRead
<1>5. wanted \in Nat /\ got \in Nat
  <2> HIDE DEF written
  <2> QED BY <1>3, <1>4
<1>6. itsPlayer \in BOOLEAN /\ player \in BOOLEAN
  <2>1. tables[subject].userinfo \in BOOLEAN /\ table.userinfo \in BOOLEAN
    BY <1>2, TablesAssumption DEF TableRecords
  <2> QED BY <2>1
<1>7. sound => got = wanted /\ player = itsPlayer
  <2> SUFFICES ASSUME sound PROVE got = wanted /\ player = itsPlayer
    OBVIOUS
  <2>1. table = tables[subject]
    BY <1>1 DEF IInv, Agreed, SameMessage, Reading
  <2> QED BY <1>2, <1>3, <2>1, SizeRead
<1> HIDE DEF written, wanted, got, itsPlayer, player
<1>8. /\ entry' \in Entries /\ due' \in Entries /\ due'.index = due.index
      /\ [entry' EXCEPT !.string = <<>>]
           = [[entry EXCEPT !.string = <<>>] EXCEPT !.data = got, !.player = player]
      /\ [due' EXCEPT !.string = <<>>]
           = [[due EXCEPT !.string = <<>>] EXCEPT !.data = wanted, !.player = itsPlayer]
  <2>1. entry \in Entries /\ due \in Entries
    BY Untouched
  <2>2. /\ entry' = [entry EXCEPT !.data = got, !.player = player]
        /\ due' = [due EXCEPT !.data = wanted, !.player = itsPlayer]
    BY <1>1
  <2>3. /\ entry' \in Entries
        /\ [entry' EXCEPT !.string = <<>>]
             = [[entry EXCEPT !.string = <<>>] EXCEPT !.data = got, !.player = player]
    BY <1>5, <1>6, <2>1, <2>2, DataInEntry
  <2>4. /\ due' \in Entries /\ due'.index = due.index
        /\ [due' EXCEPT !.string = <<>>]
             = [[due EXCEPT !.string = <<>>] EXCEPT !.data = wanted, !.player = itsPlayer]
    BY <1>5, <1>6, <2>1, <2>2, DataInEntry
  <2> QED BY <2>3, <2>4
<1>9. entry.string \in Seq(Letters) /\ due.string \in Seq(Letters)
  BY Untouched DEF Entries
<1>10. /\ history' \in Seq(Seq(Letters)) /\ Len(history') <= HistorySize
       /\ sent' \in Seq(Seq(Letters))
  BY <1>1, <1>9, Untouched, RememberTyped, RecordTyped
<1>11. EntryAsSent'
  <2>1. sound => [entry EXCEPT !.string = <<>>] = [due EXCEPT !.string = <<>>]
    BY <1>1, Untouched DEF EntryAsSent
  <2>2. sound /\ intact => entry = due
    BY <1>1, Untouched DEF EntryAsSent
  <2>3. sound /\ intact => entry' = due'
    BY <1>1, <1>7, <2>2
  <2> QED BY <1>1, <1>7, <1>8, <2>1, <2>3 DEF EntryAsSent
<1>12. SameHistory'
  <2> SUFFICES ASSUME sound
               PROVE  /\ Len(history') = Len(sent')
                      /\ intact => history' = sent'
    BY <1>1 DEF SameHistory
  <2>1. /\ Len(history) = Len(sent) /\ Len(history) <= HistorySize
        /\ history \in Seq(Seq(Letters)) /\ sent \in Seq(Seq(Letters))
        /\ intact => history = sent
    BY Untouched DEF SameHistory
  <2>2. sent' = Remember(sent, due.string)
    BY <1>1, RecordIsRemember
  <2>3. Len(history') = Len(sent')
    BY <1>1, <1>9, <2>1, <2>2, RememberTyped
  <2>4. intact => history' = sent'
    <3>1. intact => entry = due
      BY <1>1, Untouched DEF EntryAsSent
    <3> QED BY <1>1, <2>1, <2>2, <3>1
  <2> QED BY <2>3, <2>4
<1>13. entries' \in 0 .. MaxSent
  BY <1>1, Untouched, BoundsAssumption
<1> QED BY <1>1, <1>8, <1>10, <1>11, <1>12, <1>13, Untouched, WithinEntry

LEMMA StutterInv == ASSUME IInv, UNCHANGED vars PROVE IInv'
<1>1. Shape'
  BY DEF IInv, Shape, TypeOK, vars
<1>2. Agreed'
  BY DEF IInv, Agreed, SameHistory, EntryAsSent, SameTables, ReadToItsEnd, ChangesEveryEntry,
     SameMessage, vars
<1> QED BY <1>1, <1>2 DEF IInv

(* Every step keeps the invariant.                                         *)
LEMMA NextInv == IInv /\ [Next]_vars => IInv'
<1> SUFFICES ASSUME IInv, [Next]_vars PROVE IInv'
  OBVIOUS
<1>1. CASE \E n \in 0 .. MaxSent, t \in Tables : CreateStringTable(t, n)
  BY <1>1, CreateInv
<1>2. CASE \E n \in 0 .. MaxSent, table_id \in 0 .. MaxCreated :
              UpdateStringTable(table_id, n) \/ BadUpdateStringTable(table_id, n)
  BY <1>2, UpdateInv, BadUpdateInv
<1>3. CASE ReadEncoding
  BY <1>3, EncodingInv
<1>4. CASE \E implied \in BOOLEAN :
              pc = "index" /\ \E index \in 0 .. tables[subject].nMaxEntries :
                 ReadIndex(index, implied)
  <2>1. PICK implied \in BOOLEAN, index \in 0 .. tables[subject].nMaxEntries :
               ReadIndex(index, implied)
    BY <1>4
  <2>2. index \in Nat
    BY <2>1
  <2> QED BY <2>1, <2>2, IndexInv
<1>5. CASE OmitString
  BY <1>5, OmitInv
<1>6. CASE \E string \in Strings :
              \/ ReadWholeString(string)
              \/ \E i \in 0 .. HistorySize - 1, n \in 0 .. HistoryLength :
                    ReadSubstring(i, n, string)
  BY <1>6, WholeInv, SubstringInv
<1>7. CASE \E i \in 0 .. HistorySize - 1 : ExitOnIndex(i)
  BY <1>7, ExitInv
<1>8. CASE \E size \in UserDataSizes \union {NoData} : ReadUserData(size)
  BY <1>8, DataInv
<1>9. CASE EndUpdate
  BY <1>9, EndInv
<1>10. CASE Ended \/ UNCHANGED vars
  BY <1>10, StutterInv DEF Ended
<1> QED BY <1>1, <1>2, <1>3, <1>4, <1>5, <1>6, <1>7, <1>8, <1>9, <1>10 DEF Next
-----------------------------------------------------------------------------
(* The invariant holds always.                                             *)
THEOREM Invariant == Spec => []IInv
BY InitInv, NextInv, PTL DEF Spec

(* The registry, the history and the entry have their types and the        *)
(* history does not outgrow its bound, whatever the messages contain; the  *)
(* registry does not outgrow its array as long as the server creates no    *)
(* more tables than that has.                                              *)
THEOREM TypeCorrect == Spec => []TypeOK
<1>1. IInv => TypeOK
  BY DEF IInv, Shape
<1> QED BY <1>1, Invariant, PTL

(* The history of the last strings is as long as the server's, and is the  *)
(* server's while no prefix of the message was lost.                       *)
THEOREM HistoriesAgree == Spec => []SameHistory
<1>1. IInv => SameHistory
  BY DEF IInv, Agreed
<1> QED BY <1>1, Invariant, PTL

(* Every entry is decoded to what the server encoded, its string while no  *)
(* prefix of the message was lost.                                         *)
THEOREM EntriesAgree == Spec => []EntryAsSent
<1>1. IInv => EntryAsSent
  BY DEF IInv, Agreed
<1> QED BY <1>1, Invariant, PTL

(* A table_id means the same table to the program and the server.          *)
THEOREM RegistriesAgree == Spec => []SameTables
<1>1. IInv => SameTables
  BY DEF IInv, Agreed
<1> QED BY <1>1, Invariant, PTL

(* What is left unread of a sound server's messages are those encoded with *)
(* dictionaries and the updates of every entry of a table, as a whole: any *)
(* other is read to its last entry.                                        *)
THEOREM AllEntriesRead == Spec => []ReadToItsEnd
<1>1. IInv => ReadToItsEnd
  BY DEF IInv, Agreed
<1> QED BY <1>1, Invariant, PTL
=============================================================================
