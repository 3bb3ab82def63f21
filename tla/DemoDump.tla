------------------------------ MODULE DemoDump ------------------------------
(***************************************************************************)
(* CDemoFile (src/demofile.cpp) under CDemoFileDump::DoDump and            *)
(* DumpDemoPacket (src/demofiledump.cpp): the loop over the commands of a  *)
(* demo, the reads that carry the file position over each of them, and     *)
(* the loop over the messages of a packet.                                 *)
(*                                                                         *)
(* A file is a sequence of fields, and its position a field, not a byte.   *)
(* Nothing in the file says where a command starts: a read that finds      *)
(* another field than the one it is meant for is out of step, and takes    *)
(* some value of Garbage for it.  Sizes are signed, in the file as in a    *)
(* packet: one below zero moves the reader back.                           *)
(***************************************************************************)
EXTENDS Integers, Sequences, FiniteSets, SequencesExt

CONSTANTS
    Recordings,     \* sequences of frames, as the game wrote them
    MaxCut,         \* how many fields the end of a file may have lost
    Known,          \* the messages DumpDemoPacket has a handler for
    PayloadMax,     \* NET_MAX_PAYLOAD, in fields
    BufferMax,      \* DEMO_RECORD_BUFFER_SIZE, in fields
    SeekLimit,      \* from which on eight times a size overflows (2^28)
    Garbage         \* what a field of a kind may be taken for when out of step

IntLimit == 8 * SeekLimit
Ints == -IntLimit .. IntLimit - 1

ASSUME MaxCutAssumption == MaxCut \in Nat
ASSUME CapacityAssumption ==
    PayloadMax \in Nat /\ BufferMax \in Nat /\ SeekLimit \in Nat /\ PayloadMax < SeekLimit
(* A command is a byte, a size and the number of a message an int.         *)
ASSUME GarbageAssumption ==
    /\ Garbage["cmd"] \subseteq Nat
    /\ \A kind \in {"size", "mcmd", "msize"} : Garbage[kind] \subseteq Ints

VARIABLES
    recording,      \* what the game recorded
    script,         \* the items it holds, up to where it is damaged
    damaged,        \* whether it is
    marks,          \* where its sound frames start, and what precedes them
    file,           \* m_fileBuffer
    pos,            \* m_fileBufferPos (from 1)
    pc,             \* where the program is
    cmd,            \* the command DoDump is at
    payload,        \* the packet data ReadRawData copied
    length,         \* what ReadRawData returned for it
    offset,         \* buf.GetNumBytesRead()
    lastSize,       \* the size that was read last, of a block or a message
    dumped          \* the items handed to a dumper so far

vars == <<recording, script, damaged, marks, file, pos, pc, cmd, payload, length, offset,
          lastSize, dumped>>
recorded == <<recording, script, damaged, marks, file>>
packet == <<payload, length, offset>>

dem_signon == 1
dem_packet == 2
dem_synctick == 3
dem_consolecmd == 4
dem_usercmd == 5
dem_datatables == 6
dem_stop == 7
dem_customdata == 8
dem_stringtables == 9
dem_lastcmd == dem_stringtables

Packets == {dem_signon, dem_packet}
Tables == {dem_datatables, dem_stringtables}
Ends == {"finished", "fatal", "abort", "undefined"}
-----------------------------------------------------------------------------
(* The recorder.  A frame is [cmd, msgs, size]: its messages [cmd, size,   *)
(* len] if it is a packet, len being the data they really have, and the    *)
(* size of its block of data otherwise.                                    *)
MessageType == [cmd : Nat, size : Ints, len : Nat]
FrameType == [cmd : 1 .. dem_lastcmd, msgs : Seq(MessageType), size : Nat]

(* dem_stop is the end; what a message claims to hold may be anything.     *)
ASSUME RecordingsAssumption ==
    \A r \in Recordings :
        /\ r \in Seq(FrameType)
        /\ \A i \in DOMAIN r : r[i].cmd = dem_stop => i = Len(r)

Field(kind, val) == [kind |-> kind, val |-> val, at |-> <<>>]
Data(i, j, n) == [k \in 1 .. n |-> [kind |-> "data", val |-> 0, at |-> <<i, j, k>>]]

Messages(f, i) ==
    FlattenSeq([j \in DOMAIN f.msgs |->
        <<Field("mcmd", f.msgs[j].cmd), Field("msize", f.msgs[j].size)>>
            \o Data(i, j, f.msgs[j].len)])

Block(data) == <<Field("size", Len(data))>> \o data

Header(f) == <<Field("cmd", f.cmd), Field("tick", 0), Field("slot", 0)>>

Body(f, i) ==
    CASE f.cmd \in Packets ->
            <<Field("info", 0), Field("seqin", 0), Field("seqout", 0)>>
                \o Block(Messages(f, i))
      [] f.cmd = dem_usercmd -> <<Field("seqout", 0)>> \o Block(Data(i, 0, f.size))
      [] f.cmd \in Tables \union {dem_consolecmd, dem_customdata} ->
            Block(Data(i, 0, f.size))
      [] OTHER -> <<>>

Frame(r, i) == Header(r[i]) \o Body(r[i], i)
Encode(r) == FlattenSeq([i \in DOMAIN r |-> Frame(r, i)])
-----------------------------------------------------------------------------
(* What there is to dump in the first `kept' fields of recording r.        *)

(* The length of the file up to and with the i-th frame.                   *)
UpTo(r, i) == Len(Encode(SubSeq(r, 1, i)))

(* The messages of a frame that precede one that does not hold what it     *)
(* claims to.                                                              *)
Misstated(f) == {j \in DOMAIN f.msgs : f.msgs[j].size # f.msgs[j].len}
GoodMessages(f) == {j \in DOMAIN f.msgs : \A k \in 1 .. j : k \notin Misstated(f)}

MessageItems(f, i) ==
    FlattenSeq([j \in 1 .. Cardinality(GoodMessages(f)) |->
        IF f.msgs[j].cmd \in Known
        THEN <<[cmd |-> f.msgs[j].cmd, data |-> Data(i, j, f.msgs[j].len)]>>
        ELSE <<>>])

Items(f, i) ==
    CASE f.cmd \in Packets -> MessageItems(f, i)
      [] f.cmd \in Tables -> <<[cmd |-> f.cmd, data |-> Data(i, 0, f.size)]>>
      [] OTHER -> <<>>

ItemsUpTo(r, i) == FlattenSeq([k \in 1 .. i |-> Items(r[k], k)])

(* Frames the program does not read to their end, or not as they are meant. *)
Refused(f) ==
    \/ f.cmd = dem_customdata
    \/ f.cmd \in Tables /\ f.size > BufferMax
    \/ f.cmd \in Packets /\ Len(Messages(f, 1)) > PayloadMax
Whole(r, i, kept) == UpTo(r, i) <= kept
Sound(r, i, kept) == Whole(r, i, kept) /\ ~Refused(r[i]) /\ Misstated(r[i]) = {}

(* How many sound frames there are in front of the first other one.        *)
SoundFrames(r, kept) ==
    CHOOSE n \in 0 .. Len(r) :
        /\ \A i \in 1 .. n : Sound(r, i, kept)
        /\ n = Len(r) \/ ~Sound(r, n + 1, kept)

Script(r, n, kept) ==
    ItemsUpTo(r, n) \o
        (IF n < Len(r) /\ Whole(r, n + 1, kept) /\ ~Refused(r[n + 1])
         THEN Items(r[n + 1], n + 1) ELSE <<>>)

Mark(r, i) == [pos |-> UpTo(r, i) + 1, dumped |-> ItemsUpTo(r, i)]

(* The game recorded r, and its first `kept' fields reached the disk.  A   *)
(* file that ends between two frames lacks its end tag, but is not damaged. *)
Record(r, kept) ==
    LET n == SoundFrames(r, kept) IN
    /\ recording = r
    /\ script = Script(r, n, kept)
    /\ damaged = (n < Len(r) /\ UpTo(r, n) < kept)
    /\ marks = [i \in 0 .. n |-> Mark(r, i)]
    /\ file = SubSeq(Encode(r), 1, kept)
-----------------------------------------------------------------------------
Present(p) == p \in 1 .. Len(file)

(* What an int or a struct read at p may be; a read at the very end of the *)
(* buffer still finds the string's terminator, if it is of a single byte.  *)
Values(fields, p, kind) ==
    IF p \in DOMAIN fields /\ fields[p].kind = kind THEN {fields[p].val} ELSE Garbage[kind]
CmdAt(p) == IF p = Len(file) + 1 THEN {0} ELSE Values(file, p, "cmd")

(* The program reads memory behind the buffer, or in front of it: all bets *)
(* are off.                                                                *)
ReadBehind(p) ==
    /\ ~Present(p)
    /\ pc' = "undefined"
    /\ UNCHANGED <<recorded, pos, cmd, packet, lastSize, dumped>>

Init ==
    /\ \E r \in Recordings, cut \in 0 .. MaxCut :
          /\ cut < Len(Encode(r))
          /\ Record(r, Len(Encode(r)) - cut)
    /\ pos = 1
    /\ pc = "command"
    /\ cmd = dem_stop
    /\ payload = <<>> /\ length = 0 /\ offset = 0
    /\ lastSize = 0
    /\ dumped = <<>>

(* A zero is a missing end tag, and read as dem_stop.                      *)
ReadCmdHeader ==
    /\ pc = "command"
    /\ \/ pos \notin 1 .. Len(file) + 1 /\ ReadBehind(pos)
       \/ /\ pos \in 1 .. Len(file) + 1
          /\ \E c \in CmdAt(pos) :
                \/ /\ c = 0
                   /\ cmd' = dem_stop
                   /\ pos' = pos + 1
                   /\ pc' = "handler"
                \/ /\ c > dem_lastcmd
                   /\ pc' = "abort"
                   /\ UNCHANGED <<pos, cmd>>
                \/ /\ c \in 1 .. dem_lastcmd
                   /\ Present(pos + 1)
                   /\ cmd' = c
                   /\ pos' = pos + 3
                   /\ pc' = "handler"
                \/ /\ c \in 1 .. dem_lastcmd
                   /\ ~Present(pos + 1)
                   /\ pc' = "undefined"
                   /\ UNCHANGED <<pos, cmd>>
          /\ UNCHANGED <<recorded, packet, lastSize, dumped>>

Handling(cmds) == pc = "handler" /\ cmd \in cmds

(* dem_synctick has nothing to read; an unhandled command is taken to have *)
(* nothing either.                                                         *)
HandleNothing ==
    /\ Handling({dem_synctick, dem_customdata})
    /\ pc' = "command"
    /\ UNCHANGED <<recorded, pos, cmd, packet, lastSize, dumped>>

HandleStop ==
    /\ Handling({dem_stop})
    /\ pc' = "finished"
    /\ UNCHANGED <<recorded, pos, cmd, packet, lastSize, dumped>>

(* Mutant: ReadRawData(NULL, 0) reads the length but does not skip.        *)
SkipNothing(p, size) == p + 1
(* ReadRawData(NULL, 0) at p, of a block of the given size: one below zero *)
(* is added to m_fileBufferPos like any other.                             *)
Skip(p, size) == p + 1 + size

SkipRawData(p) ==
    \/ ReadBehind(p)
    \/ /\ Present(p)
       /\ \E size \in Values(file, p, "size") : pos' = Skip(p, size) /\ lastSize' = size
       /\ pc' = "command"
       /\ UNCHANGED <<recorded, cmd, packet, dumped>>

HandleConsoleCmd == Handling({dem_consolecmd}) /\ SkipRawData(pos)

(* ReadUserCmd reads the outgoing sequence number first.                   *)
HandleUserCmd == Handling({dem_usercmd}) /\ SkipRawData(pos + 1)

(* ReadRawData copies a block at p of which the file has not all, or whose *)
(* size is below zero, which memcpy takes for 4 GB and less.               *)
CopyFails(p, size) == size < 0 \/ p + size > Len(file)

(* ReadRawData into a buffer: too long a block is refused, and stays       *)
(* unread; the caller goes on with what is in the unfilled buffer, which   *)
(* is given as no data here and may make the parser fail.                  *)
HandleTables ==
    /\ Handling(Tables)
    /\ \/ ReadBehind(pos)
       \/ /\ Present(pos)
          /\ \E size \in Values(file, pos, "size") :
                /\ lastSize' = size
                /\ \/ /\ size > BufferMax
                      /\ dumped' = Append(dumped, [cmd |-> cmd, data |-> <<>>])
                      /\ pos' = pos + 1
                      /\ pc' = "command"
                   \/ /\ size <= BufferMax
                      /\ ~CopyFails(pos, size)
                      /\ dumped' = Append(dumped,
                            [cmd |-> cmd, data |-> SubSeq(file, pos + 1, pos + size)])
                      /\ pos' = pos + 1 + size
                      /\ pc' = "command"
                   \/ /\ size > BufferMax \/ CopyFails(pos, size)
                      /\ pc' = "undefined"
                      /\ UNCHANGED <<pos, dumped>>
          /\ UNCHANGED <<recorded, cmd, packet>>

(* Mutant: the sequence numbers of a packet are not read.                  *)
BodyOnly(p) == p + 1
(* ReadCmdInfo and ReadSequenceInfo.                                       *)
BehindInfo(p) == p + 3

HandleDemoPacket ==
    /\ Handling(Packets)
    /\ LET p == BehindInfo(pos)
       IN  \/ ReadBehind(p)
           \/ /\ Present(p)
              /\ \E size \in Values(file, p, "size") :
                    /\ lastSize' = size
                    /\ \/ /\ size > PayloadMax
                          /\ length' = -1
                          /\ payload' = <<>>
                          /\ pos' = p + 1
                          /\ pc' = "packet"
                       \/ /\ size <= PayloadMax
                          /\ ~CopyFails(p, size)
                          /\ length' = size
                          /\ payload' = SubSeq(file, p + 1, p + size)
                          /\ pos' = p + 1 + size
                          /\ pc' = "packet"
                       \/ /\ size <= PayloadMax
                          /\ CopyFails(p, size)
                          /\ pc' = "undefined"
                          /\ UNCHANGED <<length, payload, pos>>
              /\ offset' = 0
              /\ UNCHANGED <<recorded, cmd, dumped>>
-----------------------------------------------------------------------------
(* A round of DumpDemoPacket, with the header of a message ahead.  Behind  *)
(* the end of its buffer the reader stays there, and gives zeros.          *)
Round == pc = "packet" /\ offset < length
BehindHeader == IF offset + 2 > PayloadMax THEN PayloadMax ELSE offset + 2
CmdsAhead == Values(payload, offset + 1, "mcmd")
SizesAhead == IF offset + 2 > PayloadMax THEN {0} ELSE Values(payload, offset + 2, "msize")

(* An int is one of 2 * limit numbers, half of them below zero.            *)
Wrapped(n, limit) == ((n + limit) % (2 * limit)) - limit

(* Mutant: a message that fills its packet is taken to overrun it.         *)
RunsToEnd(size) == Wrapped(BehindHeader + size, IntLimit) >= length
(* A size below zero does not overrun the packet, nor one that makes the   *)
(* sum overflow.                                                           *)
Overruns(size) == Wrapped(BehindHeader + size, IntLimit) > length
Inside(size) == size >= 0 /\ BehindHeader + size <= length

(* Mutant: a message without a handler is not stepped over.                *)
StayAtUnknown(c, size) == IF c \in Known THEN BehindHeader + size ELSE offset
(* Mutant: what is given to SeekRelative is taken to be bytes.             *)
EightTimesAsFar(c, size) == BehindHeader + 8 * size
(* buf.SeekRelative(Size * 8), known or not.  A position outside of the    *)
(* buffer is one at its end.                                               *)
NextMessage(c, size) ==
    LET position == BehindHeader + Wrapped(size, SeekLimit)
    IN  IF position \in 0 .. PayloadMax THEN position ELSE PayloadMax

(* protobuf parses no message out of data of a size that cannot be.        *)
DumpMessage ==
    /\ Round
    /\ \E c \in CmdsAhead, size \in SizesAhead :
          /\ ~Overruns(size)
          /\ dumped' = IF c \in Known /\ Inside(size)
                       THEN Append(dumped, [cmd |-> c,
                                data |-> SubSeq(payload, offset + 3, offset + 2 + size)])
                       ELSE dumped
          /\ offset' = NextMessage(c, size)
          /\ lastSize' = size
    /\ UNCHANGED <<recorded, pos, pc, cmd, payload, length>>

(* It may also fail on them.                                               *)
FailInMessage ==
    /\ Round
    /\ CmdsAhead \intersect Known # {}
    /\ \E size \in SizesAhead : ~Overruns(size) /\ ~Inside(size) /\ lastSize' = size
    /\ pc' = "undefined"
    /\ UNCHANGED <<recorded, pos, cmd, packet, dumped>>

(* fatal_errorf: the program exits.                                        *)
FailParsing ==
    /\ Round
    /\ \E size \in SizesAhead : Overruns(size) /\ lastSize' = size
    /\ pc' = "fatal"
    /\ UNCHANGED <<recorded, pos, cmd, packet, dumped>>

EndPacket ==
    /\ pc = "packet"
    /\ offset >= length
    /\ pc' = "command"
    /\ UNCHANGED <<recorded, pos, cmd, packet, lastSize, dumped>>

(* The program has ended, one way or another.                              *)
Ended == pc \in Ends /\ UNCHANGED vars

Next ==
    \/ ReadCmdHeader
    \/ HandleNothing
    \/ HandleStop
    \/ HandleConsoleCmd
    \/ HandleUserCmd
    \/ HandleTables
    \/ HandleDemoPacket
    \/ DumpMessage
    \/ FailInMessage
    \/ FailParsing
    \/ EndPacket
    \/ Ended

(* A single thread that never waits: it takes steps as long as it can.     *)
Spec == Init /\ [][Next]_vars /\ WF_vars(Next)
-----------------------------------------------------------------------------
TypeOK ==
    /\ recording \in Recordings
    /\ pos \in Int
    /\ pc \in {"command", "handler", "packet"} \union Ends
    /\ pc = "handler" => pos > 1
    /\ cmd \in 1 .. dem_lastcmd
    /\ length \in -1 .. PayloadMax
    /\ offset \in 0 .. PayloadMax
    /\ pc = "packet" => length \in {-1, Len(payload)}
    /\ lastSize \in Int

(* DoDump is in step with the recording as long as that is sound: it reads *)
(* a command only where one starts, and by then has dumped every item that *)
(* precedes it and nothing else, whichever commands and messages it        *)
(* skipped on the way.  Behind the damage it may be anywhere, but it has   *)
(* dumped all that is in front of that.                                    *)
InStep ==
    pc = "command" =>
        \/ \E i \in DOMAIN marks : marks[i] = [pos |-> pos, dumped |-> dumped]
        \/ damaged /\ IsPrefix(script, dumped)

(* Only a recording that is damaged makes the program exit in the middle   *)
(* of a packet, fail an assertion or read behind its buffer.               *)
FailsOnlyIfDamaged == pc \in {"fatal", "abort", "undefined"} => damaged

(* README.md:8: the program "parses CS:GO demo files ... and dumps out     *)
(* every message in the demo".                                             *)
EveryMessageDumped ==
    pc = "finished" => dumped = ItemsUpTo(recording, Len(recording))

(* Every file, however damaged, is dumped in finitely many steps, unless   *)
(* sizes below zero, or so large that a sum overflows, are read in it over *)
(* and over again.                                                         *)
OutOfRange(size) == size < 0 \/ PayloadMax + size >= IntLimit
Terminates == <>(pc \in Ends) \/ []<>OutOfRange(lastSize)

(* The dump of a demo keeps the promise of Replay.                         *)
outcome ==
    CASE pc = "finished" -> "done"
      [] pc \in {"fatal", "abort", "undefined"} -> "failed"
      [] OTHER -> "running"

Abstract == INSTANCE Replay
ImplementsReplay == Abstract!Spec
=============================================================================
