--------------------------- MODULE DemoDumpProof ---------------------------
(***************************************************************************)
(* Proofs about DemoDump.                                                  *)
(***************************************************************************)
EXTENDS DemoDump, Lemmas

Kinds ==
    {"cmd", "tick", "slot", "info", "seqin", "seqout", "size", "mcmd", "msize", "data"}
Fields == [kind : Kinds, val : Int, at : Seq(Nat)]
ItemType == [cmd : Int, data : Seq(Fields)]

(* The recording r in parts: its frames, the messages of the i-th, and the *)
(* items in all of them.                                                   *)
Framed(r) == [k \in 1 .. Len(r) |-> Frame(r, k)]
MessageFields(f, i, j) ==
    <<Field("mcmd", f.msgs[j].cmd), Field("msize", f.msgs[j].size)>> \o Data(i, j, f.msgs[j].len)
Messaged(f, i) == [j \in 1 .. Len(f.msgs) |-> MessageFields(f, i, j)]
Itemized(r) == [k \in 1 .. Len(r) |-> Items(r[k], k)]
MessageItem(f, i, j) ==
    IF f.msgs[j].cmd \in Known
    THEN <<[cmd |-> f.msgs[j].cmd, data |-> Data(i, j, f.msgs[j].len)]>>
    ELSE <<>>
-----------------------------------------------------------------------------
LEMMA FieldIsField ==
    ASSUME NEW kind \in Kinds, NEW val \in Int
    PROVE  Field(kind, val) \in Fields /\ Field(kind, val).kind = kind /\ Field(kind, val).val = val
<1>1. <<>> \in Seq(Nat)
  OBVIOUS
<1> QED
  BY <1>1 DEF Field, Fields

LEMMA HeaderFieldsAreFields ==
    ASSUME NEW val \in Int
    PROVE  /\ Field("cmd", val) \in Fields /\ Field("tick", val) \in Fields
           /\ Field("slot", val) \in Fields /\ Field("info", val) \in Fields
           /\ Field("seqin", val) \in Fields /\ Field("seqout", val) \in Fields
           /\ Field("size", val) \in Fields /\ Field("mcmd", val) \in Fields
           /\ Field("msize", val) \in Fields
  BY FieldIsField DEF Kinds

LEMMA DataIsFields ==
    ASSUME NEW i \in Nat, NEW j \in Nat, NEW n \in Nat
    PROVE  Data(i, j, n) \in Seq(Fields) /\ Len(Data(i, j, n)) = n
<1>1. \A k \in 1 .. n : [kind |-> "data", val |-> 0, at |-> <<i, j, k>>] \in Fields
  <2> TAKE k \in 1 .. n
  <2>1. <<i, j, k>> \in Seq(Nat)
    OBVIOUS
  <2>2. "data" \in Kinds
    BY DEF Kinds
  <2> QED
    BY <2>1, <2>2 DEF Fields
<1> QED
  BY <1>1 DEF Data

(* What there is in a message, and that it has a header of two fields.     *)
LEMMA MessageIs ==
    ASSUME NEW f \in FrameType, NEW i \in Nat, NEW j \in 1 .. Len(f.msgs)
    PROVE  /\ f.msgs[j].cmd \in Nat /\ f.msgs[j].size \in Int /\ f.msgs[j].len \in Nat
           /\ MessageFields(f, i, j) \in Seq(Fields)
           /\ Len(MessageFields(f, i, j)) = 2 + f.msgs[j].len
           /\ MessageFields(f, i, j)[1] = Field("mcmd", f.msgs[j].cmd)
           /\ MessageFields(f, i, j)[2] = Field("msize", f.msgs[j].size)
           /\ \A k \in 1 .. f.msgs[j].len :
                 MessageFields(f, i, j)[2 + k] = Data(i, j, f.msgs[j].len)[k]
<1> DEFINE c == f.msgs[j].cmd
           size == f.msgs[j].size
           len == f.msgs[j].len
           head == <<Field("mcmd", c), Field("msize", size)>>
           data == Data(i, j, len)
<1>m. f.msgs \in Seq(MessageType)
  BY DEF FrameType
<1>1. c \in Nat /\ size \in Int /\ len \in Nat
  <2>1. f.msgs[j] \in MessageType
    BY <1>m, SeqMember
  <2>2. Ints \subseteq Int
    BY CapacityAssumption DEF Ints, IntLimit
  <2> QED
    BY <2>1, <2>2 DEF MessageType
<1>2. Field("mcmd", c) \in Fields /\ Field("msize", size) \in Fields
  BY <1>1, HeaderFieldsAreFields
<1>3. j \in Nat
  BY <1>m
<1>4. data \in Seq(Fields) /\ Len(data) = len
  BY <1>1, <1>3, DataIsFields
<1>5. MessageFields(f, i, j) = head \o data
  BY DEF MessageFields
<1> HIDE DEF data, c, size, len
<1>6. /\ head \in Seq(Fields) /\ Len(head) = 2
      /\ head[1] = Field("mcmd", c) /\ head[2] = Field("msize", size)
  BY <1>2
<1> HIDE DEF head
<1>7. /\ head \o data \in Seq(Fields)
      /\ Len(head \o data) = Len(head) + Len(data)
      /\ \A k \in 1 .. Len(head) : (head \o data)[k] = head[k]
      /\ \A k \in 1 .. Len(data) : (head \o data)[Len(head) + k] = data[k]
  <2>1. head \in Seq(Fields) /\ data \in Seq(Fields)
    BY <1>4, <1>6
  <2> QED
    BY <2>1, Joined
<1>8. 1 \in 1 .. Len(head) /\ 2 \in 1 .. Len(head)
  BY <1>6
<1> QED
  BY <1>1, <1>4, <1>5, <1>6, <1>7, <1>8 DEF c, size, len, data

LEMMA MessagesInParts ==
    ASSUME NEW f \in FrameType, NEW i \in Nat
    PROVE  /\ Parts(Messaged(f, i), Len(f.msgs), Fields)
           /\ Messages(f, i) = Flat(Messaged(f, i), Len(f.msgs))
<1>1. f.msgs \in Seq(MessageType)
  BY DEF FrameType
<1>2. Len(f.msgs) \in Nat /\ DOMAIN f.msgs = 1 .. Len(f.msgs)
  BY <1>1
<1>3. \A j \in 1 .. Len(f.msgs) : Messaged(f, i)[j] \in Seq(Fields)
  BY MessageIs DEF Messaged
<1>4. Messages(f, i) = FlattenSeq(Messaged(f, i))
  BY <1>2 DEF Messages, Messaged, MessageFields
<1>5. Messaged(f, i) = [j \in 1 .. Len(f.msgs) |-> Messaged(f, i)[j]]
  BY DEF Messaged
<1> QED
  BY <1>2, <1>3, <1>4, <1>5, FlatWhole DEF Parts

(* How many fields a frame's messages take does not depend on its place.   *)
LEMMA MessagesAsLong ==
    ASSUME NEW f \in FrameType, NEW i \in Nat
    PROVE  Len(Messages(f, i)) = Len(Messages(f, 1))
<1> DEFINE L == Len(f.msgs)
           F == Messaged(f, i)
           G == Messaged(f, 1)
           S == {n \in Nat : \A m \in 0 .. L : m = n => Len(Flat(F, m)) = Len(Flat(G, m))}
<1>1. Parts(F, L, Fields) /\ Parts(G, L, Fields)
  BY MessagesInParts
<1>2. \A j \in 1 .. L : Len(F[j]) = Len(G[j])
  <2> TAKE j \in 1 .. L
  <2>1. Len(MessageFields(f, i, j)) = 2 + f.msgs[j].len
    BY MessageIs
  <2>2. Len(MessageFields(f, 1, j)) = 2 + f.msgs[j].len
    BY MessageIs
  <2> QED
    BY <2>1, <2>2 DEF Messaged
<1>L. L \in Nat
  BY <1>1 DEF Parts
<1> HIDE DEF F, G, L
<1>3. 0 \in S
  BY FlatNothing
<1>4. ASSUME NEW n \in Nat, n \in S PROVE n + 1 \in S
  <2>1. SUFFICES ASSUME NEW m \in 0 .. L, m = n + 1 PROVE Len(Flat(F, m)) = Len(Flat(G, m))
    OBVIOUS
  <2>2. n \in 0 .. L /\ m \in 1 .. L
    BY <1>L, <2>1
  <2>3. Len(Flat(F, m)) = Len(Flat(F, n)) + Len(F[m])
    BY <1>1, <2>1, <2>2, FlatNext
  <2>4. Len(Flat(G, m)) = Len(Flat(G, n)) + Len(G[m])
    BY <1>1, <2>1, <2>2, FlatNext
  <2>5. Len(Flat(F, n)) = Len(Flat(G, n))
    BY <1>4, <2>2
  <2> QED
    BY <1>2, <2>2, <2>3, <2>4, <2>5
<1>5. \A n \in Nat : n \in S
  BY <1>3, <1>4, NatSet
<1>6. Len(Flat(F, L)) = Len(Flat(G, L))
  BY <1>5, <1>L
<1> QED
  BY <1>6, MessagesInParts DEF F, G, L
-----------------------------------------------------------------------------
(* In s, data follows its size, and that `before' other fields.            *)
Carries(s, before, data) ==
    /\ s \in Seq(Fields)
    /\ Len(s) = before + 1 + Len(data)
    /\ s[before + 1] = Field("size", Len(data))
    /\ \A k \in 1 .. Len(data) : s[before + 1 + k] = data[k]

LEMMA BlockFrames ==
    ASSUME NEW data \in Seq(Fields)
    PROVE  Carries(Block(data), 0, data)
<1> DEFINE head == <<Field("size", Len(data))>>
<1>1. Len(data) \in Nat
  OBVIOUS
<1>2. Field("size", Len(data)) \in Fields
  BY <1>1, HeaderFieldsAreFields
<1>3. head \in Seq(Fields) /\ Len(head) = 1 /\ head[1] = Field("size", Len(data))
  BY <1>2
<1> HIDE DEF head
<1>4. /\ head \o data \in Seq(Fields)
      /\ Len(head \o data) = Len(head) + Len(data)
      /\ \A k \in 1 .. Len(head) : (head \o data)[k] = head[k]
      /\ \A k \in 1 .. Len(data) : (head \o data)[Len(head) + k] = data[k]
  <2>1. head \in Seq(Fields) /\ data \in Seq(Fields)
    BY <1>3
  <2> QED
    BY <2>1, Joined
<1>5. 1 \in 1 .. Len(head)
  BY <1>3
<1>6. Block(data) = head \o data
  BY DEF Block, head
<1> QED
  BY <1>1, <1>3, <1>4, <1>5, <1>6 DEF Carries

LEMMA FramesBehind ==
    ASSUME NEW data \in Seq(Fields)
    PROVE  \A head \in Seq(Fields), before, all \in Nat : \A s :
              Carries(s, before, data) /\ all = Len(head) + before => Carries(head \o s, all, data)
<1> SUFFICES ASSUME NEW head \in Seq(Fields), NEW before \in Nat, NEW all \in Nat, NEW s,
                    Carries(s, before, data), all = Len(head) + before
             PROVE  Carries(head \o s, all, data)
  OBVIOUS
<1>1. s \in Seq(Fields)
  BY DEF Carries
<1>2. /\ head \o s \in Seq(Fields)
      /\ Len(head \o s) = Len(head) + Len(s)
      /\ \A k \in 1 .. Len(s) : (head \o s)[Len(head) + k] = s[k]
  BY <1>1, Joined
<1>3. Len(data) \in Nat /\ Len(head) \in Nat /\ Len(s) = before + 1 + Len(data)
  BY DEF Carries
<1>4. (head \o s)[all + 1] = Field("size", Len(data))
  <2>1. before + 1 \in 1 .. Len(s) /\ all + 1 = Len(head) + (before + 1)
    BY <1>3
  <2> QED
    BY <1>2, <2>1 DEF Carries
<1>5. ASSUME NEW k \in 1 .. Len(data) PROVE (head \o s)[all + 1 + k] = data[k]
  <2>1. before + 1 + k \in 1 .. Len(s) /\ all + 1 + k = Len(head) + (before + 1 + k)
    BY <1>3
  <2> QED
    BY <1>2, <2>1 DEF Carries
<1>6. Len(head \o s) = all + 1 + Len(data)
  BY <1>2, <1>3
<1> QED
  BY <1>2, <1>4, <1>5, <1>6 DEF Carries
-----------------------------------------------------------------------------
(* The fields of a frame: its header, and for most a block of data.        *)
Blocked(f) == f.cmd \notin {dem_synctick, dem_stop}
Before(f) ==
    CASE f.cmd \in Packets -> 6
      [] f.cmd = dem_usercmd -> 4
      [] OTHER -> 3
BlockData(f, i) == IF f.cmd \in Packets THEN Messages(f, i) ELSE Data(i, 0, f.size)

LEMMA HeaderIs ==
    ASSUME NEW f \in FrameType
    PROVE  /\ Header(f) \in Seq(Fields) /\ Len(Header(f)) = 3
           /\ Header(f)[1] = Field("cmd", f.cmd) /\ f.cmd \in 1 .. dem_lastcmd
<1>1. f.cmd \in 1 .. dem_lastcmd /\ f.cmd \in Nat
  BY DEF FrameType, dem_lastcmd, dem_stringtables
<1>2. Field("cmd", f.cmd) \in Fields /\ Field("tick", 0) \in Fields /\ Field("slot", 0) \in Fields
  BY <1>1, HeaderFieldsAreFields
<1> QED
  BY <1>1, <1>2 DEF Header

LEMMA BlockDataIs ==
    ASSUME NEW f \in FrameType, NEW i \in Nat
    PROVE  /\ f.size \in Nat
           /\ BlockData(f, i) \in Seq(Fields)
           /\ f.cmd \notin Packets => Len(BlockData(f, i)) = f.size
<1>1. f.size \in Nat
  BY DEF FrameType
<1>2. Messages(f, i) \in Seq(Fields)
  <2>1. Parts(Messaged(f, i), Len(f.msgs), Fields) /\ Len(f.msgs) \in Nat
    BY MessagesInParts DEF Parts
  <2>2. Len(f.msgs) \in 0 .. Len(f.msgs)
    BY <2>1
  <2> QED
    BY <2>1, <2>2, FlatTyped, MessagesInParts
<1>3. Data(i, 0, f.size) \in Seq(Fields) /\ Len(Data(i, 0, f.size)) = f.size
  BY <1>1, DataIsFields
<1> QED
  BY <1>1, <1>2, <1>3 DEF BlockData

LEMMA FramedBehindInfos ==
    ASSUME NEW r, NEW i, NEW infos \in Seq(Fields), NEW data \in Seq(Fields), NEW all \in Nat,
           Header(r[i]) \in Seq(Fields), Len(Header(r[i])) = 3, all = 3 + Len(infos),
           Body(r[i], i) = infos \o Block(data)
    PROVE  Carries(Frame(r, i), all, data)
<1> DEFINE n == Len(infos)
<1>1. n \in Nat /\ 0 \in Nat /\ n = Len(infos) + 0
  OBVIOUS
<1>2. Carries(Block(data), 0, data)
  BY BlockFrames
<1>3. Carries(infos \o Block(data), n, data)
  BY <1>1, <1>2, FramesBehind
<1>4. all = Len(Header(r[i])) + n
  OBVIOUS
<1> HIDE DEF n
<1>5. Carries(Header(r[i]) \o (infos \o Block(data)), all, data)
  BY <1>1, <1>3, <1>4, FramesBehind
<1> QED
  BY <1>5 DEF Frame

LEMMA FrameIs ==
    ASSUME NEW r, NEW i \in Nat, r[i] \in FrameType
    PROVE  /\ Frame(r, i) \in Seq(Fields)
           /\ Len(Frame(r, i)) >= 3
           /\ Frame(r, i)[1] = Field("cmd", r[i].cmd)
           /\ ~Blocked(r[i]) => Len(Frame(r, i)) = 3
           /\ Blocked(r[i]) => Carries(Frame(r, i), Before(r[i]), BlockData(r[i], i))
<1> DEFINE f == r[i]
           data == BlockData(f, i)
<1> USE DEF dem_signon, dem_packet, dem_synctick, dem_consolecmd, dem_usercmd, dem_datatables,
            dem_stop, dem_customdata, dem_stringtables, dem_lastcmd, Packets, Tables
<1>1. data \in Seq(Fields) /\ Carries(Block(data), 0, data)
  BY BlockDataIs, BlockFrames
<1>2. /\ Header(f) \in Seq(Fields) /\ Len(Header(f)) = 3
      /\ Header(f)[1] = Field("cmd", f.cmd) /\ f.cmd \in 1 .. dem_lastcmd
  BY HeaderIs
<1>3. CASE ~Blocked(f)
  <2>1. Body(f, i) = <<>>
    BY <1>3 DEF Body, Blocked
  <2>2. Frame(r, i) = Header(f)
    BY <1>2, <2>1 DEF Frame
  <2> QED
    BY <1>2, <1>3, <2>2, SMTT(30)
<1>4. CASE Blocked(f)
  <2>1. ASSUME f.cmd \in Packets PROVE Carries(Frame(r, i), Before(f), data)
    <3> DEFINE infos == <<Field("info", 0), Field("seqin", 0), Field("seqout", 0)>>
    <3>1. Field("info", 0) \in Fields /\ Field("seqin", 0) \in Fields /\ Field("seqout", 0) \in Fields
      BY HeaderFieldsAreFields
    <3>2. infos \in Seq(Fields) /\ Len(infos) = 3
      BY <3>1
    <3>3. Body(f, i) = infos \o Block(data)
      BY <2>1 DEF Body, BlockData
    <3>4. Before(f) = 6
      BY <2>1 DEF Before
    <3> HIDE DEF infos, data
    <3>5. 6 = 3 + Len(infos) /\ 6 \in Nat
      BY <3>2
    <3>6. Carries(Frame(r, i), 6, data)
      BY <1>1, <1>2, <3>2, <3>3, <3>5, FramedBehindInfos
    <3> QED
      BY <3>4, <3>6
  <2>2. ASSUME f.cmd = dem_usercmd PROVE Carries(Frame(r, i), Before(f), data)
    <3> DEFINE infos == <<Field("seqout", 0)>>
    <3>1. Field("seqout", 0) \in Fields
      BY HeaderFieldsAreFields
    <3>2. infos \in Seq(Fields) /\ Len(infos) = 1
      BY <3>1
    <3>3. Body(f, i) = infos \o Block(data)
      BY <2>2 DEF Body, BlockData
    <3>4. Before(f) = 4
      BY <2>2 DEF Before
    <3> HIDE DEF infos, data
    <3>5. 4 = 3 + Len(infos) /\ 4 \in Nat
      BY <3>2
    <3>6. Carries(Frame(r, i), 4, data)
      BY <1>1, <1>2, <3>2, <3>3, <3>5, FramedBehindInfos
    <3> QED
      BY <3>4, <3>6
  <2>3. ASSUME f.cmd \notin Packets, f.cmd # dem_usercmd
        PROVE  Carries(Frame(r, i), Before(f), data)
    <3>1. Body(f, i) = Block(data)
      BY <1>2, <1>4, <2>3 DEF Body, BlockData, Blocked
    <3>2. Before(f) = 3
      BY <2>3 DEF Before
    <3> HIDE DEF data
    <3>3. 3 = Len(Header(f)) + 0 /\ 3 \in Nat /\ 0 \in Nat
      BY <1>2
    <3>4. Carries(Header(f) \o Block(data), 3, data)
      BY <1>1, <1>2, <3>3, FramesBehind
    <3> QED
      BY <3>1, <3>2, <3>4 DEF Frame
  <2>4. Carries(Frame(r, i), Before(f), data)
    BY <2>1, <2>2, <2>3
  <2>5. Frame(r, i) \in Seq(Fields) /\ Len(Frame(r, i)) >= 3
    BY <1>1, <2>4 DEF Carries, Before
  <2>6. Frame(r, i)[1] = Field("cmd", f.cmd)
    <3>1. Body(f, i) \in Seq(Fields)
      BY <2>5 DEF Frame
    <3> QED
      BY <1>2, <3>1, Joined DEF Frame
  <2> QED
    BY <1>4, <2>4, <2>5, <2>6
<1> QED
  BY <1>3, <1>4
-----------------------------------------------------------------------------
LEMMA RecordingIs ==
    ASSUME NEW r \in Recordings
    PROVE  /\ r \in Seq(FrameType) /\ Len(r) \in Nat /\ DOMAIN r = 1 .. Len(r)
           /\ \A i \in 1 .. Len(r) : r[i] \in FrameType
<1>1. r \in Seq(FrameType)
  BY RecordingsAssumption
<1>2. Len(r) \in Nat /\ DOMAIN r = 1 .. Len(r)
  BY <1>1
<1>3. \A i \in 1 .. Len(r) : r[i] \in FrameType
  BY <1>1, SeqMember
<1> QED
  BY <1>1, <1>2, <1>3

LEMMA EncodedInParts ==
    ASSUME NEW r \in Recordings
    PROVE  /\ Parts(Framed(r), Len(r), Fields)
           /\ Encode(r) = Flat(Framed(r), Len(r))
           /\ \A i \in 0 .. Len(r) : UpTo(r, i) = Len(Flat(Framed(r), i))
<1>1. /\ r \in Seq(FrameType) /\ Len(r) \in Nat /\ DOMAIN r = 1 .. Len(r)
      /\ \A i \in 1 .. Len(r) : r[i] \in FrameType
  BY RecordingIs
<1>2. \A i \in 1 .. Len(r) : Framed(r)[i] \in Seq(Fields)
  <2> TAKE i \in 1 .. Len(r)
  <2>1. i \in Nat /\ r[i] \in FrameType
    BY <1>1
  <2>2. Frame(r, i) \in Seq(Fields)
    BY <2>1, FrameIs
  <2> QED
    BY <2>2 DEF Framed
<1>3. Encode(r) = Flat(Framed(r), Len(r))
  <2>1. Encode(r) = FlattenSeq(Framed(r))
    BY <1>1 DEF Encode, Framed
  <2>2. Framed(r) = [i \in 1 .. Len(r) |-> Framed(r)[i]]
    BY DEF Framed
  <2> QED
    BY <2>1, <2>2, FlatWhole
<1>4. ASSUME NEW n \in 0 .. Len(r) PROVE UpTo(r, n) = Len(Flat(Framed(r), n))
  <2> DEFINE s == SubSeq(r, 1, n)
  <2>1. DOMAIN s = 1 .. n /\ \A k \in 1 .. n : s[k] = r[k]
    BY <1>1
  <2> HIDE DEF s
  <2>2. \A k \in 1 .. n : Frame(s, k) = Framed(r)[k]
    <3> TAKE k \in 1 .. n
    <3>1. k \in 1 .. Len(r)
      BY <1>1
    <3>2. s[k] = r[k]
      BY <2>1
    <3> QED
      BY <3>1, <3>2 DEF Frame, Framed
  <2>3. Encode(s) = FlattenSeq([k \in 1 .. n |-> Framed(r)[k]])
    BY <2>1, <2>2 DEF Encode
  <2> QED
    BY <2>3 DEF UpTo, Flat, s
<1> QED
  BY <1>1, <1>2, <1>3, <1>4 DEF Parts

(* Where the frames of a recording lie.                                    *)
LEMMA WhereFramesAre ==
    ASSUME NEW r \in Recordings
    PROVE  /\ Encode(r) \in Seq(Fields)
           /\ \A i \in 0 .. Len(r) : UpTo(r, i) \in Nat
           /\ UpTo(r, 0) = 0
           /\ UpTo(r, Len(r)) = Len(Encode(r))
           /\ \A i \in 0 .. Len(r) : \A j \in i .. Len(r) : UpTo(r, i) <= UpTo(r, j)
<1> DEFINE F == Framed(r)
           L == Len(r)
<1>1. /\ Parts(F, L, Fields) /\ Encode(r) = Flat(F, L)
      /\ \A i \in 0 .. L : UpTo(r, i) = Len(Flat(F, i))
  BY EncodedInParts
<1>2. L \in Nat
  BY <1>1 DEF Parts
<1> HIDE DEF F, L
<1>3. \A i \in 0 .. L : Flat(F, i) \in Seq(Fields)
  BY <1>1, FlatTyped
<1>4. Encode(r) \in Seq(Fields)
  BY <1>1, <1>2, <1>3
<1>5. \A i \in 0 .. L : UpTo(r, i) \in Nat
  BY <1>1, <1>3
<1>6. UpTo(r, 0) = 0
  <2>1. Flat(F, 0) = <<>>
    BY FlatNothing
  <2>2. Len(Flat(F, 0)) = 0
    BY <2>1
  <2> QED
    BY <1>1, <1>2, <2>2
<1>7. UpTo(r, L) = Len(Encode(r))
  BY <1>1, <1>2
<1>8. \A i \in 0 .. L : \A j \in i .. L : UpTo(r, i) <= UpTo(r, j)
  <2> TAKE i \in 0 .. L
  <2> TAKE j \in i .. L
  <2>1. StartsWith(Flat(F, j), Flat(F, i))
    BY <1>1, FlatPrefix
  <2>2. j \in 0 .. L
    BY <1>2
  <2> QED
    BY <1>1, <2>1, <2>2 DEF StartsWith
<1> QED
  BY <1>4, <1>5, <1>6, <1>7, <1>8 DEF L

LEMMA WhereFrameIs ==
    ASSUME NEW r \in Recordings, NEW i \in 0 .. Len(r), NEW m \in 1 .. Len(r), m = i + 1
    PROVE  /\ UpTo(r, m) = UpTo(r, i) + Len(Frame(r, m))
           /\ UpTo(r, m) <= Len(Encode(r))
           /\ \A k \in 1 .. Len(Frame(r, m)) : Encode(r)[UpTo(r, i) + k] = Frame(r, m)[k]
<1> DEFINE F == Framed(r)
           L == Len(r)
<1>1. /\ Parts(F, L, Fields) /\ Encode(r) = Flat(F, L)
      /\ \A n \in 0 .. L : UpTo(r, n) = Len(Flat(F, n))
  BY EncodedInParts
<1>2. F[m] = Frame(r, m) /\ m \in 0 .. Len(r)
  BY DEF Framed
<1> HIDE DEF F
<1>3. Len(Flat(F, m)) = Len(Flat(F, i)) + Len(F[m])
  BY <1>1, FlatNext
<1>4. /\ Len(Flat(F, i)) + Len(F[m]) <= Len(Flat(F, L))
      /\ \A k \in 1 .. Len(F[m]) : Flat(F, L)[Len(Flat(F, i)) + k] = F[m][k]
  BY <1>1, FlatParts
<1> QED
  BY <1>1, <1>2, <1>3, <1>4

LEMMA FrameGrows ==
    ASSUME NEW r \in Recordings, NEW i \in 0 .. Len(r), NEW m \in 1 .. Len(r), m = i + 1
    PROVE  UpTo(r, i) \in Nat /\ UpTo(r, m) \in Nat /\ UpTo(r, m) > UpTo(r, i)
<1>1. UpTo(r, m) = UpTo(r, i) + Len(Frame(r, m))
  BY WhereFrameIs
<1>2. m \in 0 .. Len(r) /\ m \in Nat /\ r[m] \in FrameType
  BY RecordingIs
<1>3. Len(Frame(r, m)) >= 3 /\ Frame(r, m) \in Seq(Fields)
  BY <1>2, FrameIs
<1>4. Len(Frame(r, m)) \in Nat
  BY <1>3
<1>5. UpTo(r, i) \in Nat /\ UpTo(r, m) \in Nat
  BY <1>2, WhereFramesAre
<1> QED
  BY <1>1, <1>3, <1>4, <1>5
-----------------------------------------------------------------------------
(* The messages the program gets to see, up to one that is misstated.      *)
Good(f) == Cardinality(GoodMessages(f))
ItemsOf(f, i) == [j \in 1 .. Good(f) |-> MessageItem(f, i, j)]

LEMMA GoodIs ==
    ASSUME NEW f \in FrameType
    PROVE  /\ Good(f) \in 0 .. Len(f.msgs) /\ Len(f.msgs) \in Nat
           /\ \A j \in 1 .. Good(f) : j \notin Misstated(f)
           /\ Good(f) = Len(f.msgs) \/ Good(f) + 1 \in Misstated(f)
<1> DEFINE L == Len(f.msgs)
<1>1. f.msgs \in Seq(MessageType)
  BY DEF FrameType
<1>2. L \in Nat /\ DOMAIN f.msgs = 1 .. L
  BY <1>1
<1> HIDE DEF L
<1>3. PICK n \in 0 .. L : (\A j \in 1 .. n : j \notin Misstated(f)) /\ (n = L \/ n + 1 \in Misstated(f))
  BY <1>2, FirstIn
<1>4. GoodMessages(f) = 1 .. n
  <2>1. ASSUME NEW j \in GoodMessages(f) PROVE j \in 1 .. n
    <3>1. j \in 1 .. L /\ \A k \in 1 .. j : k \notin Misstated(f)
      BY <1>2, <2>1 DEF GoodMessages
    <3>2. CASE j > n
      <4>1. n # L /\ n + 1 \in 1 .. j
        BY <1>2, <1>3, <3>1, <3>2
      <4> QED
        BY <1>3, <3>1, <4>1
    <3> QED
      BY <1>2, <3>1, <3>2
  <2>2. ASSUME NEW j \in 1 .. n PROVE j \in GoodMessages(f)
    <3>1. j \in 1 .. L /\ \A k \in 1 .. j : k \in 1 .. n
      BY <1>2
    <3> QED
      BY <1>2, <1>3, <3>1 DEF GoodMessages
  <2> QED
    BY <2>1, <2>2
<1>5. Good(f) = n
  <2>1. Cardinality(1 .. n) = n
    <3>1. n \in Nat /\ 1 \in Int /\ n \in Int
      BY <1>2
    <3> QED
      BY <3>1, FS_Interval
  <2> QED
    BY <1>4, <2>1 DEF Good
<1> QED
  BY <1>2, <1>3, <1>5 DEF L

LEMMA MessageItemIs ==
    ASSUME NEW f \in FrameType, NEW i \in Nat, NEW j \in 1 .. Len(f.msgs)
    PROVE  MessageItem(f, i, j) \in Seq(ItemType)
<1> DEFINE item == [cmd |-> f.msgs[j].cmd, data |-> Data(i, j, f.msgs[j].len)]
<1>1. f.msgs[j].cmd \in Nat /\ f.msgs[j].len \in Nat
  BY MessageIs
<1>2. j \in Nat
  <2>1. f.msgs \in Seq(MessageType)
    BY DEF FrameType
  <2> QED
    BY <2>1
<1>3. Data(i, j, f.msgs[j].len) \in Seq(Fields)
  BY <1>1, <1>2, DataIsFields
<1>4. item \in ItemType
  BY <1>1, <1>3 DEF ItemType
<1> HIDE DEF item
<1>5. <<item>> \in Seq(ItemType) /\ <<>> \in Seq(ItemType)
  BY <1>4
<1> QED
  BY <1>5 DEF MessageItem, item

LEMMA MessageItemsInParts ==
    ASSUME NEW f \in FrameType, NEW i \in Nat
    PROVE  /\ Parts(ItemsOf(f, i), Good(f), ItemType)
           /\ MessageItems(f, i) = Flat(ItemsOf(f, i), Good(f))
<1>1. Good(f) \in 0 .. Len(f.msgs) /\ Len(f.msgs) \in Nat
  BY GoodIs
<1>2. \A j \in 1 .. Good(f) : j \in 1 .. Len(f.msgs)
  BY <1>1
<1>3. \A j \in 1 .. Good(f) : ItemsOf(f, i)[j] \in Seq(ItemType)
  BY <1>2, MessageItemIs DEF ItemsOf
<1>4. MessageItems(f, i) = FlattenSeq(ItemsOf(f, i))
  BY DEF MessageItems, ItemsOf, MessageItem, Good
<1>5. ItemsOf(f, i) = [j \in 1 .. Good(f) |-> ItemsOf(f, i)[j]]
  BY DEF ItemsOf
<1>6. Good(f) \in Nat
  BY <1>1
<1> QED
  BY <1>3, <1>4, <1>5, <1>6, FlatWhole DEF Parts

LEMMA ItemsIs ==
    ASSUME NEW f \in FrameType, NEW i \in Nat
    PROVE  Items(f, i) \in Seq(ItemType)
<1>1. MessageItems(f, i) \in Seq(ItemType)
  <2>1. Parts(ItemsOf(f, i), Good(f), ItemType)
    BY MessageItemsInParts
  <2>2. Good(f) \in 0 .. Good(f)
    BY <2>1 DEF Parts
  <2>3. Flat(ItemsOf(f, i), Good(f)) \in Seq(ItemType)
    BY <2>1, <2>2, FlatTyped
  <2> QED
    BY <2>3, MessageItemsInParts
<1> DEFINE item == [cmd |-> f.cmd, data |-> Data(i, 0, f.size)]
<1>2. f.cmd \in Nat /\ f.size \in Nat
  BY DEF FrameType, dem_lastcmd, dem_stringtables
<1>3. Data(i, 0, f.size) \in Seq(Fields)
  BY <1>2, DataIsFields
<1>4. item \in ItemType
  BY <1>2, <1>3 DEF ItemType
<1> HIDE DEF item
<1>5. <<item>> \in Seq(ItemType) /\ <<>> \in Seq(ItemType)
  BY <1>4
<1> QED
  BY <1>1, <1>5 DEF Items, item

LEMMA ItemsInParts ==
    ASSUME NEW r \in Recordings
    PROVE  /\ Parts(Itemized(r), Len(r), ItemType)
           /\ \A i \in 0 .. Len(r) : ItemsUpTo(r, i) = Flat(Itemized(r), i)
<1>1. Len(r) \in Nat /\ \A i \in 1 .. Len(r) : r[i] \in FrameType
  BY RecordingIs
<1>2. \A i \in 1 .. Len(r) : Itemized(r)[i] \in Seq(ItemType)
  BY <1>1, ItemsIs DEF Itemized
<1>3. ASSUME NEW n \in 0 .. Len(r) PROVE ItemsUpTo(r, n) = Flat(Itemized(r), n)
  <2>1. \A k \in 1 .. n : Itemized(r)[k] = Items(r[k], k)
    BY <1>1 DEF Itemized
  <2>2. [k \in 1 .. n |-> Itemized(r)[k]] = [k \in 1 .. n |-> Items(r[k], k)]
    BY <2>1
  <2> QED
    BY <2>2 DEF ItemsUpTo, Flat
<1> QED
  BY <1>1, <1>2, <1>3 DEF Parts

(* What there is to dump in a recording, frame by frame.                   *)
LEMMA WhatIsDue ==
    ASSUME NEW r \in Recordings
    PROVE  /\ ItemsUpTo(r, 0) = <<>>
           /\ \A i \in 0 .. Len(r) : ItemsUpTo(r, i) \in Seq(ItemType)
           /\ \A i \in 0 .. Len(r) : \A j \in i .. Len(r) :
                 StartsWith(ItemsUpTo(r, j), ItemsUpTo(r, i))
           /\ \A i \in 0 .. Len(r) : \A m \in 1 .. Len(r) :
                 m = i + 1 => ItemsUpTo(r, m) = ItemsUpTo(r, i) \o Items(r[m], m)
<1> DEFINE F == Itemized(r)
           L == Len(r)
<1>1. Parts(F, L, ItemType) /\ \A i \in 0 .. L : ItemsUpTo(r, i) = Flat(F, i)
  BY ItemsInParts
<1>2. L \in Nat /\ 0 \in 0 .. L
  BY <1>1 DEF Parts
<1>3. \A m \in 1 .. L : F[m] = Items(r[m], m)
  BY DEF Itemized
<1> HIDE DEF F, L
<1>4. ItemsUpTo(r, 0) = <<>>
  BY <1>1, <1>2, FlatNothing
<1>5. \A i \in 0 .. L : ItemsUpTo(r, i) \in Seq(ItemType)
  BY <1>1, FlatTyped
<1>6. \A i \in 0 .. L : \A j \in i .. L : StartsWith(ItemsUpTo(r, j), ItemsUpTo(r, i))
  <2> TAKE i \in 0 .. L
  <2> TAKE j \in i .. L
  <2>1. StartsWith(Flat(F, j), Flat(F, i))
    BY <1>1, FlatPrefix
  <2>2. j \in 0 .. L
    BY <1>2
  <2> QED
    BY <1>1, <2>1, <2>2
<1>7. \A i \in 0 .. L : \A m \in 1 .. L :
         m = i + 1 => ItemsUpTo(r, m) = ItemsUpTo(r, i) \o Items(r[m], m)
  <2> TAKE i \in 0 .. L
  <2> TAKE m \in 1 .. L
  <2> HAVE m = i + 1
  <2>1. Flat(F, m) = Flat(F, i) \o F[m]
    BY <1>1, FlatMore
  <2>2. m \in 0 .. L
    BY <1>2
  <2> QED
    BY <1>1, <1>3, <2>1, <2>2
<1> QED
  BY <1>4, <1>5, <1>6, <1>7 DEF L
-----------------------------------------------------------------------------
(* Where the j-th message of a packet ends, and what is due by then.       *)
MessagesUpTo(f, i, j) == Len(Flat(Messaged(f, i), j))
DueUpTo(f, i, j) == Flat(ItemsOf(f, i), j)

LEMMA WhereMessagesAre ==
    ASSUME NEW f \in FrameType, NEW i \in Nat
    PROVE  /\ Messages(f, i) \in Seq(Fields) /\ Len(f.msgs) \in Nat
           /\ \A j \in 0 .. Len(f.msgs) : MessagesUpTo(f, i, j) \in Nat
           /\ MessagesUpTo(f, i, 0) = 0
           /\ MessagesUpTo(f, i, Len(f.msgs)) = Len(Messages(f, i))
<1> DEFINE F == Messaged(f, i)
           L == Len(f.msgs)
<1>1. Parts(F, L, Fields) /\ Messages(f, i) = Flat(F, L)
  BY MessagesInParts
<1>2. L \in Nat /\ L \in 0 .. L
  BY <1>1 DEF Parts
<1> HIDE DEF F, L
<1>3. \A j \in 0 .. L : Flat(F, j) \in Seq(Fields)
  BY <1>1, FlatTyped
<1>4. \A j \in 0 .. L : MessagesUpTo(f, i, j) \in Nat
  <2> TAKE j \in 0 .. L
  <2>1. Len(Flat(F, j)) \in Nat
    BY <1>3
  <2> QED
    BY <2>1 DEF MessagesUpTo, F
<1>5. MessagesUpTo(f, i, 0) = 0
  <2>1. Flat(F, 0) = <<>>
    BY FlatNothing
  <2>2. Len(Flat(F, 0)) = 0
    BY <2>1
  <2> QED
    BY <2>2 DEF MessagesUpTo, F
<1>6. MessagesUpTo(f, i, L) = Len(Messages(f, i))
  BY <1>1 DEF MessagesUpTo, F
<1> QED
  BY <1>1, <1>2, <1>3, <1>4, <1>5, <1>6 DEF L

LEMMA WhereMessageIs ==
    ASSUME NEW f \in FrameType, NEW i \in Nat,
           NEW j \in 0 .. Len(f.msgs), NEW l \in 1 .. Len(f.msgs), l = j + 1
    PROVE  /\ MessagesUpTo(f, i, l) = MessagesUpTo(f, i, j) + 2 + f.msgs[l].len
           /\ MessagesUpTo(f, i, l) <= Len(Messages(f, i))
           /\ Messages(f, i)[MessagesUpTo(f, i, j) + 1] = Field("mcmd", f.msgs[l].cmd)
           /\ Messages(f, i)[MessagesUpTo(f, i, j) + 2] = Field("msize", f.msgs[l].size)
           /\ \A k \in 1 .. f.msgs[l].len :
                 Messages(f, i)[MessagesUpTo(f, i, j) + 2 + k] = Data(i, l, f.msgs[l].len)[k]
<1> DEFINE F == Messaged(f, i)
           L == Len(f.msgs)
           M == MessageFields(f, i, l)
           len == f.msgs[l].len
           at == Len(Flat(F, j))
<1>1. Parts(F, L, Fields) /\ Messages(f, i) = Flat(F, L)
  BY MessagesInParts
<1>2. F[l] = M
  BY DEF Messaged
<1>3. /\ len \in Nat /\ Len(M) = 2 + len
      /\ M[1] = Field("mcmd", f.msgs[l].cmd) /\ M[2] = Field("msize", f.msgs[l].size)
      /\ \A k \in 1 .. len : M[2 + k] = Data(i, l, len)[k]
  BY MessageIs
<1>4. at = MessagesUpTo(f, i, j) /\ Len(Flat(F, l)) = MessagesUpTo(f, i, l)
  BY DEF MessagesUpTo
<1>0. at \in Nat
  BY <1>4, WhereMessagesAre
<1>b. j \in 0 .. L /\ l \in 1 .. L
  OBVIOUS
<1> HIDE DEF F, L, M, len, at
<1>5. Len(Flat(F, l)) = at + Len(M)
  BY <1>1, <1>2, <1>b, FlatNext DEF at
<1>6. /\ at + Len(M) <= Len(Messages(f, i))
      /\ \A k \in 1 .. Len(M) : Messages(f, i)[at + k] = M[k]
  <2>1. /\ Len(Flat(F, j)) + Len(F[l]) <= Len(Flat(F, L))
        /\ \A k \in 1 .. Len(F[l]) : Flat(F, L)[Len(Flat(F, j)) + k] = F[l][k]
    BY <1>1, <1>b, FlatParts
  <2> QED
    BY <1>1, <1>2, <2>1 DEF at
<1>7. MessagesUpTo(f, i, l) = at + 2 + len
  BY <1>0, <1>3, <1>4, <1>5
<1>8. MessagesUpTo(f, i, l) <= Len(Messages(f, i))
  BY <1>4, <1>5, <1>6
<1>9. 1 \in 1 .. Len(M) /\ 2 \in 1 .. Len(M)
  BY <1>3
<1>a. ASSUME NEW k \in 1 .. len
      PROVE  Messages(f, i)[at + 2 + k] = Data(i, l, len)[k]
  <2>1. 2 + k \in 1 .. Len(M) /\ at + 2 + k = at + (2 + k)
    BY <1>0, <1>3
  <2> QED
    BY <1>3, <1>6, <2>1
<1> QED
  BY <1>3, <1>4, <1>6, <1>7, <1>8, <1>9, <1>a DEF len

LEMMA WhatIsDueInPacket ==
    ASSUME NEW f \in FrameType, NEW i \in Nat
    PROVE  /\ DueUpTo(f, i, 0) = <<>>
           /\ DueUpTo(f, i, Good(f)) = MessageItems(f, i)
           /\ MessageItems(f, i) \in Seq(ItemType)
           /\ \A j \in 0 .. Good(f) :
                 DueUpTo(f, i, j) \in Seq(ItemType) /\ StartsWith(MessageItems(f, i), DueUpTo(f, i, j))
           /\ \A j \in 0 .. Good(f) : \A l \in 1 .. Good(f) :
                 l = j + 1 => DueUpTo(f, i, l) = DueUpTo(f, i, j) \o MessageItem(f, i, l)
<1> DEFINE F == ItemsOf(f, i)
           g == Good(f)
<1>1. Parts(F, g, ItemType) /\ MessageItems(f, i) = Flat(F, g)
  BY MessageItemsInParts
<1>2. g \in Nat /\ g \in 0 .. g
  BY <1>1 DEF Parts
<1>3. \A l \in 1 .. g : F[l] = MessageItem(f, i, l)
  BY DEF ItemsOf
<1>d. \A j : DueUpTo(f, i, j) = Flat(F, j)
  BY DEF DueUpTo
<1> HIDE DEF F, g
<1>4. \A j \in 0 .. g : Flat(F, j) \in Seq(ItemType)
  BY <1>1, FlatTyped
<1>5. \A j \in 0 .. g : StartsWith(Flat(F, g), Flat(F, j))
  <2> TAKE j \in 0 .. g
  <2>1. g \in j .. g
    BY <1>2
  <2> QED
    BY <1>1, <2>1, FlatPrefix
<1>6. \A j \in 0 .. g : \A l \in 1 .. g : l = j + 1 => Flat(F, l) = Flat(F, j) \o F[l]
  BY <1>1, FlatMore
<1>7. DueUpTo(f, i, 0) = <<>>
  BY <1>d, FlatNothing
<1>8. DueUpTo(f, i, g) = MessageItems(f, i) /\ MessageItems(f, i) \in Seq(ItemType)
  BY <1>1, <1>2, <1>4, <1>d
<1>9. \A j \in 0 .. g :
         DueUpTo(f, i, j) \in Seq(ItemType) /\ StartsWith(MessageItems(f, i), DueUpTo(f, i, j))
  BY <1>1, <1>4, <1>5, <1>d
<1>a. \A j \in 0 .. g : \A l \in 1 .. g :
         l = j + 1 => DueUpTo(f, i, l) = DueUpTo(f, i, j) \o MessageItem(f, i, l)
  BY <1>3, <1>6, <1>d
<1> QED
  BY <1>7, <1>8, <1>9, <1>a DEF g
-----------------------------------------------------------------------------
(* Up to where the recording is sound.                                     *)
Unsound(r, kept) == {i \in 1 .. Len(r) : ~Sound(r, i, kept)}

LEMMA SoundFramesAre ==
    ASSUME NEW r \in Recordings, NEW kept
    PROVE  /\ SoundFrames(r, kept) \in 0 .. Len(r)
           /\ \A i \in 1 .. SoundFrames(r, kept) : Sound(r, i, kept)
           /\ SoundFrames(r, kept) = Len(r) \/ ~Sound(r, SoundFrames(r, kept) + 1, kept)
<1>1. Len(r) \in Nat
  BY RecordingIs
<1>0. \A bad : \E n \in 0 .. Len(r) :
         (\A i \in 1 .. n : i \notin bad) /\ (n = Len(r) \/ n + 1 \in bad)
  BY <1>1, FirstIn
<1>2. PICK n \in 0 .. Len(r) : /\ \A i \in 1 .. n : i \notin Unsound(r, kept)
                               /\ n = Len(r) \/ n + 1 \in Unsound(r, kept)
  BY <1>0
<1>3. /\ \A i \in 1 .. n : Sound(r, i, kept)
      /\ n = Len(r) \/ ~Sound(r, n + 1, kept)
  BY <1>1, <1>2 DEF Unsound
<1> QED
  BY <1>3 DEF SoundFrames
-----------------------------------------------------------------------------
(* The inductive invariant.  What the program has dumped, and where in the *)
(* file it is, agree with a place in the recording; or it has dumped all   *)
(* that was due and is beyond the damage.                                  *)
sound == SoundFrames(recording, Len(file))

Recorded ==
    /\ recording \in Recordings
    /\ file \in Seq(Fields)
    /\ Len(file) <= Len(Encode(recording))
    /\ Record(recording, Len(file))

Typed ==
    /\ pos \in Int
    /\ pc \in {"command", "handler", "packet"} \union Ends
    /\ pc = "handler" => pos > 1
    /\ cmd \in 1 .. dem_lastcmd
    /\ payload \in Seq(Fields)
    /\ length \in -1 .. PayloadMax
    /\ offset \in 0 .. PayloadMax
    /\ pc = "packet" => length \in {-1, Len(payload)}
    /\ lastSize \in Int
    /\ dumped \in Seq(ItemType)

(* Nothing that is due is missing.                                         *)
Complete(items) == StartsWith(items, script)

(* The program is at the end of a sound frame, or beyond those.            *)
InOrder(p, items) ==
    \E i \in 0 .. sound : p = UpTo(recording, i) + 1 /\ items = ItemsUpTo(recording, i)
Stray(items) == damaged /\ Complete(items)

(* Frame m, behind the i-th, is one the program reads, and can.            *)
Reads(i, m) ==
    /\ i \in 0 .. sound
    /\ m \in 1 .. Len(recording)
    /\ m = i + 1
    /\ UpTo(recording, m) <= Len(file)
    /\ ~Refused(recording[m])

InFrame(p, c, items) ==
    \E i \in 0 .. Len(recording), m \in 1 .. Len(recording) :
        /\ Reads(i, m)
        /\ p = UpTo(recording, i) + 4
        /\ c = recording[m].cmd
        /\ items = ItemsUpTo(recording, i)

AtEnd(c, items) == c = dem_stop /\ items = script

InPacket(p, data, len, at, items) ==
    \E i \in 0 .. Len(recording), m \in 1 .. Len(recording) :
        /\ Reads(i, m)
        /\ recording[m].cmd \in Packets
        /\ p = UpTo(recording, m) + 1
        /\ data = Messages(recording[m], m)
        /\ len = Len(data)
        /\ \E j \in 0 .. Good(recording[m]) :
              /\ at = MessagesUpTo(recording[m], m, j)
              /\ items = ItemsUpTo(recording, i) \o DueUpTo(recording[m], m, j)

Failures == {"fatal", "abort", "undefined"}

Where ==
    /\ pc = "command" => InOrder(pos, dumped) \/ Stray(dumped)
    /\ pc = "handler" => InFrame(pos, cmd, dumped) \/ AtEnd(cmd, dumped) \/ Stray(dumped)
    /\ pc = "packet" => InPacket(pos, payload, length, offset, dumped) \/ Stray(dumped)
    /\ pc = "finished" => Complete(dumped)
    /\ pc \in Failures => damaged /\ Complete(dumped)

Inv == Recorded /\ Typed /\ Where
-----------------------------------------------------------------------------
LEMMA SoundIs ==
    ASSUME Recorded
    PROVE  /\ sound \in 0 .. Len(recording) /\ Len(recording) \in Nat /\ sound \in Nat
           /\ Len(file) \in Nat
           /\ \A i \in 0 .. sound : UpTo(recording, i) \in Nat /\ UpTo(recording, i) <= Len(file)
           /\ \A i \in 0 .. sound : UpTo(recording, i) <= UpTo(recording, sound)
<1> DEFINE r == recording
           n == sound
<1>1. r \in Recordings /\ file \in Seq(Fields)
  BY DEF Recorded
<1>2. Len(r) \in Nat
  BY <1>1, RecordingIs
<1>3. n \in 0 .. Len(r) /\ \A i \in 1 .. n : Sound(r, i, Len(file))
  BY <1>1, SoundFramesAre DEF sound
<1>4. /\ \A i \in 0 .. Len(r) : UpTo(r, i) \in Nat
      /\ UpTo(r, 0) = 0
      /\ \A i \in 0 .. Len(r) : \A j \in i .. Len(r) : UpTo(r, i) <= UpTo(r, j)
  BY <1>1, WhereFramesAre
<1>5. Len(file) \in Nat
  BY <1>1
<1> HIDE DEF n
<1>6. ASSUME NEW i \in 0 .. n
      PROVE  UpTo(r, i) \in Nat /\ UpTo(r, i) <= Len(file) /\ UpTo(r, i) <= UpTo(r, n)
  <2>1. i \in 0 .. Len(r) /\ n \in i .. Len(r)
    BY <1>2, <1>3
  <2>2. CASE i = 0
    BY <1>4, <1>5, <2>1, <2>2
  <2>3. CASE i # 0
    <3>1. i \in 1 .. n
      BY <1>3, <2>3
    <3> QED
      BY <1>3, <1>4, <2>1, <3>1 DEF Sound, Whole
  <2> QED
    BY <2>2, <2>3
<1>7. n \in Nat
  BY <1>2, <1>3
<1> QED
  BY <1>2, <1>3, <1>5, <1>6, <1>7 DEF n

LEMMA FileIs ==
    ASSUME Recorded
    PROVE  \A p \in 1 .. Len(file) : file[p] = Encode(recording)[p]
<1>1. recording \in Recordings /\ file = SubSeq(Encode(recording), 1, Len(file))
  BY DEF Recorded, Record
<1>2. Encode(recording) \in Seq(Fields) /\ Len(file) <= Len(Encode(recording)) /\ Len(file) \in Nat
  BY <1>1, WhereFramesAre DEF Recorded
<1> DEFINE n == Len(file)
<1> HIDE DEF n
<1>3. \A p \in 1 .. n : SubSeq(Encode(recording), 1, n)[p] = Encode(recording)[p]
  BY <1>2 DEF n
<1> QED
  BY <1>1, <1>3 DEF n

(* The script holds the items of the sound frames, and of one more if that *)
(* one can be read.                                                        *)
LEMMA ScriptIs ==
    ASSUME Recorded
    PROVE  /\ script \in Seq(ItemType)
           /\ \A i \in 0 .. sound : StartsWith(script, ItemsUpTo(recording, i))
           /\ \A m \in 1 .. Len(recording) :
                 m = sound + 1 =>
                    script = IF UpTo(recording, m) <= Len(file) /\ ~Refused(recording[m])
                             THEN ItemsUpTo(recording, m) ELSE ItemsUpTo(recording, sound)
           /\ sound = Len(recording) => script = ItemsUpTo(recording, sound)
           /\ damaged = (sound < Len(recording) /\ UpTo(recording, sound) < Len(file))
<1> DEFINE r == recording
           n == sound
           kept == Len(file)
<1>1. r \in Recordings /\ script = Script(r, n, kept)
  BY DEF Recorded, Record, sound
<1>2. damaged = (n < Len(r) /\ UpTo(r, n) < kept)
  BY DEF Recorded, Record, sound
<1>3. n \in 0 .. Len(r) /\ Len(r) \in Nat /\ n \in Nat
  BY SoundIs
<1>4. /\ \A i \in 0 .. Len(r) : ItemsUpTo(r, i) \in Seq(ItemType)
      /\ \A i \in 0 .. Len(r) : \A j \in i .. Len(r) :
            StartsWith(ItemsUpTo(r, j), ItemsUpTo(r, i))
      /\ \A i \in 0 .. Len(r) : \A m \in 1 .. Len(r) :
            m = i + 1 => ItemsUpTo(r, m) = ItemsUpTo(r, i) \o Items(r[m], m)
  BY <1>1, WhatIsDue
<1> HIDE DEF n
<1>5. ItemsUpTo(r, n) \o <<>> = ItemsUpTo(r, n)
  <2>1. ItemsUpTo(r, n) \in Seq(ItemType)
    BY <1>3, <1>4
  <2> QED
    BY <2>1
<1>6. n = Len(r) => script = ItemsUpTo(r, n)
  <2>1. n = Len(r) => ~(n < Len(r))
    BY <1>3
  <2> QED
    BY <1>1, <1>5, <2>1 DEF Script
<1>7. ASSUME NEW m \in 1 .. Len(r), m = n + 1
      PROVE  script = IF UpTo(r, m) <= kept /\ ~Refused(r[m]) THEN ItemsUpTo(r, m) ELSE ItemsUpTo(r, n)
  <2>1. n < Len(r)
    BY <1>3, <1>7
  <2>2. script = ItemsUpTo(r, n) \o
                    (IF UpTo(r, m) <= kept /\ ~Refused(r[m]) THEN Items(r[m], m) ELSE <<>>)
    BY <1>1, <1>7, <2>1 DEF Script, Whole
  <2>3. ItemsUpTo(r, m) = ItemsUpTo(r, n) \o Items(r[m], m)
    BY <1>3, <1>4, <1>7
  <2> QED
    BY <1>5, <2>2, <2>3
<1>8. \E m \in n .. Len(r) : script = ItemsUpTo(r, m)
  <2>1. CASE n = Len(r)
    BY <1>3, <1>6, <2>1
  <2>2. CASE n # Len(r)
    <3>1. PICK m \in 1 .. Len(r) : m = n + 1
      BY <1>3, <2>2
    <3>2. m \in n .. Len(r) /\ n \in n .. Len(r)
      BY <1>3, <3>1
    <3>3. script = ItemsUpTo(r, m) \/ script = ItemsUpTo(r, n)
      BY <1>7, <3>1
    <3> QED
      BY <3>2, <3>3
  <2> QED
    BY <2>1, <2>2
<1>9. PICK last \in n .. Len(r) : script = ItemsUpTo(r, last)
  BY <1>8
<1>a. last \in 0 .. Len(r) /\ \A i \in 0 .. n : i \in 0 .. Len(r) /\ last \in i .. Len(r)
  BY <1>3
<1>b. script \in Seq(ItemType) /\ \A i \in 0 .. n : StartsWith(script, ItemsUpTo(r, i))
  BY <1>4, <1>9, <1>a
<1> QED
  BY <1>2, <1>6, <1>7, <1>b DEF n

(* What the program finds where it reads a frame.                          *)
LEMMA ReadsIs ==
    ASSUME Recorded, NEW i, NEW m, Reads(i, m)
    PROVE  /\ recording \in Recordings /\ recording[m] \in FrameType /\ m \in Nat
           /\ i \in 0 .. Len(recording) /\ m \in 1 .. Len(recording) /\ m = i + 1
           /\ UpTo(recording, i) \in Nat /\ UpTo(recording, m) \in Nat
           /\ UpTo(recording, m) = UpTo(recording, i) + Len(Frame(recording, m))
           /\ UpTo(recording, m) <= Len(file) /\ Len(file) \in Nat
           /\ \A k \in 1 .. Len(Frame(recording, m)) :
                 file[UpTo(recording, i) + k] = Frame(recording, m)[k]
           /\ ItemsUpTo(recording, i) \in Seq(ItemType)
           /\ ItemsUpTo(recording, m) = ItemsUpTo(recording, i) \o Items(recording[m], m)
<1> DEFINE r == recording
           F == Frame(r, m)
<1>1. /\ i \in 0 .. sound /\ m \in 1 .. Len(r) /\ m = i + 1
      /\ UpTo(r, m) <= Len(file)
  BY DEF Reads
<1>2. sound \in 0 .. Len(r) /\ Len(r) \in Nat /\ Len(file) \in Nat
  BY SoundIs
<1>3. r \in Recordings
  BY DEF Recorded
<1>4. i \in 0 .. Len(r) /\ m \in 0 .. Len(r) /\ m \in Nat
  BY <1>1, <1>2
<1>5. UpTo(r, i) \in Nat /\ UpTo(r, m) \in Nat
  BY <1>3, <1>4, WhereFramesAre
<1>6. /\ UpTo(r, m) = UpTo(r, i) + Len(F)
      /\ \A k \in 1 .. Len(F) : Encode(r)[UpTo(r, i) + k] = F[k]
  BY <1>1, <1>3, <1>4, WhereFrameIs
<1>7. r[m] \in FrameType
  BY <1>1, <1>3, RecordingIs
<1>8. Len(F) \in Nat
  <2>1. F \in Seq(Fields)
    BY <1>4, <1>7, FrameIs
  <2> QED
    BY <2>1
<1> HIDE DEF F
<1>9. \A k \in 1 .. Len(F) : file[UpTo(r, i) + k] = F[k]
  <2> TAKE k \in 1 .. Len(F)
  <2>1. UpTo(r, i) + k \in 1 .. Len(file)
    BY <1>1, <1>2, <1>5, <1>6, <1>8
  <2> QED
    BY <1>6, <2>1, FileIs
<1>a. /\ ItemsUpTo(r, i) \in Seq(ItemType)
      /\ ItemsUpTo(r, m) = ItemsUpTo(r, i) \o Items(r[m], m)
  BY <1>1, <1>3, <1>4, WhatIsDue
<1> QED
  BY <1>1, <1>2, <1>3, <1>4, <1>5, <1>6, <1>7, <1>9, <1>a DEF F

(* A frame that is read but not sound is the last that is due.             *)
LEMMA ReadsLast ==
    ASSUME Recorded, NEW i, NEW m, Reads(i, m)
    PROVE  /\ StartsWith(script, ItemsUpTo(recording, m)) /\ ItemsUpTo(recording, m) \in Seq(ItemType)
           /\ \/ m \in 0 .. sound /\ Misstated(recording[m]) = {}
              \/ i = sound /\ damaged /\ script = ItemsUpTo(recording, m)
<1> DEFINE r == recording
           n == sound
<1>1. /\ i \in 0 .. n /\ m \in 1 .. Len(r) /\ m = i + 1
      /\ UpTo(r, m) <= Len(file) /\ ~Refused(r[m])
  BY DEF Reads
<1>2. /\ n \in 0 .. Len(r) /\ Len(r) \in Nat /\ n \in Nat /\ Len(file) \in Nat
      /\ \A k \in 0 .. n : UpTo(r, k) \in Nat
  BY SoundIs
<1>3. /\ script \in Seq(ItemType)
      /\ \A k \in 0 .. n : StartsWith(script, ItemsUpTo(r, k))
      /\ \A l \in 1 .. Len(r) :
            l = n + 1 => script = IF UpTo(r, l) <= Len(file) /\ ~Refused(r[l])
                                  THEN ItemsUpTo(r, l) ELSE ItemsUpTo(r, n)
      /\ damaged = (n < Len(r) /\ UpTo(r, n) < Len(file))
  BY ScriptIs
<1>4. r \in Recordings
  BY DEF Recorded
<1>5. ItemsUpTo(r, m) \in Seq(ItemType)
  <2>1. m \in 0 .. Len(r)
    BY <1>1, <1>2
  <2> QED
    BY <1>4, <2>1, WhatIsDue
<1>6. \A k \in 1 .. n : Sound(r, k, Len(file))
  BY <1>4, SoundFramesAre DEF sound
<1>7. UpTo(r, i) < UpTo(r, m) /\ UpTo(r, i) \in Nat /\ UpTo(r, m) \in Nat
  <2>1. UpTo(r, m) = UpTo(r, i) + Len(Frame(r, m)) /\ r[m] \in FrameType /\ m \in Nat
    BY ReadsIs
  <2>2. UpTo(r, i) \in Nat /\ UpTo(r, m) \in Nat
    BY ReadsIs
  <2>3. Len(Frame(r, m)) >= 3 /\ Frame(r, m) \in Seq(Fields)
    BY <2>1, FrameIs
  <2>4. Len(Frame(r, m)) \in Nat
    BY <2>3
  <2> QED
    BY <2>1, <2>2, <2>3, <2>4
<1> HIDE DEF n
<1>8. CASE i = n
  <2>1. n < Len(r)
    BY <1>1, <1>2, <1>8
  <2>2. damaged
    <3>1. UpTo(r, n) < Len(file)
      BY <1>1, <1>2, <1>7, <1>8
    <3> QED
      BY <1>3, <2>1, <3>1
  <2>3. script = ItemsUpTo(r, m)
    BY <1>1, <1>3, <1>8
  <2>4. StartsWith(script, ItemsUpTo(r, m))
    BY <1>5, <2>3 DEF StartsWith
  <2> QED
    BY <1>5, <1>8, <2>2, <2>3, <2>4 DEF n
<1>9. CASE i # n
  <2>1. m \in 0 .. n /\ m \in 1 .. n
    BY <1>1, <1>2, <1>9
  <2>2. Misstated(r[m]) = {}
    BY <1>6, <2>1 DEF Sound
  <2>3. StartsWith(script, ItemsUpTo(r, m))
    BY <1>3, <2>1
  <2> QED
    BY <1>5, <2>1, <2>2, <2>3 DEF n
<1> QED
  BY <1>8, <1>9

LEMMA SelfStarts ==
    ASSUME NEW T, NEW s \in Seq(T)
    PROVE  StartsWith(s, s)
  BY DEF StartsWith

(* Behind a frame it has read, the program is in order or beyond.          *)
LEMMA EndOfFrame ==
    ASSUME Recorded, NEW i, NEW m, Reads(i, m)
    PROVE  \A p, items :
              p = UpTo(recording, m) + 1 /\ items = ItemsUpTo(recording, m) =>
                 InOrder(p, items) \/ Stray(items)
<1> SUFFICES ASSUME NEW p, NEW items, p = UpTo(recording, m) + 1, items = ItemsUpTo(recording, m)
             PROVE  InOrder(p, items) \/ Stray(items)
  OBVIOUS
<1>1. /\ ItemsUpTo(recording, m) \in Seq(ItemType)
      /\ \/ m \in 0 .. sound
         \/ i = sound /\ damaged /\ script = ItemsUpTo(recording, m)
  BY ReadsLast
<1>2. CASE m \in 0 .. sound
  BY <1>2 DEF InOrder
<1>3. CASE i = sound /\ damaged /\ script = ItemsUpTo(recording, m)
  <2>1. Complete(items)
    BY <1>1, <1>3, SelfStarts DEF Complete
  <2> QED
    BY <1>3, <2>1 DEF Stray
<1> QED
  BY <1>1, <1>2, <1>3

(* A frame it cannot read, or not to the end, is where the damage is.      *)
LEMMA NotRead ==
    ASSUME Recorded, NEW i \in 0 .. sound, NEW m \in 1 .. Len(recording), m = i + 1,
           UpTo(recording, i) < Len(file), ~Reads(i, m)
    PROVE  i = sound /\ damaged /\ Complete(ItemsUpTo(recording, i))
<1> DEFINE r == recording
           n == sound
<1>1. /\ n \in 0 .. Len(r) /\ Len(r) \in Nat /\ n \in Nat
  BY SoundIs
<1>2. /\ script \in Seq(ItemType)
      /\ \A l \in 1 .. Len(r) :
            l = n + 1 => script = IF UpTo(r, l) <= Len(file) /\ ~Refused(r[l])
                                  THEN ItemsUpTo(r, l) ELSE ItemsUpTo(r, n)
      /\ damaged = (n < Len(r) /\ UpTo(r, n) < Len(file))
  BY ScriptIs
<1>3. \A k \in 1 .. n : Sound(r, k, Len(file))
  BY SoundFramesAre DEF sound, Recorded
<1>4. ~(UpTo(r, m) <= Len(file) /\ ~Refused(r[m]))
  BY DEF Reads
<1> HIDE DEF n
<1>0. i \in 0 .. n
  BY DEF n
<1>5. i = n
  <2> SUFFICES ASSUME i # n PROVE FALSE
    OBVIOUS
  <2>1. m \in 1 .. n
    BY <1>0, <1>1
  <2> QED
    BY <1>3, <1>4, <2>1 DEF Sound, Whole
<1>6. script = ItemsUpTo(r, n)
  BY <1>2, <1>4, <1>5
<1>7. damaged
  <2>1. n < Len(r)
    BY <1>1, <1>5
  <2> QED
    BY <1>2, <1>5, <2>1
<1>8. Complete(ItemsUpTo(r, i))
  BY <1>2, <1>5, <1>6, SelfStarts DEF Complete
<1> QED
  BY <1>5, <1>7, <1>8 DEF n
-----------------------------------------------------------------------------
(* Once beyond, always beyond; and beyond the damage nothing is promised.  *)
LEMMA StrayIsEnough ==
    ASSUME Stray(dumped)
    PROVE  Where
  BY DEF Where, Stray, Failures

LEMMA MoreIsComplete ==
    ASSUME NEW items \in Seq(ItemType), script \in Seq(ItemType), Complete(items)
    PROVE  \A item : Complete(Append(items, item))
  BY DEF Complete, StartsWith

LEMMA RecordedStays ==
    ASSUME Recorded, UNCHANGED recorded
    PROVE  Recorded' /\ sound' = sound
  BY DEF Recorded, recorded, Record, sound

LEMMA ValuesAreInt ==
    ASSUME NEW fields \in Seq(Fields), NEW kind \in {"cmd", "size", "mcmd", "msize"}
    PROVE  \A p : Values(fields, p, kind) \subseteq Int
<1> TAKE p
<1>1. CASE p \in DOMAIN fields /\ fields[p].kind = kind
  <2>1. p \in 1 .. Len(fields)
    BY <1>1
  <2>2. fields[p] \in Fields
    BY <2>1, SeqMember
  <2>3. fields[p].val \in Int
    BY <2>2 DEF Fields
  <2> QED
    BY <1>1, <2>3 DEF Values
<1>2. CASE ~(p \in DOMAIN fields /\ fields[p].kind = kind)
  <2>1. Ints \subseteq Int
    BY CapacityAssumption DEF Ints, IntLimit
  <2> QED
    <3>1. Garbage[kind] \subseteq Int
      <4>1. CASE kind = "cmd"
        <5>1. Garbage["cmd"] \subseteq Nat
          BY GarbageAssumption
        <5>2. Garbage[kind] \subseteq Nat
          BY <4>1, <5>1
        <5> QED
          BY <5>2
      <4>2. CASE kind \in {"size", "mcmd", "msize"}
        <5>1. Garbage[kind] \subseteq Ints
          BY <4>2, GarbageAssumption
        <5> QED
          BY <2>1, <5>1
      <4> QED
        BY <4>1, <4>2
    <3> QED
      BY <1>2, <3>1 DEF Values
<1> QED
  BY <1>1, <1>2

LEMMA AheadAreInt ==
    ASSUME payload \in Seq(Fields)
    PROVE  CmdsAhead \subseteq Int /\ SizesAhead \subseteq Int
<1>1. /\ \A p : Values(payload, p, "mcmd") \subseteq Int
      /\ \A p : Values(payload, p, "msize") \subseteq Int
  BY ValuesAreInt
<1> QED
  BY <1>1 DEF CmdsAhead, SizesAhead

(* What the actions leave alone, and the types of what they do not.        *)
LEMMA StepTyped ==
    ASSUME Recorded, Typed, [Next]_vars
    PROVE  /\ UNCHANGED recorded
           /\ Typed'
           /\ dumped' = dumped \/ \E item : dumped' = Append(dumped, item)
<1> USE DEF dem_signon, dem_packet, dem_synctick, dem_consolecmd, dem_usercmd, dem_datatables,
            dem_stop, dem_customdata, dem_stringtables, dem_lastcmd, Ends
<1>0. /\ pos \in Int /\ cmd \in 1 .. dem_lastcmd /\ payload \in Seq(Fields)
      /\ length \in -1 .. PayloadMax /\ offset \in 0 .. PayloadMax /\ dumped \in Seq(ItemType)
      /\ pc = "packet" => length \in {-1, Len(payload)}
      /\ pc = "handler" => pos > 1
      /\ lastSize \in Int
  BY DEF Typed
<1>f. file \in Seq(Fields) /\ Len(file) \in Nat
  BY DEF Recorded
<1>p. PayloadMax \in Nat
  BY CapacityAssumption
<1>s. \A p : Values(file, p, "size") \subseteq Int
  BY <1>f, ValuesAreInt
<1>1. CASE ReadCmdHeader
  <2>1. UNCHANGED <<recorded, packet, lastSize, dumped>>
    BY <1>1 DEF ReadCmdHeader, ReadBehind
  <2>2. pos' \in {pos, pos + 1, pos + 3}
    BY <1>0, <1>1 DEF ReadCmdHeader, ReadBehind
  <2>3. cmd' \in 1 .. dem_lastcmd
    BY <1>0, <1>1 DEF ReadCmdHeader, ReadBehind
  <2>4. pc' \in {"undefined", "abort"} \/ (pc' = "handler" /\ pos' > 1)
    BY <1>0, <1>1 DEF ReadCmdHeader, ReadBehind
  <2> QED
    BY <1>0, <2>1, <2>2, <2>3, <2>4 DEF Typed, packet
<1>2. CASE HandleNothing \/ HandleStop \/ EndPacket
  <2>1. UNCHANGED <<recorded, pos, cmd, packet, lastSize, dumped>>
    BY <1>2 DEF HandleNothing, HandleStop, EndPacket
  <2>2. pc' \in {"command", "finished"}
    BY <1>2 DEF HandleNothing, HandleStop, EndPacket
  <2> QED
    BY <1>0, <2>1, <2>2 DEF Typed, packet
<1>3. CASE HandleConsoleCmd \/ HandleUserCmd
  <2>1. UNCHANGED <<recorded, cmd, packet, dumped>>
    BY <1>3 DEF HandleConsoleCmd, HandleUserCmd, SkipRawData, ReadBehind
  <2>2. pc' \in {"command", "undefined"}
    BY <1>3 DEF HandleConsoleCmd, HandleUserCmd, SkipRawData, ReadBehind
  <2>3. pos' \in Int /\ lastSize' \in Int
    <3>1. \/ pos' = pos /\ lastSize' = lastSize
          \/ \E p \in {pos, pos + 1} : \E size \in Values(file, p, "size") :
                pos' = p + 1 + size /\ lastSize' = size
      BY <1>3 DEF HandleConsoleCmd, HandleUserCmd, SkipRawData, ReadBehind, Skip
    <3> QED
      BY <1>0, <1>s, <3>1
  <2> QED
    BY <1>0, <2>1, <2>2, <2>3 DEF Typed, packet
<1>4. CASE HandleTables
  <2>1. UNCHANGED <<recorded, cmd, packet>>
    BY <1>4 DEF HandleTables, ReadBehind
  <2>2. pc' \in {"command", "undefined"}
    BY <1>4 DEF HandleTables, ReadBehind
  <2>3. CASE UNCHANGED <<pos, lastSize, dumped>>
    BY <1>0, <2>1, <2>2, <2>3 DEF Typed, packet
  <2>4. CASE \E size \in Values(file, pos, "size") : lastSize' = size /\ UNCHANGED <<pos, dumped>>
    BY <1>0, <1>s, <2>1, <2>2, <2>4 DEF Typed, packet
  <2>5. CASE \E size \in Values(file, pos, "size") :
              /\ lastSize' = size /\ pos' = pos + 1
              /\ dumped' = Append(dumped, [cmd |-> cmd, data |-> <<>>])
    <3>1. [cmd |-> cmd, data |-> <<>>] \in ItemType
      <4>1. <<>> \in Seq(Fields)
        OBVIOUS
      <4> QED
        BY <1>0, <4>1 DEF ItemType
    <3>2. dumped' \in Seq(ItemType)
      BY <1>0, <2>5, <3>1
    <3>3. pos' \in Int /\ lastSize' \in Int
      BY <1>0, <1>s, <2>5
    <3>4. Typed'
      BY <1>0, <2>1, <2>2, <3>2, <3>3 DEF Typed, packet
    <3> QED
      BY <2>1, <2>5, <3>4
  <2>6. CASE \E size \in Values(file, pos, "size") :
              /\ lastSize' = size /\ Present(pos) /\ ~CopyFails(pos, size)
              /\ pos' = pos + 1 + size
              /\ dumped' = Append(dumped,
                     [cmd |-> cmd, data |-> SubSeq(file, pos + 1, pos + size)])
    <3>1. PICK size \in Values(file, pos, "size") :
              /\ lastSize' = size /\ Present(pos) /\ ~CopyFails(pos, size)
              /\ pos' = pos + 1 + size
              /\ dumped' = Append(dumped,
                     [cmd |-> cmd, data |-> SubSeq(file, pos + 1, pos + size)])
      BY <2>6
    <3>2. size \in Int
      BY <1>s
    <3>3. SubSeq(file, pos + 1, pos + size) \in Seq(Fields)
      <4>1. pos \in 1 .. Len(file) /\ size >= 0 /\ pos + size <= Len(file)
        BY <1>0, <1>f, <3>1, <3>2 DEF Present, CopyFails
      <4> QED
        BY <1>0, <1>f, <3>2, <4>1
    <3>4. [cmd |-> cmd, data |-> SubSeq(file, pos + 1, pos + size)] \in ItemType
      BY <1>0, <3>3 DEF ItemType
    <3>5. dumped' \in Seq(ItemType)
      BY <1>0, <3>1, <3>4
    <3>6. pos' \in Int /\ lastSize' \in Int
      BY <1>0, <3>1, <3>2
    <3>7. Typed'
      BY <1>0, <2>1, <2>2, <3>5, <3>6 DEF Typed, packet
    <3> QED
      BY <2>1, <3>1, <3>7
  <2> QED
    BY <1>4, <2>3, <2>4, <2>5, <2>6 DEF HandleTables, ReadBehind
<1>5. CASE HandleDemoPacket
  <2>1. UNCHANGED <<recorded, cmd, dumped>>
    BY <1>5 DEF HandleDemoPacket, ReadBehind
  <2>2. CASE UNCHANGED <<pos, packet, lastSize>> /\ pc' = "undefined"
    BY <1>0, <2>1, <2>2 DEF Typed, packet
  <2>3. CASE \E size \in Values(file, pos + 3, "size") :
                /\ lastSize' = size /\ offset' = 0 /\ pc' = "undefined"
                /\ UNCHANGED <<pos, payload, length>>
    BY <1>0, <1>p, <1>s, <2>1, <2>3 DEF Typed, packet
  <2>4. CASE \E size \in Values(file, pos + 3, "size") :
                /\ lastSize' = size /\ offset' = 0 /\ pc' = "packet"
                /\ pos' = pos + 4 /\ length' = -1 /\ payload' = <<>>
    BY <1>0, <1>p, <1>s, <2>1, <2>4 DEF Typed
  <2>5. CASE \E size \in Values(file, pos + 3, "size") :
                /\ lastSize' = size /\ offset' = 0 /\ pc' = "packet"
                /\ pos' = pos + 4 + size
                /\ size <= PayloadMax /\ Present(pos + 3) /\ ~CopyFails(pos + 3, size)
                /\ length' = size
                /\ payload' = SubSeq(file, pos + 4, pos + 3 + size)
    <3>1. PICK size \in Values(file, pos + 3, "size") :
                /\ lastSize' = size /\ offset' = 0 /\ pc' = "packet"
                /\ pos' = pos + 4 + size
                /\ size <= PayloadMax /\ Present(pos + 3) /\ ~CopyFails(pos + 3, size)
                /\ length' = size
                /\ payload' = SubSeq(file, pos + 4, pos + 3 + size)
      BY <2>5
    <3>2. size \in Int
      BY <1>s
    <3>3. pos + 3 \in 1 .. Len(file) /\ size >= 0 /\ pos + 3 + size <= Len(file)
      BY <1>0, <1>f, <3>1, <3>2 DEF Present, CopyFails
    <3>4. payload' \in Seq(Fields) /\ Len(payload') = size
      BY <1>0, <1>f, <3>1, <3>2, <3>3
    <3>5. Typed'
      BY <1>0, <1>p, <2>1, <3>1, <3>2, <3>3, <3>4 DEF Typed
    <3> QED
      BY <2>1, <3>5
  <2>6. \/ UNCHANGED <<pos, packet, lastSize>> /\ pc' = "undefined"
        \/ \E size \in Values(file, pos + 3, "size") :
              /\ lastSize' = size /\ offset' = 0
              /\ \/ pc' = "undefined" /\ UNCHANGED <<pos, payload, length>>
                 \/ /\ pc' = "packet"
                    /\ pos' = pos + 4 /\ length' = -1 /\ payload' = <<>>
                 \/ /\ pc' = "packet"
                    /\ pos' = pos + 4 + size
                    /\ size <= PayloadMax /\ Present(pos + 3) /\ ~CopyFails(pos + 3, size)
                    /\ length' = size
                    /\ payload' = SubSeq(file, pos + 4, pos + 3 + size)
    <3>1. pos + 3 + 1 = pos + 4 /\ \A size \in Int : pos + 3 + 1 + size = pos + 4 + size
      BY <1>0
    <3> HIDE DEF Ends
    <3> QED
      BY <1>5, <1>s, <3>1 DEF HandleDemoPacket, BehindInfo, ReadBehind
  <2> QED
    BY <2>2, <2>3, <2>4, <2>5, <2>6
<1>6. CASE DumpMessage
  <2>1. UNCHANGED <<recorded, pos, pc, cmd, payload, length>>
    BY <1>6 DEF DumpMessage
  <2>2. PICK c \in CmdsAhead, size \in SizesAhead :
          /\ dumped' = IF c \in Known /\ Inside(size)
                       THEN Append(dumped, [cmd |-> c,
                                data |-> SubSeq(payload, offset + 3, offset + 2 + size)])
                       ELSE dumped
          /\ offset' = NextMessage(c, size)
          /\ lastSize' = size
    BY <1>6 DEF DumpMessage
  <2>3. c \in Int /\ size \in Int
    BY <1>0, AheadAreInt
  <2>4. pc = "packet" /\ offset < length
    BY <1>6 DEF DumpMessage, Round
  <2>5. offset' \in 0 .. PayloadMax
    BY <1>p, <2>2 DEF NextMessage
  <2>6. length = Len(payload) /\ Len(payload) \in Nat
    BY <1>0, <2>4
  <2> DEFINE item == [cmd |-> c, data |-> SubSeq(payload, offset + 3, offset + 2 + size)]
  <2>7. ASSUME Inside(size) PROVE item \in ItemType
    <3>1. size = 0 \/ (size > 0 /\ offset + 2 + size <= Len(payload))
      BY <1>0, <1>p, <2>3, <2>6, <2>7 DEF Inside, BehindHeader
    <3>2. SubSeq(payload, offset + 3, offset + 2 + size) \in Seq(Fields)
      BY <1>0, <2>3, <2>6, <3>1
    <3> QED
      BY <2>3, <3>2 DEF ItemType
  <2>8. dumped' = dumped \/ (dumped' = Append(dumped, item) /\ Inside(size))
    BY <2>2
  <2> HIDE DEF item
  <2>9. dumped' \in Seq(ItemType)
    BY <1>0, <2>7, <2>8
  <2>a. Typed'
    BY <1>0, <2>1, <2>2, <2>3, <2>4, <2>5, <2>9 DEF Typed
  <2> QED
    BY <2>1, <2>8, <2>a
<1>7. CASE FailInMessage \/ FailParsing
  <2>1. UNCHANGED <<recorded, pos, cmd, packet, dumped>> /\ pc' \in {"undefined", "fatal"}
    BY <1>7 DEF FailInMessage, FailParsing
  <2>2. lastSize' \in Int
    BY <1>0, <1>7, AheadAreInt DEF FailInMessage, FailParsing
  <2> QED
    BY <1>0, <2>1, <2>2 DEF Typed, packet
<1>8. CASE UNCHANGED vars
  BY <1>0, <1>8 DEF Typed, vars, recorded
<1> QED
  BY <1>1, <1>2, <1>3, <1>4, <1>5, <1>6, <1>7, <1>8 DEF Next, Ended

LEMMA WhereNext ==
    ASSUME Recorded, UNCHANGED recorded,
           pc' = "command" => InOrder(pos', dumped') \/ Stray(dumped'),
           pc' = "handler" => InFrame(pos', cmd', dumped') \/ AtEnd(cmd', dumped') \/ Stray(dumped'),
           pc' = "packet" => InPacket(pos', payload', length', offset', dumped') \/ Stray(dumped'),
           pc' = "finished" => Complete(dumped'),
           pc' \in Failures => damaged /\ Complete(dumped')
    PROVE  Where'
<1>1. sound' = sound /\ UNCHANGED <<recording, script, damaged, file>>
  BY RecordedStays DEF recorded
<1>2. Complete(dumped') => Complete(dumped)'
  BY <1>1 DEF Complete
<1>3. Stray(dumped') => Stray(dumped)'
  BY <1>1, <1>2 DEF Stray
<1>4. InOrder(pos', dumped') => InOrder(pos, dumped)'
  BY <1>1 DEF InOrder
<1>5. \A i, m : Reads(i, m) => Reads(i, m)'
  BY <1>1 DEF Reads
<1>6. InFrame(pos', cmd', dumped') => InFrame(pos, cmd, dumped)'
  BY <1>1, <1>5 DEF InFrame
<1>7. AtEnd(cmd', dumped') => AtEnd(cmd, dumped)'
  BY <1>1 DEF AtEnd
<1>8. InPacket(pos', payload', length', offset', dumped')
         => InPacket(pos, payload, length, offset, dumped)'
  BY <1>1, <1>5 DEF InPacket
<1> QED
  BY <1>1, <1>2, <1>3, <1>4, <1>6, <1>7, <1>8 DEF Where

LEMMA WhereUnchanged ==
    ASSUME Recorded, Where, UNCHANGED vars
    PROVE  Where'
<1>1. /\ UNCHANGED recorded
      /\ UNCHANGED <<pos, pc, cmd, payload, length, offset, dumped>>
  BY DEF vars, recorded
<1> QED
  BY <1>1, WhereNext DEF Where

LEMMA StrayNext ==
    ASSUME Recorded, UNCHANGED recorded, Stray(dumped')
    PROVE  Where'
<1>1. damaged /\ Complete(dumped')
  BY DEF Stray
<1> QED
  BY <1>1, WhereNext

LEMMA StrayStays ==
    ASSUME Recorded, Typed, [Next]_vars, Stray(dumped)
    PROVE  Where'
<1>1. /\ UNCHANGED recorded
      /\ dumped' = dumped \/ \E item : dumped' = Append(dumped, item)
  BY StepTyped
<1>2. dumped \in Seq(ItemType) /\ script \in Seq(ItemType)
  BY ScriptIs DEF Typed
<1>3. Complete(dumped')
  BY <1>1, <1>2, MoreIsComplete DEF Stray
<1>4. Stray(dumped')
  BY <1>3 DEF Stray
<1> QED
  BY <1>1, <1>4, StrayNext
-----------------------------------------------------------------------------
(* The program reads a command where one starts.                           *)
LEMMA ReadCmdHeaderWhere ==
    ASSUME Recorded, Typed, ReadCmdHeader, InOrder(pos, dumped)
    PROVE  Where'
<1> USE DEF dem_signon, dem_packet, dem_synctick, dem_consolecmd, dem_usercmd, dem_datatables,
            dem_stop, dem_customdata, dem_stringtables, dem_lastcmd
<1> DEFINE r == recording
<1>0. /\ UNCHANGED recorded /\ UNCHANGED <<packet, dumped>>
      /\ pc = "command"
  BY DEF ReadCmdHeader, ReadBehind
<1>1. PICK i \in 0 .. sound : pos = UpTo(r, i) + 1 /\ dumped = ItemsUpTo(r, i)
  BY DEF InOrder
<1>2. /\ sound \in 0 .. Len(r) /\ Len(r) \in Nat /\ sound \in Nat /\ Len(file) \in Nat
      /\ UpTo(r, i) \in Nat /\ UpTo(r, i) <= Len(file) /\ UpTo(r, i) <= UpTo(r, sound)
      /\ UpTo(r, sound) \in Nat
  BY SoundIs
<1>3. r \in Recordings /\ i \in 0 .. Len(r) /\ Len(file) <= Len(Encode(r))
  BY <1>2 DEF Recorded
<1>4. pos <= Len(file) + 1
  BY <1>1, <1>2
<1>5. CASE pos = Len(file) + 1
  <2>1. CmdAt(pos) = {0}
    BY <1>5 DEF CmdAt
  <2>2. cmd' = dem_stop /\ pc' = "handler"
    BY <1>2, <1>5, <2>1, SMTT(30) DEF ReadCmdHeader, ReadBehind
  <2>3. UpTo(r, i) = Len(file)
    BY <1>1, <1>2, <1>5
  <2>4. script = ItemsUpTo(r, i)
    <3>1. CASE sound = Len(r)
      <4>2. i = sound
        <5> SUFFICES ASSUME i # sound PROVE FALSE
          OBVIOUS
        <5>1. PICK m \in 1 .. Len(r) : m = i + 1
          BY <1>2, <1>3
        <5>2. m \in 0 .. sound
          BY <1>2, <5>1
        <5>3. UpTo(r, m) <= Len(file) /\ UpTo(r, m) \in Nat
          BY <5>2, SoundIs
        <5> QED
          BY <1>2, <1>3, <2>3, <5>1, <5>3, FrameGrows
      <4> QED
        BY <3>1, <4>2, ScriptIs
    <3>2. CASE sound # Len(r)
      <4>1. PICK m \in 1 .. Len(r) : m = i + 1
        BY <1>2, <1>3, <3>2
      <4>2. UpTo(r, m) > Len(file)
        BY <1>2, <1>3, <2>3, <4>1, FrameGrows
      <4>3. i = sound
        <5> SUFFICES ASSUME i # sound PROVE FALSE
          OBVIOUS
        <5>1. m \in 0 .. sound
          BY <1>2, <4>1
        <5>2. UpTo(r, m) <= Len(file) /\ UpTo(r, m) \in Nat
          BY <5>1, SoundIs
        <5> QED
          BY <1>2, <4>2, <5>2
      <4>4. UpTo(r, m) \in Nat
        BY <1>3, <4>1, FrameGrows
      <4>5. ~(UpTo(r, m) <= Len(file))
        BY <1>2, <4>2, <4>4
      <4> QED
        BY <4>1, <4>3, <4>5, ScriptIs
    <3> QED
      BY <3>1, <3>2
  <2>5. AtEnd(cmd', dumped')
    BY <1>0, <1>1, <2>2, <2>4 DEF AtEnd
  <2> QED
    BY <1>0, <2>2, <2>5, WhereNext DEF Failures
<1>6. CASE pos # Len(file) + 1
  <2>1. pos \in 1 .. Len(file) /\ UpTo(r, i) < Len(file)
    BY <1>1, <1>2, <1>4, <1>6
  <2>2. i # Len(r)
    <3>1. UpTo(r, Len(r)) = Len(Encode(r)) /\ Len(Encode(r)) \in Nat
      BY <1>2, <1>3, WhereFramesAre
    <3> QED
      BY <1>2, <1>3, <2>1, <3>1
  <2>3. PICK m \in 1 .. Len(r) : m = i + 1
    BY <1>2, <1>3, <2>2
  <2>4. r[m] \in FrameType /\ m \in Nat
    BY <1>2, <1>3, RecordingIs
  <2>5. /\ Len(Frame(r, m)) >= 3 /\ Frame(r, m) \in Seq(Fields)
        /\ Frame(r, m)[1] = Field("cmd", r[m].cmd) /\ Len(Frame(r, m)) \in Nat
    BY <2>4, FrameIs
  <2>6. file[pos] = Field("cmd", r[m].cmd)
    <3>1. Encode(r)[UpTo(r, i) + 1] = Frame(r, m)[1]
      <4>1. 1 \in 1 .. Len(Frame(r, m))
        BY <2>5
      <4> QED
        BY <1>3, <2>3, <4>1, WhereFrameIs
    <3>2. file[pos] = Encode(r)[pos]
      BY <2>1, FileIs
    <3> QED
      BY <1>1, <2>5, <3>1, <3>2
  <2>7. r[m].cmd \in 1 .. dem_lastcmd /\ r[m].cmd \in Nat
    BY <2>4 DEF FrameType
  <2>8. CmdAt(pos) = {r[m].cmd}
    <3>1. pos \in DOMAIN file
      BY <2>1 DEF Recorded
    <3>2. file[pos].kind = "cmd" /\ file[pos].val = r[m].cmd
      BY <2>6 DEF Field
    <3> QED
      BY <1>6, <3>1, <3>2 DEF CmdAt, Values
  <2>9. \/ cmd' = r[m].cmd /\ pos' = pos + 3 /\ pc' = "handler"
        \/ ~Present(pos + 1) /\ pc' = "undefined"
    <3>1. pos \in 1 .. Len(file) + 1
      BY <1>2, <2>1
    <3>2. \A c \in CmdAt(pos) : c # 0 /\ ~(c > dem_lastcmd) /\ c = r[m].cmd
      BY <2>7, <2>8
    <3> QED
      BY <3>1, <3>2 DEF ReadCmdHeader
  <2>10. CASE Reads(i, m)
    <3>1. UpTo(r, m) = UpTo(r, i) + Len(Frame(r, m)) /\ UpTo(r, m) <= Len(file)
      BY <2>10, ReadsIs
    <3>2. Present(pos + 1)
      BY <1>1, <1>2, <2>5, <3>1 DEF Present
    <3>3. cmd' = r[m].cmd /\ pos' = UpTo(r, i) + 4 /\ pc' = "handler" /\ dumped' = ItemsUpTo(r, i)
      BY <1>0, <1>1, <1>2, <2>9, <3>2
    <3>4. InFrame(pos', cmd', dumped')
      BY <1>3, <2>10, <3>3 DEF InFrame
    <3> QED
      BY <1>0, <3>3, <3>4, WhereNext DEF Failures
  <2>11. CASE ~Reads(i, m)
    <3>1. i = sound /\ damaged /\ Complete(ItemsUpTo(r, i))
      BY <2>1, <2>3, <2>11, NotRead
    <3>2. Complete(dumped')
      BY <1>0, <1>1, <3>1
    <3>3. CASE pc' = "handler" /\ pos' = pos + 3
      <4>1. Stray(dumped')
        BY <3>1, <3>2 DEF Stray
      <4> QED
        BY <1>0, <4>1, StrayNext
    <3>4. CASE pc' = "undefined"
      BY <1>0, <3>1, <3>2, <3>4, WhereNext DEF Failures
    <3> QED
      BY <2>9, <3>3, <3>4
  <2> QED
    BY <2>10, <2>11
<1> QED
  BY <1>5, <1>6
-----------------------------------------------------------------------------
(* Where a frame that is read has its block of data.                       *)
LEMMA BlockIs ==
    ASSUME Recorded, NEW i, NEW m, Reads(i, m), Blocked(recording[m]),
           NEW p, p = UpTo(recording, i) + Before(recording[m]) + 1
    PROVE  LET data == BlockData(recording[m], m) IN
           /\ p \in Nat /\ p \in 1 .. Len(file) /\ Len(data) \in Nat
           /\ Values(file, p, "size") = {Len(data)}
           /\ p + Len(data) = UpTo(recording, m)
           /\ p + Len(data) <= Len(file)
           /\ SubSeq(file, p + 1, p + Len(data)) = data
<1> DEFINE r == recording
           data == BlockData(recording[m], m)
           b == Before(recording[m])
           F == Frame(r, m)
<1>1. /\ r[m] \in FrameType /\ m \in Nat
      /\ UpTo(r, i) \in Nat
      /\ UpTo(r, m) = UpTo(r, i) + Len(F)
      /\ UpTo(r, m) <= Len(file) /\ Len(file) \in Nat
      /\ \A k \in 1 .. Len(F) : file[UpTo(r, i) + k] = F[k]
  BY ReadsIs
<1>2. data \in Seq(Fields)
  BY <1>1, BlockDataIs
<1>3. Carries(F, b, data)
  BY <1>1, FrameIs
<1>4. b \in Nat
  BY DEF Before
<1>f. file \in Seq(Fields)
  BY DEF Recorded
<1> HIDE DEF F, data, b
<1>5. /\ Len(F) = b + 1 + Len(data)
      /\ F[b + 1] = Field("size", Len(data))
      /\ \A k \in 1 .. Len(data) : F[b + 1 + k] = data[k]
  BY <1>3 DEF Carries
<1>6. Len(data) \in Nat
  BY <1>2
<1>p. p = UpTo(r, i) + b + 1
  BY DEF b
<1>7. /\ p \in Nat /\ p + Len(data) = UpTo(r, m) /\ p \in 1 .. Len(file)
      /\ p + Len(data) <= Len(file)
  BY <1>1, <1>4, <1>5, <1>6, <1>p
<1>8. Values(file, p, "size") = {Len(data)}
  <2>1. b + 1 \in 1 .. Len(F) /\ p = UpTo(r, i) + (b + 1)
    BY <1>1, <1>4, <1>5, <1>6, <1>p
  <2>2. file[p] = Field("size", Len(data))
    BY <1>1, <1>5, <2>1
  <2>3. p \in DOMAIN file
    BY <1>1, <1>4, <1>7, <1>f, <1>p
  <2> QED
    BY <2>2, <2>3 DEF Values, Field
<1>9. \A k \in 1 .. Len(data) : file[p + k] = data[k]
  <2> TAKE k \in 1 .. Len(data)
  <2>1. b + 1 + k \in 1 .. Len(F) /\ p + k = UpTo(r, i) + (b + 1 + k)
    BY <1>1, <1>4, <1>5, <1>6, <1>p
  <2> QED
    BY <1>1, <1>5, <2>1
<1>a. SubSeq(file, p + 1, p + Len(data)) = data
  BY <1>2, <1>6, <1>7, <1>9, <1>f, CutOut
<1> QED
  BY <1>6, <1>7, <1>8, <1>a DEF data

(* What has been dumped by the end of a frame that was read, given what it *)
(* has to dump.                                                            *)
LEMMA FrameDone ==
    ASSUME Recorded, NEW i, NEW m, Reads(i, m), UNCHANGED recorded, pc' = "command",
           pos' = UpTo(recording, m) + 1,
           dumped' = ItemsUpTo(recording, i) \o Items(recording[m], m)
    PROVE  Where'
<1>1. dumped' = ItemsUpTo(recording, m)
  BY ReadsIs
<1>2. InOrder(pos', dumped') \/ Stray(dumped')
  BY <1>1, EndOfFrame
<1> QED
  BY <1>2, WhereNext DEF Failures

LEMMA NothingMore ==
    ASSUME Recorded, NEW i, NEW m, Reads(i, m), Items(recording[m], m) = <<>>
    PROVE  ItemsUpTo(recording, i) = ItemsUpTo(recording, i) \o Items(recording[m], m)
<1>1. ItemsUpTo(recording, i) \in Seq(ItemType)
  BY ReadsIs
<1> QED
  BY <1>1

LEMMA HandleNothingWhere ==
    ASSUME Recorded, Typed, HandleNothing, InFrame(pos, cmd, dumped)
    PROVE  Where'
<1> USE DEF dem_signon, dem_packet, dem_synctick, dem_consolecmd, dem_usercmd, dem_datatables,
            dem_stop, dem_customdata, dem_stringtables, Packets, Tables
<1>1. PICK i \in 0 .. Len(recording), m \in 1 .. Len(recording) :
        /\ Reads(i, m)
        /\ pos = UpTo(recording, i) + 4
        /\ cmd = recording[m].cmd
        /\ dumped = ItemsUpTo(recording, i)
  BY DEF InFrame
<1>2. /\ UNCHANGED recorded /\ UNCHANGED <<pos, dumped>> /\ pc' = "command"
      /\ cmd \in {dem_synctick, dem_customdata}
  BY DEF HandleNothing, Handling
<1>3. cmd = dem_synctick
  BY <1>1, <1>2 DEF Reads, Refused
<1>4. /\ UpTo(recording, m) = UpTo(recording, i) + Len(Frame(recording, m))
      /\ recording[m] \in FrameType /\ m \in Nat /\ UpTo(recording, i) \in Nat
  BY <1>1, ReadsIs
<1>5. Len(Frame(recording, m)) = 3
  BY <1>1, <1>3, <1>4, FrameIs DEF Blocked
<1>6. Items(recording[m], m) = <<>>
  BY <1>1, <1>3 DEF Items
<1>7. pos' = UpTo(recording, m) + 1
  BY <1>1, <1>2, <1>4, <1>5
<1>8. dumped' = ItemsUpTo(recording, i) \o Items(recording[m], m)
  BY <1>1, <1>2, <1>6, NothingMore
<1> QED
  BY <1>1, <1>2, <1>7, <1>8, FrameDone

LEMMA HandleStopWhere ==
    ASSUME Recorded, Typed, HandleStop, InFrame(pos, cmd, dumped) \/ AtEnd(cmd, dumped)
    PROVE  Where'
<1>1. /\ UNCHANGED recorded /\ UNCHANGED <<pos, dumped>> /\ pc' = "finished" /\ cmd = dem_stop
  BY DEF HandleStop, Handling
<1>2. script \in Seq(ItemType)
  BY ScriptIs
<1>3. dumped = script
  <2>1. CASE AtEnd(cmd, dumped)
    BY <2>1 DEF AtEnd
  <2>2. CASE InFrame(pos, cmd, dumped)
    <3>1. PICK i \in 0 .. Len(recording), m \in 1 .. Len(recording) :
            /\ Reads(i, m)
            /\ cmd = recording[m].cmd
            /\ dumped = ItemsUpTo(recording, i)
      BY <2>2 DEF InFrame
    <3>2. m = Len(recording)
      <4>1. recording \in Recordings /\ m \in DOMAIN recording
        BY RecordingIs DEF Recorded
      <4> QED
        BY <1>1, <3>1, <4>1, RecordingsAssumption
    <3>3. Items(recording[m], m) = <<>>
      BY <1>1, <3>1 DEF Items, dem_signon, dem_packet, dem_datatables, dem_stop, dem_stringtables,
                        Packets, Tables
    <3>4. dumped = ItemsUpTo(recording, m)
      <4>1. ItemsUpTo(recording, m) = ItemsUpTo(recording, i) \o Items(recording[m], m)
        BY <3>1, ReadsIs
      <4>2. ItemsUpTo(recording, i) = ItemsUpTo(recording, i) \o Items(recording[m], m)
        BY <3>1, <3>3, NothingMore
      <4> QED
        BY <3>1, <4>1, <4>2
    <3>5. m \in 0 .. sound \/ script = ItemsUpTo(recording, m)
      BY <3>1, ReadsLast
    <3>6. CASE m \in 0 .. sound
      <4>1. sound = Len(recording)
        BY <3>2, <3>6, SoundIs
      <4> QED
        BY <3>2, <3>4, <4>1, ScriptIs
    <3> QED
      BY <3>4, <3>5, <3>6
  <2> QED
    BY <2>1, <2>2
<1>4. Complete(dumped')
  BY <1>1, <1>2, <1>3, SelfStarts DEF Complete
<1> QED
  BY <1>1, <1>4, WhereNext DEF Failures

LEMMA SkipWhere ==
    ASSUME Recorded, NEW i, NEW m, Reads(i, m), Blocked(recording[m]),
           Items(recording[m], m) = <<>>, dumped = ItemsUpTo(recording, i),
           NEW p, p = UpTo(recording, i) + Before(recording[m]) + 1, SkipRawData(p)
    PROVE  Where'
<1> DEFINE data == BlockData(recording[m], m)
<1> HIDE DEF data
<1>1. /\ p \in Nat /\ p \in 1 .. Len(file) /\ Len(data) \in Nat
      /\ Values(file, p, "size") = {Len(data)}
      /\ p + Len(data) = UpTo(recording, m)
  BY BlockIs DEF data
<1>2. /\ \E size \in Values(file, p, "size") : pos' = Skip(p, size)
      /\ pc' = "command"
      /\ UNCHANGED recorded /\ UNCHANGED dumped
  BY <1>1 DEF SkipRawData, ReadBehind, Present
<1>3. pos' = p + 1 + Len(data)
  BY <1>1, <1>2 DEF Skip
<1>4. pos' = UpTo(recording, m) + 1
  BY <1>1, <1>3
<1>5. dumped' = ItemsUpTo(recording, i) \o Items(recording[m], m)
  BY <1>2, NothingMore
<1> QED
  BY <1>2, <1>4, <1>5, FrameDone

LEMMA HandleSkippedWhere ==
    ASSUME Recorded, Typed, HandleConsoleCmd \/ HandleUserCmd, InFrame(pos, cmd, dumped)
    PROVE  Where'
<1> USE DEF dem_signon, dem_packet, dem_synctick, dem_consolecmd, dem_usercmd, dem_datatables,
            dem_stop, dem_customdata, dem_stringtables, Packets, Tables
<1>1. PICK i \in 0 .. Len(recording), m \in 1 .. Len(recording) :
        /\ Reads(i, m)
        /\ pos = UpTo(recording, i) + 4
        /\ cmd = recording[m].cmd
        /\ dumped = ItemsUpTo(recording, i)
  BY DEF InFrame
<1>2. UpTo(recording, i) \in Nat
  BY <1>1, ReadsIs
<1>3. CASE HandleConsoleCmd
  <2>1. cmd = dem_consolecmd /\ SkipRawData(pos)
    BY <1>3 DEF HandleConsoleCmd, Handling
  <2>2. Blocked(recording[m]) /\ Items(recording[m], m) = <<>> /\ Before(recording[m]) = 3
    BY <1>1, <2>1 DEF Blocked, Items, Before
  <2>3. pos = UpTo(recording, i) + Before(recording[m]) + 1
    BY <1>1, <1>2, <2>2
  <2> QED
    BY <1>1, <2>1, <2>2, <2>3, SkipWhere
<1>4. CASE HandleUserCmd
  <2>1. cmd = dem_usercmd /\ SkipRawData(pos + 1)
    BY <1>4 DEF HandleUserCmd, Handling
  <2>2. Blocked(recording[m]) /\ Items(recording[m], m) = <<>> /\ Before(recording[m]) = 4
    BY <1>1, <2>1 DEF Blocked, Items, Before
  <2>3. pos + 1 = UpTo(recording, i) + Before(recording[m]) + 1
    BY <1>1, <1>2, <2>2
  <2>4. PICK p : p = pos + 1
    OBVIOUS
  <2>5. SkipRawData(p) /\ p = UpTo(recording, i) + Before(recording[m]) + 1
    BY <2>1, <2>3, <2>4
  <2> QED
    BY <1>1, <2>2, <2>5, SkipWhere
<1> QED
  BY <1>3, <1>4

LEMMA HandleTablesWhere ==
    ASSUME Recorded, Typed, HandleTables, InFrame(pos, cmd, dumped)
    PROVE  Where'
<1> USE DEF dem_signon, dem_packet, dem_synctick, dem_consolecmd, dem_usercmd, dem_datatables,
            dem_stop, dem_customdata, dem_stringtables, Packets, Tables
<1>1. PICK i \in 0 .. Len(recording), m \in 1 .. Len(recording) :
        /\ Reads(i, m)
        /\ pos = UpTo(recording, i) + 4
        /\ cmd = recording[m].cmd
        /\ dumped = ItemsUpTo(recording, i)
  BY DEF InFrame
<1> DEFINE f == recording[m]
           data == BlockData(f, m)
           item == [cmd |-> f.cmd, data |-> data]
<1>2. cmd \in Tables
  BY DEF HandleTables, Handling
<1>3. /\ UpTo(recording, i) \in Nat /\ f \in FrameType /\ m \in Nat
      /\ ItemsUpTo(recording, i) \in Seq(ItemType)
  BY <1>1, ReadsIs
<1>4. Blocked(f) /\ Before(f) = 3 /\ f.cmd \notin Packets /\ f.size <= BufferMax
  <2>1. Blocked(f) /\ Before(f) = 3 /\ f.cmd \notin Packets
    BY <1>1, <1>2 DEF Blocked, Before
  <2>2. ~(f.size > BufferMax)
    BY <1>1, <1>2 DEF Reads, Refused
  <2>3. f.size \in Nat
    BY <1>3, BlockDataIs
  <2>4. BufferMax \in Nat
    BY CapacityAssumption
  <2> QED
    BY <2>1, <2>2, <2>3, <2>4
<1>5. Len(data) = f.size
  BY <1>3, <1>4, BlockDataIs
<1>6. data = Data(m, 0, f.size) /\ Items(f, m) = <<item>>
  BY <1>1, <1>2, <1>4 DEF Items, BlockData
<1>7. pos = UpTo(recording, i) + Before(recording[m]) + 1
  BY <1>1, <1>3, <1>4
<1> HIDE DEF data
<1>8. /\ pos \in Nat /\ pos \in 1 .. Len(file) /\ Len(data) \in Nat
      /\ Values(file, pos, "size") = {Len(data)}
      /\ pos + Len(data) = UpTo(recording, m)
      /\ pos + Len(data) <= Len(file)
      /\ SubSeq(file, pos + 1, pos + Len(data)) = data
  BY <1>1, <1>4, <1>7, BlockIs DEF data
<1>9. ~(Len(data) > BufferMax) /\ Len(data) <= BufferMax /\ ~CopyFails(pos, Len(data))
  <2>1. Len(file) \in Nat
    BY SoundIs
  <2> QED
    BY <1>4, <1>5, <1>8, <2>1, CapacityAssumption, SMTT(30) DEF CopyFails
<1>10. /\ dumped' = Append(dumped,
                        [cmd |-> cmd, data |-> SubSeq(file, pos + 1, pos + Len(data))])
       /\ pos' = pos + 1 + Len(data)
       /\ pc' = "command"
       /\ UNCHANGED recorded
  BY <1>8, <1>9 DEF HandleTables, ReadBehind, Present
<1>11. dumped' = Append(dumped, item)
  BY <1>1, <1>8, <1>10
<1> HIDE DEF item
<1>12. dumped' = ItemsUpTo(recording, i) \o Items(recording[m], m)
  <2>1. Append(dumped, item) = dumped \o <<item>>
    BY <1>1, <1>3, AppendIsJoin
  <2> QED
    BY <1>1, <1>6, <1>11, <2>1
<1>13. pos' = UpTo(recording, m) + 1
  BY <1>8, <1>10
<1> QED
  BY <1>1, <1>10, <1>12, <1>13, FrameDone

LEMMA HandleDemoPacketWhere ==
    ASSUME Recorded, Typed, HandleDemoPacket, InFrame(pos, cmd, dumped)
    PROVE  Where'
<1> USE DEF dem_signon, dem_packet, dem_synctick, dem_consolecmd, dem_usercmd, dem_datatables,
            dem_stop, dem_customdata, dem_stringtables, Packets, Tables
<1>1. PICK i \in 0 .. Len(recording), m \in 1 .. Len(recording) :
        /\ Reads(i, m)
        /\ pos = UpTo(recording, i) + 4
        /\ cmd = recording[m].cmd
        /\ dumped = ItemsUpTo(recording, i)
  BY DEF InFrame
<1> DEFINE f == recording[m]
           data == Messages(f, m)
<1>2. cmd \in Packets
  BY DEF HandleDemoPacket, Handling
<1>3. /\ UpTo(recording, i) \in Nat /\ f \in FrameType /\ m \in Nat
      /\ ItemsUpTo(recording, i) \in Seq(ItemType)
  BY <1>1, ReadsIs
<1>4. Blocked(f) /\ Before(f) = 6 /\ BlockData(f, m) = data
  BY <1>1, <1>2 DEF Blocked, Before, BlockData
<1>5. PICK p : p = pos + 3
  OBVIOUS
<1>6. p = UpTo(recording, i) + Before(f) + 1
  BY <1>1, <1>3, <1>4, <1>5
<1>7. /\ p \in Nat /\ p \in 1 .. Len(file) /\ Len(data) \in Nat
      /\ Values(file, p, "size") = {Len(data)}
      /\ p + Len(data) = UpTo(recording, m)
      /\ p + Len(data) <= Len(file)
      /\ SubSeq(file, p + 1, p + Len(data)) = data
  <2>1. /\ p \in Nat /\ p \in 1 .. Len(file) /\ Len(BlockData(f, m)) \in Nat
        /\ Values(file, p, "size") = {Len(BlockData(f, m))}
        /\ p + Len(BlockData(f, m)) = UpTo(recording, m)
        /\ p + Len(BlockData(f, m)) <= Len(file)
        /\ SubSeq(file, p + 1, p + Len(BlockData(f, m))) = BlockData(f, m)
    BY <1>1, <1>4, <1>6, BlockIs
  <2> QED
    BY <1>4, <2>1
<1>8. ~(Len(data) > PayloadMax) /\ Len(data) <= PayloadMax
  <2>1. ~(Len(Messages(f, 1)) > PayloadMax)
    BY <1>1, <1>2 DEF Reads, Refused
  <2>2. Len(data) = Len(Messages(f, 1))
    BY <1>3, MessagesAsLong
  <2>3. PayloadMax \in Nat
    BY CapacityAssumption
  <2> QED
    BY <1>7, <2>1, <2>2, <2>3
<1>9. ~CopyFails(p, Len(data))
  <2>1. Len(file) \in Nat
    BY SoundIs
  <2> QED
    BY <1>7, <2>1 DEF CopyFails
<1> HIDE DEF data
<1>10. /\ length' = Len(data)
       /\ payload' = SubSeq(file, p + 1, p + Len(data))
       /\ pos' = p + 1 + Len(data)
       /\ pc' = "packet"
       /\ offset' = 0
       /\ UNCHANGED recorded /\ UNCHANGED dumped
  BY <1>5, <1>7, <1>8, <1>9 DEF HandleDemoPacket, BehindInfo, ReadBehind, Present
<1>11. pos' = UpTo(recording, m) + 1
  BY <1>7, <1>10
<1>12. payload' = data /\ length' = Len(payload')
  BY <1>7, <1>10
<1>13. /\ 0 \in 0 .. Good(f) /\ MessagesUpTo(f, m, 0) = 0 /\ DueUpTo(f, m, 0) = <<>>
  <2>1. Good(f) \in 0 .. Len(f.msgs) /\ Len(f.msgs) \in Nat
    BY <1>3, GoodIs
  <2>2. MessagesUpTo(f, m, 0) = 0
    BY <1>3, WhereMessagesAre
  <2>3. DueUpTo(f, m, 0) = <<>>
    BY <1>3, WhatIsDueInPacket
  <2> QED
    BY <2>1, <2>2, <2>3
<1>14. dumped' = ItemsUpTo(recording, i) \o DueUpTo(f, m, 0)
  <2>1. dumped' = ItemsUpTo(recording, i)
    BY <1>1, <1>10
  <2>2. ItemsUpTo(recording, i) = ItemsUpTo(recording, i) \o <<>>
    BY <1>3
  <2> QED
    BY <1>13, <2>1, <2>2
<1>15. InPacket(pos', payload', length', offset', dumped')
  BY <1>1, <1>2, <1>10, <1>11, <1>12, <1>13, <1>14 DEF InPacket, data
<1> QED
  BY <1>10, <1>15, WhereNext DEF Failures
-----------------------------------------------------------------------------
(* The message behind the j-th of a packet, and what the program takes it  *)
(* for.                                                                    *)
LEMMA MessageAhead ==
    ASSUME NEW f \in FrameType, NEW m \in Nat, NEW j \in 0 .. Len(f.msgs),
           NEW l \in 1 .. Len(f.msgs), l = j + 1,
           payload = Messages(f, m), offset = MessagesUpTo(f, m, j),
           Len(payload) <= PayloadMax
    PROVE  /\ offset \in Nat /\ f.msgs[l].len \in Nat /\ f.msgs[l].size \in Int
           /\ Len(payload) \in Nat /\ BehindHeader = offset + 2
           /\ CmdsAhead = {f.msgs[l].cmd} /\ SizesAhead = {f.msgs[l].size}
           /\ MessagesUpTo(f, m, l) = offset + 2 + f.msgs[l].len
           /\ offset + 2 + f.msgs[l].len <= Len(payload)
           /\ SubSeq(payload, offset + 3, offset + 2 + f.msgs[l].len)
                 = Data(m, l, f.msgs[l].len)
<1> DEFINE c == f.msgs[l].cmd
           size == f.msgs[l].size
           len == f.msgs[l].len
           data == Data(m, l, len)
<1>1. c \in Nat /\ size \in Int /\ len \in Nat
  BY MessageIs
<1>2. /\ payload \in Seq(Fields) /\ Len(f.msgs) \in Nat /\ offset \in Nat
  BY WhereMessagesAre
<1>3. l \in Nat
  BY <1>2
<1>4. data \in Seq(Fields) /\ Len(data) = len
  BY <1>1, <1>3, DataIsFields, ZenonT(30)
<1>5. /\ MessagesUpTo(f, m, l) = offset + 2 + len
      /\ MessagesUpTo(f, m, l) <= Len(payload)
      /\ payload[offset + 1] = Field("mcmd", c)
      /\ payload[offset + 2] = Field("msize", size)
      /\ \A k \in 1 .. len : payload[offset + 2 + k] = data[k]
  BY WhereMessageIs
<1> HIDE DEF c, size, len, data
<1>6. Len(payload) \in Nat /\ DOMAIN payload = 1 .. Len(payload)
  BY <1>2
<1>7. offset + 1 \in DOMAIN payload /\ offset + 2 \in DOMAIN payload
  BY <1>1, <1>2, <1>5, <1>6, SMTT(30)
<1>a. ~(offset + 2 > PayloadMax)
  BY <1>1, <1>2, <1>5, <1>6, CapacityAssumption
<1>8. CmdsAhead = {c} /\ SizesAhead = {size} /\ BehindHeader = offset + 2
  BY <1>5, <1>7, <1>a DEF CmdsAhead, SizesAhead, BehindHeader, Values, Field
<1>9. SubSeq(payload, offset + 3, offset + 2 + len) = data
  <2>1. PICK p \in Nat : p = offset + 2
    BY <1>2
  <2>2. \A k \in 1 .. Len(data) : payload[p + k] = data[k]
    BY <1>4, <1>5, <2>1
  <2>3. p + Len(data) <= Len(payload)
    BY <1>4, <1>5, <2>1
  <2>4. SubSeq(payload, p + 1, p + Len(data)) = data
    BY <1>2, <1>4, <2>2, <2>3, CutOut
  <2>5. p + 1 = offset + 3
    BY <1>2, <2>1
  <2> QED
    BY <1>4, <2>1, <2>4, <2>5
<1> QED
  BY <1>1, <1>2, <1>5, <1>6, <1>8, <1>9 DEF c, size, len, data

(* A message that is not misstated has the size it claims.                 *)
LEMMA SizeIsLen ==
    ASSUME NEW r \in Recordings, NEW m \in 1 .. Len(r), NEW l \in 1 .. Len(r[m].msgs),
           l \notin Misstated(r[m])
    PROVE  r[m].msgs[l].size = r[m].msgs[l].len
<1>1. r[m] \in FrameType
  BY RecordingIs
<1>2. r[m].msgs \in Seq(MessageType)
  BY <1>1 DEF FrameType
<1>3. l \in DOMAIN r[m].msgs
  BY <1>2
<1> QED
  BY <1>3 DEF Misstated

(* A number that an int can hold stays what it is.                         *)
LEMMA NotWrapped ==
    ASSUME NEW limit \in Nat, NEW n \in Nat, n < limit
    PROVE  Wrapped(n, limit) = n
<1>1. (n + limit) % (2 * limit) = n + limit
  <2>1. PICK a \in Nat : a = n + limit
    OBVIOUS
  <2>2. PICK b \in Nat \ {0} : b = 2 * limit
    OBVIOUS
  <2>3. a < b
    BY <2>1, <2>2
  <2>4. a % b = a
    BY <2>3
  <2> QED
    BY <2>1, <2>2, <2>4
<1> QED
  BY <1>1 DEF Wrapped

(* At a misstated message, all that was due is dumped.                     *)
LEMMA AtMisstated ==
    ASSUME Recorded, NEW i, NEW m, Reads(i, m), recording[m].cmd \in Packets,
           Good(recording[m]) # Len(recording[m].msgs),
           dumped = ItemsUpTo(recording, i) \o DueUpTo(recording[m], m, Good(recording[m]))
    PROVE  Stray(dumped)
<1> DEFINE f == recording[m]
<1>1. /\ f \in FrameType /\ m \in Nat /\ recording \in Recordings
      /\ i \in 0 .. Len(recording) /\ m \in 1 .. Len(recording) /\ m = i + 1
      /\ UpTo(recording, m) <= Len(file)
      /\ ItemsUpTo(recording, m) = ItemsUpTo(recording, i) \o Items(f, m)
  BY ReadsIs
<1>2. Misstated(f) # {}
  BY <1>1, GoodIs
<1>3. /\ i = sound /\ damaged /\ script = ItemsUpTo(recording, m)
      /\ ItemsUpTo(recording, m) \in Seq(ItemType)
  BY <1>2, ReadsLast
<1>4. dumped = script
  <2>1. DueUpTo(f, m, Good(f)) = MessageItems(f, m)
    BY <1>1, WhatIsDueInPacket
  <2>2. Items(f, m) = MessageItems(f, m)
    BY DEF Items, Packets, Tables, dem_signon, dem_packet,
           dem_datatables, dem_stringtables
  <2> QED
    BY <1>1, <1>3, <2>1, <2>2
<1>5. Complete(dumped)
  BY <1>3, <1>4, SelfStarts DEF Complete
<1> QED
  BY <1>3, <1>5 DEF Stray

LEMMA EndPacketWhere ==
    ASSUME Recorded, Typed, EndPacket, InPacket(pos, payload, length, offset, dumped)
    PROVE  Where'
<1>1. PICK i \in 0 .. Len(recording), m \in 1 .. Len(recording) :
        /\ Reads(i, m)
        /\ recording[m].cmd \in Packets
        /\ pos = UpTo(recording, m) + 1
        /\ payload = Messages(recording[m], m)
        /\ length = Len(payload)
        /\ \E j \in 0 .. Good(recording[m]) :
              /\ offset = MessagesUpTo(recording[m], m, j)
              /\ dumped = ItemsUpTo(recording, i) \o DueUpTo(recording[m], m, j)
  BY DEF InPacket
<1> DEFINE f == recording[m]
           L == Len(f.msgs)
<1>2. PICK j \in 0 .. Good(f) :
        /\ offset = MessagesUpTo(f, m, j)
        /\ dumped = ItemsUpTo(recording, i) \o DueUpTo(f, m, j)
  BY <1>1
<1>3. f \in FrameType /\ m \in Nat
  BY <1>1, ReadsIs
<1>4. Good(f) \in 0 .. L /\ L \in Nat
  BY <1>3, GoodIs
<1>5. j = L
  <2> SUFFICES ASSUME j # L PROVE FALSE
    OBVIOUS
  <2>1. PICK l \in 1 .. L : l = j + 1
    BY <1>4
  <2>2. j \in 0 .. L
    BY <1>4
  <2>0. Len(payload) <= PayloadMax
    BY <1>1 DEF Typed
  <2>3. /\ offset \in Nat /\ f.msgs[l].len \in Nat /\ Len(payload) \in Nat
        /\ offset + 2 + f.msgs[l].len <= Len(payload)
    BY <1>1, <1>2, <1>3, <2>0, <2>1, <2>2, MessageAhead
  <2>4. offset >= length
    BY DEF EndPacket
  <2> QED
    BY <1>1, <2>3, <2>4, SMTT(30)
<1>6. j = Good(f)
  BY <1>4, <1>5
<1>7. DueUpTo(f, m, j) = Items(f, m)
  <2>1. DueUpTo(f, m, Good(f)) = MessageItems(f, m)
    BY <1>3, WhatIsDueInPacket
  <2> QED
    BY <1>1, <1>6, <2>1 DEF Items, Packets, Tables, dem_signon, dem_packet,
                            dem_datatables, dem_stringtables
<1>8. UNCHANGED recorded /\ UNCHANGED <<pos, dumped>> /\ pc' = "command"
  BY DEF EndPacket
<1> QED
  BY <1>1, <1>2, <1>7, <1>8, FrameDone

LEMMA ItemsAssociate ==
    \A q, s, t \in Seq(ItemType) : (q \o s) \o t = q \o (s \o t)
  BY JoinAssociates

LEMMA RoundWhere ==
    ASSUME Recorded, Typed, DumpMessage \/ FailInMessage \/ FailParsing,
           InPacket(pos, payload, length, offset, dumped)
    PROVE  Where'
<1>1. PICK i \in 0 .. Len(recording), m \in 1 .. Len(recording) :
        /\ Reads(i, m)
        /\ recording[m].cmd \in Packets
        /\ pos = UpTo(recording, m) + 1
        /\ payload = Messages(recording[m], m)
        /\ length = Len(payload)
        /\ \E j \in 0 .. Good(recording[m]) :
              /\ offset = MessagesUpTo(recording[m], m, j)
              /\ dumped = ItemsUpTo(recording, i) \o DueUpTo(recording[m], m, j)
  BY DEF InPacket
<1> DEFINE f == recording[m]
           L == Len(f.msgs)
<1>2. PICK j \in 0 .. Good(f) :
        /\ offset = MessagesUpTo(f, m, j)
        /\ dumped = ItemsUpTo(recording, i) \o DueUpTo(f, m, j)
  BY <1>1
<1>3. f \in FrameType /\ m \in Nat /\ recording \in Recordings
  BY <1>1, ReadsIs
<1>4. Good(f) \in 0 .. L /\ L \in Nat /\ \A k \in 1 .. Good(f) : k \notin Misstated(f)
  BY <1>3, GoodIs
<1>5. Round
  BY DEF DumpMessage, FailInMessage, FailParsing
<1>6. j # L
  <2>1. MessagesUpTo(f, m, L) = Len(payload) /\ Len(payload) \in Nat
    <3>1. MessagesUpTo(f, m, L) = Len(Messages(f, m))
      BY <1>3, WhereMessagesAre
    <3>2. Messages(f, m) \in Seq(Fields)
      BY <1>3, WhereMessagesAre
    <3>3. Len(Messages(f, m)) \in Nat
      BY <3>2
    <3> QED
      BY <1>1, <3>1, <3>3
  <2> QED
    BY <1>1, <1>2, <1>5, <2>1 DEF Round
<1>7. CASE j = Good(f)
  <2>1. Stray(dumped)
    BY <1>1, <1>2, <1>6, <1>7, AtMisstated
  <2>2. [Next]_vars
    BY DEF Next
  <2> QED
    BY <2>1, <2>2, StrayStays
<1>8. CASE j # Good(f)
  <2>1. PICK l \in 1 .. Good(f) : l = j + 1
    BY <1>4, <1>8
  <2>2. l \in 1 .. L /\ j \in 0 .. L /\ l \in 0 .. Good(f)
    BY <1>4, <2>1
  <2> DEFINE c == f.msgs[l].cmd
             len == f.msgs[l].len
  <2>0. length = Len(payload) /\ Len(payload) <= PayloadMax
    BY <1>1 DEF Typed
  <2>3. /\ offset \in Nat /\ len \in Nat /\ Len(payload) \in Nat
        /\ CmdsAhead = {c} /\ SizesAhead = {f.msgs[l].size} /\ BehindHeader = offset + 2
        /\ MessagesUpTo(f, m, l) = offset + 2 + len
        /\ offset + 2 + len <= Len(payload)
        /\ SubSeq(payload, offset + 3, offset + 2 + len) = Data(m, l, len)
    BY <1>1, <1>2, <1>3, <2>0, <2>1, <2>2, MessageAhead, ZenonT(30)
  <2>4. SizesAhead = {len}
    BY <1>3, <1>4, <2>2, <2>3, SizeIsLen
  <2> HIDE DEF len
  <2>b. PICK next \in Nat : next = offset + 2 + len
    BY <2>3
  <2>c. /\ BehindHeader + len = next /\ next <= length /\ next <= PayloadMax
        /\ PayloadMax \in Nat /\ SeekLimit \in Nat /\ IntLimit \in Nat
        /\ len < SeekLimit /\ next < IntLimit
    BY <2>0, <2>3, <2>b, CapacityAssumption DEF IntLimit
  <2>5. ~Overruns(len) /\ Inside(len) /\ NextMessage(c, len) = next
    <3>1. Wrapped(next, IntLimit) = next /\ Wrapped(len, SeekLimit) = len
      BY <2>3, <2>c, NotWrapped
    <3>2. ~Overruns(len)
      <4>1. Wrapped(BehindHeader + len, IntLimit) = next
        BY <2>c, <3>1, Zenon
      <4>2. ~(next > length)
        BY <2>0, <2>3, <2>c
      <4> QED
        BY <4>1, <4>2, Zenon DEF Overruns
    <3>3. Inside(len)
      BY <2>3, <2>c DEF Inside
    <3>4. NextMessage(c, len) = next
      BY <2>c, <3>1 DEF NextMessage
    <3> QED
      BY <3>2, <3>3, <3>4
  <2>6. DumpMessage
    BY <2>4, <2>5 DEF FailParsing, FailInMessage
  <2>7. /\ dumped' = IF c \in Known
                     THEN Append(dumped, [cmd |-> c, data |-> Data(m, l, len)])
                     ELSE dumped
        /\ offset' = MessagesUpTo(f, m, l)
        /\ UNCHANGED recorded /\ UNCHANGED <<pos, payload, length>>
        /\ pc' = "packet"
    BY <1>5, <2>3, <2>4, <2>5, <2>6, <2>b DEF DumpMessage, Round
  <2>8. /\ ItemsUpTo(recording, i) \in Seq(ItemType)
        /\ DueUpTo(f, m, j) \in Seq(ItemType)
        /\ DueUpTo(f, m, l) = DueUpTo(f, m, j) \o MessageItem(f, m, l)
        /\ MessageItem(f, m, l) \in Seq(ItemType)
    <3>1. ItemsUpTo(recording, i) \in Seq(ItemType)
      BY <1>1, ReadsIs
    <3>2. DueUpTo(f, m, j) \in Seq(ItemType)
      BY <1>3, WhatIsDueInPacket
    <3>3. DueUpTo(f, m, l) = DueUpTo(f, m, j) \o MessageItem(f, m, l)
      BY <1>3, <2>1, WhatIsDueInPacket
    <3>4. MessageItem(f, m, l) \in Seq(ItemType)
      BY <1>3, <2>2, MessageItemIs
    <3> QED
      BY <3>1, <3>2, <3>3, <3>4
  <2>9. dumped \in Seq(ItemType)
    BY DEF Typed
  <2>10. dumped' = dumped \o MessageItem(f, m, l)
    <3>1. CASE c \in Known
      <4> DEFINE item == [cmd |-> c, data |-> Data(m, l, len)]
      <4>1. MessageItem(f, m, l) = <<item>>
        BY <3>1 DEF MessageItem, len
      <4>2. dumped' = Append(dumped, item)
        BY <2>7, <3>1
      <4> HIDE DEF item
      <4> QED
        BY <2>9, <4>1, <4>2, AppendIsJoin
    <3>2. CASE c \notin Known
      <4>1. MessageItem(f, m, l) = <<>>
        BY <3>2 DEF MessageItem
      <4> QED
        BY <2>7, <2>9, <3>2, <4>1
    <3> QED
      BY <3>1, <3>2
  <2>11. dumped' = ItemsUpTo(recording, i) \o DueUpTo(f, m, l)
    <3> DEFINE before == ItemsUpTo(recording, i)
               here == DueUpTo(f, m, j)
               item == MessageItem(f, m, l)
    <3>1. /\ before \in Seq(ItemType) /\ here \in Seq(ItemType) /\ item \in Seq(ItemType)
          /\ dumped' = (before \o here) \o item
          /\ DueUpTo(f, m, l) = here \o item
      BY <1>2, <2>8, <2>10
    <3> HIDE DEF before, here, item
    <3>2. (before \o here) \o item = before \o (here \o item)
      BY <3>1, ItemsAssociate
    <3> QED
      BY <3>1, <3>2 DEF before
  <2>12. InPacket(pos', payload', length', offset', dumped')
    BY <1>1, <2>2, <2>7, <2>11 DEF InPacket
  <2> QED
    BY <2>7, <2>12, WhereNext DEF Failures
<1> QED
  BY <1>7, <1>8
-----------------------------------------------------------------------------
LEMMA InvInit ==
    ASSUME Init
    PROVE  Inv
<1>1. PICK r \in Recordings, cut \in 0 .. MaxCut :
        /\ cut < Len(Encode(r))
        /\ Record(r, Len(Encode(r)) - cut)
  BY DEF Init
<1>2. PICK kept : kept = Len(Encode(r)) - cut
  OBVIOUS
<1>3. Encode(r) \in Seq(Fields)
  BY WhereFramesAre
<1>4. kept \in Nat /\ kept <= Len(Encode(r))
  BY <1>1, <1>2, <1>3, MaxCutAssumption
<1>5. recording = r /\ file = SubSeq(Encode(r), 1, kept) /\ Record(r, kept)
  BY <1>1, <1>2 DEF Record
<1>6. Len(file) = kept /\ file \in Seq(Fields)
  BY <1>3, <1>4, <1>5
<1>7. Recorded
  BY <1>4, <1>5, <1>6 DEF Recorded
<1>8. Typed
  <2>1. <<>> \in Seq(Fields) /\ <<>> \in Seq(ItemType)
    OBVIOUS
  <2> QED
    BY <2>1, CapacityAssumption DEF Init, Typed, dem_stop, dem_lastcmd, dem_stringtables
<1>9. InOrder(pos, dumped)
  <2>1. UpTo(recording, 0) = 0 /\ ItemsUpTo(recording, 0) = <<>>
    BY <1>5, WhereFramesAre, WhatIsDue
  <2>2. 0 \in 0 .. sound
    BY <1>7, SoundIs
  <2>3. pos = 1 /\ dumped = <<>>
    BY DEF Init
  <2> QED
    BY <2>1, <2>2, <2>3 DEF InOrder
<1>10. Where
  BY <1>9 DEF Init, Where, Failures
<1> QED
  BY <1>7, <1>8, <1>10 DEF Inv

LEMMA WhereStep ==
    ASSUME Recorded, Typed, Where, Next
    PROVE  Where'
<1> USE DEF dem_signon, dem_packet, dem_synctick, dem_consolecmd, dem_usercmd, dem_datatables,
            dem_stop, dem_customdata, dem_stringtables, Packets, Tables
<1>1. CASE Stray(dumped)
  BY <1>1, StrayStays
<1>2. CASE ~Stray(dumped)
  <2>1. /\ pc = "command" => InOrder(pos, dumped)
        /\ pc = "handler" => InFrame(pos, cmd, dumped) \/ AtEnd(cmd, dumped)
        /\ pc = "packet" => InPacket(pos, payload, length, offset, dumped)
    BY <1>2 DEF Where
  <2>2. CASE ReadCmdHeader
    BY <2>1, <2>2, ReadCmdHeaderWhere DEF ReadCmdHeader
  <2>3. CASE HandleNothing
    <3>1. InFrame(pos, cmd, dumped)
      BY <2>1, <2>3 DEF HandleNothing, Handling, AtEnd
    <3> QED
      BY <2>3, <3>1, HandleNothingWhere
  <2>4. CASE HandleStop
    BY <2>1, <2>4, HandleStopWhere DEF HandleStop, Handling
  <2>5. CASE HandleConsoleCmd \/ HandleUserCmd
    <3>1. InFrame(pos, cmd, dumped)
      BY <2>1, <2>5 DEF HandleConsoleCmd, HandleUserCmd, Handling, AtEnd
    <3> QED
      BY <2>5, <3>1, HandleSkippedWhere
  <2>6. CASE HandleTables
    <3>1. InFrame(pos, cmd, dumped)
      BY <2>1, <2>6 DEF HandleTables, Handling, AtEnd
    <3> QED
      BY <2>6, <3>1, HandleTablesWhere
  <2>7. CASE HandleDemoPacket
    <3>1. InFrame(pos, cmd, dumped)
      BY <2>1, <2>7 DEF HandleDemoPacket, Handling, AtEnd
    <3> QED
      BY <2>7, <3>1, HandleDemoPacketWhere
  <2>8. CASE DumpMessage \/ FailInMessage \/ FailParsing
    BY <2>1, <2>8, RoundWhere DEF DumpMessage, FailInMessage, FailParsing, Round
  <2>9. CASE EndPacket
    BY <2>1, <2>9, EndPacketWhere DEF EndPacket
  <2>10. CASE Ended
    <3>1. UNCHANGED vars
      BY <2>10 DEF Ended
    <3> QED
      BY <3>1, WhereUnchanged
  <2> QED
    BY <2>2, <2>3, <2>4, <2>5, <2>6, <2>7, <2>8, <2>9, <2>10 DEF Next
<1> QED
  BY <1>1, <1>2

LEMMA InvNext ==
    ASSUME Inv, [Next]_vars
    PROVE  Inv'
<1>1. Recorded /\ Typed /\ Where
  BY DEF Inv
<1>2. UNCHANGED recorded /\ Typed'
  BY <1>1, StepTyped
<1>3. Recorded'
  BY <1>1, <1>2, RecordedStays
<1>4. Where'
  <2>1. CASE Next
    BY <1>1, <2>1, WhereStep
  <2>2. CASE UNCHANGED vars
    BY <1>1, <2>2, WhereUnchanged
  <2> QED
    BY <2>1, <2>2
<1> QED
  BY <1>2, <1>3, <1>4 DEF Inv

LEMMA InvAlways == Spec => []Inv
<1>1. Init => Inv
  BY InvInit
<1>2. Inv /\ [Next]_vars => Inv'
  BY InvNext
<1> QED
  BY <1>1, <1>2, PTL DEF Spec
-----------------------------------------------------------------------------
(* Whatever was recorded and however the file was cut, every read leaves   *)
(* the position, the command and the packet within their types.            *)
THEOREM TypeOKAlways == Spec => []TypeOK
<1>1. Inv => TypeOK
  BY DEF Inv, Recorded, Typed, TypeOK
<1> QED
  BY <1>1, InvAlways, PTL

LEMMA BeginsWithScript ==
    ASSUME script \in Seq(ItemType), dumped \in Seq(ItemType), Complete(dumped)
    PROVE  SubSeq(dumped, 1, Len(script)) = script
<1>1. Len(script) \in Nat /\ Len(dumped) \in Nat /\ Len(script) <= Len(dumped)
  BY DEF Complete, StartsWith
<1>2. \A k \in 1 .. Len(script) : dumped[0 + k] = script[k]
  BY <1>1 DEF Complete, StartsWith
<1>3. 0 \in Nat /\ 0 + Len(script) <= Len(dumped)
  BY <1>1
<1>4. SubSeq(dumped, 0 + 1, 0 + Len(script)) = script
  BY <1>2, <1>3, CutOut
<1>5. 0 + 1 = 1 /\ 0 + Len(script) = Len(script)
  BY <1>1
<1> QED
  BY <1>4, <1>5

LEMMA CompleteIsPrefix ==
    ASSUME script \in Seq(ItemType), dumped \in Seq(ItemType), Complete(dumped)
    PROVE  IsPrefix(script, dumped)
<1>1. Len(script) <= Len(dumped)
  BY DEF Complete, StartsWith
<1>2. SubSeq(dumped, 1, Len(script)) = script
  BY BeginsWithScript
<1>3. SubSeq(script, 1, Len(script)) = script
  OBVIOUS
<1> QED
  BY <1>1, <1>2, <1>3 DEF IsPrefix

(* DoDump reads a command only where one starts, with every item dumped    *)
(* that precedes it and no other, or is beyond the damage.                 *)
THEOREM InStepAlways == Spec => []InStep
<1>1. ASSUME Inv PROVE InStep
  <2>1. Recorded /\ Where
    BY <1>1 DEF Inv
  <2>2. marks = [i \in 0 .. sound |-> Mark(recording, i)]
    BY <2>1 DEF Recorded, Record, sound
  <2>3. DOMAIN marks = 0 .. sound /\ \A i \in 0 .. sound :
           marks[i] = [pos |-> UpTo(recording, i) + 1, dumped |-> ItemsUpTo(recording, i)]
    BY <2>2 DEF Mark
  <2>4. CASE pc = "command" /\ InOrder(pos, dumped)
    BY <2>3, <2>4 DEF InStep, InOrder
  <2>5. CASE pc = "command" /\ Stray(dumped)
    <3>1. /\ script \in Seq(ItemType) /\ dumped \in Seq(ItemType)
          /\ damaged /\ Complete(dumped)
      BY <1>1, <2>1, <2>5, ScriptIs DEF Inv, Typed, Stray
    <3>2. IsPrefix(script, dumped)
      BY <3>1, CompleteIsPrefix
    <3> QED
      BY <3>1, <3>2 DEF InStep
  <2> QED
    BY <2>1, <2>4, <2>5 DEF InStep, Where
<1> QED
  BY <1>1, InvAlways, PTL

(* Only a damaged recording makes the program exit in the middle of a      *)
(* packet, fail an assertion or read behind its buffer.                    *)
THEOREM FailsOnlyIfDamagedAlways == Spec => []FailsOnlyIfDamaged
<1>1. Inv => FailsOnlyIfDamaged
  BY DEF Inv, Where, Failures, FailsOnlyIfDamaged
<1> QED
  BY <1>1, InvAlways, PTL
-----------------------------------------------------------------------------
(* While the program runs, what it has dumped is the beginning of what is  *)
(* due, or all of it and the recording is damaged.                         *)
LEMMA RunningIs ==
    Inv /\ pc \notin Ends => StartsWith(script, dumped) \/ (damaged /\ Complete(dumped))
<1> SUFFICES ASSUME Inv, pc \notin Ends
             PROVE  StartsWith(script, dumped) \/ (damaged /\ Complete(dumped))
  OBVIOUS
<1>1. Recorded /\ Where /\ Typed
  BY DEF Inv
<1>2. pc \in {"command", "handler", "packet"}
  BY <1>1 DEF Typed
<1>s. script \in Seq(ItemType)
  BY <1>1, ScriptIs
<1>3. CASE Stray(dumped)
  BY <1>3 DEF Stray
<1>4. CASE InOrder(pos, dumped)
  BY <1>1, <1>4, ScriptIs DEF InOrder
<1>5. CASE InFrame(pos, cmd, dumped)
  BY <1>1, <1>5, ScriptIs DEF InFrame, Reads
<1>6. CASE AtEnd(cmd, dumped)
  BY <1>6, <1>s, SelfStarts DEF AtEnd
<1>7. CASE InPacket(pos, payload, length, offset, dumped)
  <2>1. PICK i \in 0 .. Len(recording), m \in 1 .. Len(recording) :
          /\ Reads(i, m)
          /\ recording[m].cmd \in Packets
          /\ \E j \in 0 .. Good(recording[m]) :
                dumped = ItemsUpTo(recording, i) \o DueUpTo(recording[m], m, j)
    BY <1>7 DEF InPacket
  <2> DEFINE f == recording[m]
  <2>2. PICK j \in 0 .. Good(f) : dumped = ItemsUpTo(recording, i) \o DueUpTo(f, m, j)
    BY <2>1
  <2>3. /\ f \in FrameType /\ m \in Nat /\ ItemsUpTo(recording, i) \in Seq(ItemType)
        /\ ItemsUpTo(recording, m) = ItemsUpTo(recording, i) \o Items(f, m)
    BY <1>1, <2>1, ReadsIs
  <2>4. Items(f, m) = MessageItems(f, m)
    BY <2>1 DEF Items, Packets, Tables, dem_signon, dem_packet, dem_datatables, dem_stringtables
  <2>5. /\ MessageItems(f, m) \in Seq(ItemType) /\ DueUpTo(f, m, j) \in Seq(ItemType)
        /\ StartsWith(MessageItems(f, m), DueUpTo(f, m, j))
    BY <2>3, WhatIsDueInPacket
  <2>6. StartsWith(ItemsUpTo(recording, i) \o MessageItems(f, m),
                   ItemsUpTo(recording, i) \o DueUpTo(f, m, j))
    BY <2>3, <2>5, StartsBehind
  <2>7. StartsWith(script, ItemsUpTo(recording, m)) /\ ItemsUpTo(recording, m) \in Seq(ItemType)
    BY <1>1, <2>1, ReadsLast
  <2>8. StartsWith(script, dumped)
    <3>1. StartsWith(ItemsUpTo(recording, m), dumped)
      BY <2>2, <2>3, <2>4, <2>6
    <3>2. dumped \in Seq(ItemType)
      BY <1>1 DEF Typed
    <3> QED
      BY <1>s, <2>7, <3>1, <3>2, StartsWithAll
  <2> QED
    BY <2>8
<1> QED
  BY <1>1, <1>2, <1>3, <1>4, <1>5, <1>6, <1>7 DEF Where

LEMMA CompleteIsAllDumped ==
    ASSUME script \in Seq(ItemType), dumped \in Seq(ItemType), Complete(dumped)
    PROVE  Abstract!AllDumped
<1>1. Len(script) <= Len(dumped)
  BY DEF Complete, StartsWith
<1>2. SubSeq(dumped, 1, Len(script)) = script
  BY BeginsWithScript
<1>3. Len(dumped) >= Len(script)
  BY <1>1
<1> QED
  BY <1>2, <1>3 DEF Abstract!AllDumped

LEMMA ReplayStep ==
    ASSUME Inv, Inv', [Next]_vars
    PROVE  [Abstract!Next]_(Abstract!vars)
<1>1. /\ Recorded /\ Typed /\ Where /\ Where' /\ Typed'
  BY DEF Inv
<1>2. /\ UNCHANGED recorded
      /\ dumped' = dumped \/ \E item : dumped' = Append(dumped, item)
  BY <1>1, StepTyped
<1>3. UNCHANGED <<script, damaged>>
  BY <1>2 DEF recorded
<1>4. /\ script \in Seq(ItemType) /\ dumped \in Seq(ItemType) /\ dumped' \in Seq(ItemType)
      /\ Len(script) \in Nat /\ Len(dumped) \in Nat
  BY <1>1, ScriptIs DEF Typed
<1>5. CASE pc \in Ends
  <2>1. UNCHANGED vars
    BY <1>5 DEF Next, Ended, ReadCmdHeader, HandleNothing, HandleStop, HandleConsoleCmd,
                HandleUserCmd, HandleTables, HandleDemoPacket, Handling, DumpMessage, FailInMessage,
                FailParsing, Round, EndPacket, Ends
  <2> QED
    BY <2>1 DEF vars, outcome, Abstract!vars
<1>6. CASE pc \notin Ends
  <2>1. outcome = "running"
    BY <1>1, <1>6 DEF outcome, Typed, Ends
  <2>2. StartsWith(script, dumped) \/ (damaged /\ Complete(dumped))
    BY <1>6, RunningIs
  <2>3. CASE pc' \in Ends /\ dumped' = dumped
    <3>1. CASE pc' = "finished"
      <4>1. outcome' = "done"
        BY <3>1 DEF outcome
      <4>2. Complete(dumped)
        BY <1>1, <1>3, <2>3, <3>1 DEF Where, Complete
      <4> QED
        BY <1>3, <1>4, <2>1, <2>3, <4>1, <4>2, CompleteIsAllDumped DEF Abstract!Finish, Abstract!Next
    <3>2. CASE pc' \in Failures
      <4>1. outcome' = "failed"
        BY <3>2 DEF outcome, Failures
      <4>2. damaged /\ Complete(dumped)
        BY <1>1, <1>3, <2>3, <3>2 DEF Where, Complete
      <4> QED
        BY <1>3, <1>4, <2>1, <2>3, <4>1, <4>2, CompleteIsAllDumped DEF Abstract!Fail, Abstract!Next
    <3> QED
      BY <2>3, <3>1, <3>2 DEF Ends, Failures
  <2>4. CASE pc' \notin Ends /\ dumped' = dumped
    <3>1. outcome' = "running"
      BY <1>1, <2>4 DEF outcome, Typed, Ends
    <3> QED
      BY <1>3, <2>1, <2>4, <3>1 DEF Abstract!vars
  <2>5. CASE \E item : dumped' = Append(dumped, item)
    <3>1. PICK item : dumped' = Append(dumped, item)
      BY <2>5
    <3>2. pc' \notin Ends
      <4>1. dumped' # dumped
        BY <1>4, <3>1
      <4> QED
        BY <4>1 DEF Next, Ended, ReadCmdHeader, ReadBehind, HandleNothing, HandleStop,
                HandleConsoleCmd, HandleUserCmd, SkipRawData, HandleTables, HandleDemoPacket,
                DumpMessage, Round, FailInMessage, FailParsing, EndPacket, vars, Ends
    <3>3. outcome' = "running"
      BY <1>1, <3>2 DEF outcome, Typed, Ends
    <3>4. /\ Len(dumped') = Len(dumped) + 1
          /\ \A k \in 1 .. Len(dumped) : dumped'[k] = dumped[k]
          /\ dumped'[Len(dumped) + 1] = item
      BY <1>4, <3>1
    <3>5. StartsWith(script, dumped') \/ (damaged /\ Complete(dumped'))
      <4>1. (StartsWith(script, dumped) \/ (damaged /\ Complete(dumped)))'
        <5>1. (Inv /\ pc \notin Ends
                 => StartsWith(script, dumped) \/ (damaged /\ Complete(dumped)))'
          BY RunningIs, PTL
        <5> QED
          BY <3>2, <5>1
      <4> QED
        BY <1>3, <4>1 DEF StartsWith, Complete
    <3>6. CASE Len(dumped) < Len(script)
      <4>1. item = script[Len(dumped) + 1]
        BY <1>4, <3>4, <3>5, <3>6 DEF StartsWith, Complete
      <4> QED
        BY <1>3, <2>1, <3>1, <3>3, <3>6, <4>1 DEF Abstract!Dump, Abstract!Next
    <3>7. CASE ~(Len(dumped) < Len(script))
      <4>1. damaged /\ Complete(dumped')
        BY <1>4, <3>4, <3>5, <3>7 DEF StartsWith
      <4>2. Complete(dumped)
        BY <1>4, <3>4, <3>7, <4>1 DEF StartsWith, Complete
      <4>3. Abstract!AllDumped
        BY <1>4, <4>2, CompleteIsAllDumped
      <4>4. SubSeq(dumped', 1, Len(dumped)) = dumped
        BY <1>4, <3>1
      <4> QED
        BY <1>3, <2>1, <3>3, <3>4, <4>1, <4>3, <4>4 DEF Abstract!Stray, Abstract!Next
    <3> QED
      BY <3>6, <3>7
  <2> QED
    BY <1>2, <2>3, <2>4, <2>5
<1> QED
  BY <1>5, <1>6

(* The dump of a demo keeps the promise of Replay: everything that is due  *)
(* is dumped, once and in order, before the program ends or strays.        *)
THEOREM DumpImplementsReplay == Spec => ImplementsReplay
<1>1. Init => Abstract!Init
  BY DEF Init, Abstract!Init, outcome, Ends
<1>2. Inv /\ Inv' /\ [Next]_vars => [Abstract!Next]_(Abstract!vars)
  BY ReplayStep
<1> QED
  BY <1>1, <1>2, InvAlways, PTL DEF Spec, ImplementsReplay, Abstract!Spec
=============================================================================
