------------------------------ MODULE BitRead ------------------------------
(***************************************************************************)
(* CBitRead (src/demofilebitbuf.{h,cpp}): a reader of bits that prefetches *)
(* its buffer in dwords.  The bytes that do not fill a dword are read      *)
(* first (the "head"), so every later fetch is a whole dword, and the end  *)
(* of the data is always the end of a dword.  A bit is an opaque token, so *)
(* that a property can tell which bit of which contents a read returned;   *)
(* the arithmetic on positions is the code's.                              *)
(*                                                                         *)
(* Two ways the program uses a reader are here: over data that is already  *)
(* there (entity_data, string_data) and over a packet buffer that is       *)
(* filled after the reader was constructed on it (HandleDemoPacket,        *)
(* DoDump), which Seek(0) must make good because the first dword has been  *)
(* prefetched by then.                                                     *)
(***************************************************************************)
EXTENDS Integers

CONSTANTS
    Bit,            \* the values one bit of a buffer may have
    Zero,           \* the cleared bit
    MaxBytes,       \* the largest buffer
    Sizes,          \* the sizes (in bytes) of the buffers
    Contents,       \* what buffers may hold
    Widths,         \* the widths of the reads
    SeekTargets     \* the bit positions given to Seek

ASSUME ZeroAssumption == Zero \in Bit
ASSUME MaxBytesAssumption == MaxBytes \in Nat \ {0}
ASSUME SizesAssumption == Sizes \subseteq 1 .. MaxBytes
ASSUME ContentsAssumption ==
    \A c \in Contents : c \in [0 .. 8 * MaxBytes - 1 -> Bit]
ASSUME WidthsAssumption == Widths \subseteq 1 .. 32
ASSUME SeekTargetsAssumption == SeekTargets \subseteq Int

VARIABLES
    buf,            \* m_pData[], as a function of the bit
    nDataBytes,     \* m_nDataBytes (m_nDataBits is always 8 times that)
    dataIn,         \* m_pDataIn, as a byte offset into buf
    bitsAvail,      \* m_nBitsAvail
    inBufWord,      \* m_nInBufWord, as a function of the bit
    overflow,       \* m_bOverflow
    result,         \* the value the last read returned
    stage           \* the buffer's owner: "constructed", "filled", "ready"

vars == <<buf, nDataBytes, dataIn, bitsAvail, inBufWord, overflow, result, stage>>
reader == <<dataIn, bitsAvail, inBufWord, overflow>>

Word == [0 .. 31 -> Bit]
ZeroWord == [i \in 0 .. 31 |-> Zero]
Stages == {"constructed", "filled", "ready"}

nDataBits == 8 * nDataBytes
(* Mutant: the odd bytes are left to the end of the buffer.                *)
HeadAtTheEnd == 0
nHead == nDataBytes % 4

(* w >> n, and the low n bits of w.                                        *)
Shr(w, n) == [i \in 0 .. 31 |-> IF i + n < 32 THEN w[i + n] ELSE Zero]
Low(w, n) == [i \in 0 .. n - 1 |-> w[i]]

(* The | of two bits.  Where both are set, which a good reader never lets  *)
(* happen, the wrong one (what was left above the available bits) wins.    *)
Or(a, b) == IF a = Zero THEN b ELSE a

GetNumBitsRead ==
    LET ofs == (dataIn \div 4 - 1) * 32 + (32 - bitsAvail) + 8 * nHead
    IN  IF ofs < nDataBits THEN ofs ELSE nDataBits

-----------------------------------------------------------------------------
(* GrabNextDWord with m_pDataIn = d and m_nBitsAvail = a: a dword of data, *)
(* one phantom zero bit at the end of it, and overflow beyond that.        *)
GrabWord(d) ==
    IF d < nDataBytes THEN [i \in 0 .. 31 |-> buf[8 * d + i]] ELSE ZeroWord
GrabDataIn(d) == IF d > nDataBytes THEN d ELSE d + 4
GrabAvail(d, a) == IF d = nDataBytes THEN 1 ELSE a
(* Mutant: a merge that crosses the end is not an overflow yet.            *)
GrabOverflowLate(d, immediately) == overflow \/ d > nDataBytes
GrabOverflow(d, immediately) ==
    overflow \/ d > nDataBytes \/ (immediately /\ d = nDataBytes)

FetchNext ==
    /\ inBufWord' = GrabWord(dataIn)
    /\ dataIn' = GrabDataIn(dataIn)
    /\ bitsAvail' = GrabAvail(dataIn, 32)
    /\ overflow' = GrabOverflow(dataIn, FALSE)

(* What Seek leaves in the reader for a position inside the data.          *)
InHead(p) == nDataBytes < 4 \/ (nHead # 0 /\ p \div 8 < nHead)
HeadWord == [i \in 0 .. 31 |-> IF i < 8 * nHead THEN buf[i] ELSE Zero]
AdjDataIn(p) == ((p - 8 * nHead) \div 32) * 4 + nHead
AdjShift(p) == (p - 8 * nHead) % 32
SmallerOf(a, b) == IF a < b THEN a ELSE b

SeekDataIn(p) == IF InHead(p) THEN nHead ELSE GrabDataIn(AdjDataIn(p))
SeekAvail(p) ==
    IF InHead(p) THEN 8 * nHead - (p % 32)
    ELSE SmallerOf(GrabAvail(AdjDataIn(p), 32), 32 - AdjShift(p))
SeekWord(p) ==
    IF InHead(p) THEN Shr(HeadWord, p % 32)
    ELSE Shr(GrabWord(AdjDataIn(p)), AdjShift(p))
-----------------------------------------------------------------------------
(* CBitRead(pData, nBytes): StartReading ends in Seek(0).                  *)
Init ==
    /\ nDataBytes \in Sizes
    /\ buf \in {[i \in 0 .. nDataBits - 1 |-> c[i]] : c \in Contents}
    /\ dataIn = SeekDataIn(0)
    /\ bitsAvail = SeekAvail(0)
    /\ inBufWord = SeekWord(0)
    /\ overflow = FALSE
    /\ result = [i \in 0 .. 0 |-> Zero]
    /\ stage = "constructed"

(* The reader was built over finished data: it is ready as it stands.      *)
Use ==
    /\ stage = "constructed"
    /\ stage' = "ready"
    /\ UNCHANGED <<buf, nDataBytes, reader, result>>

(* ReadRawData copies len bytes of the file under the reader.              *)
Fill ==
    /\ stage = "constructed"
    /\ \E c \in Contents, len \in 1 .. nDataBytes :
          buf' = [i \in 0 .. nDataBits - 1 |-> IF i < 8 * len THEN c[i] ELSE buf[i]]
    /\ stage' = "filled"
    /\ UNCHANGED <<nDataBytes, reader, result>>

SeekTo(p) ==
    /\ dataIn' = SeekDataIn(p)
    /\ bitsAvail' = SeekAvail(p)
    /\ inBufWord' = SeekWord(p)

(* Mutant: the Seek(0) of HandleDemoPacket is forgotten.                   *)
NoRewind ==
    /\ stage = "filled"
    /\ stage' = "ready"
    /\ UNCHANGED <<buf, nDataBytes, reader, result>>

(* buf.Seek(0) after the buffer was filled.                                *)
Rewind ==
    /\ stage = "filled"
    /\ SeekTo(0)
    /\ stage' = "ready"
    /\ UNCHANGED <<buf, nDataBytes, overflow, result>>

(* Seek and SeekRelative.  Only the packet and data-table readers seek,    *)
(* and their buffers hold at least a dword.                                *)
Seek(p) ==
    /\ stage = "ready"
    /\ nDataBytes >= 4
    /\ IF p \in 0 .. nDataBits
       THEN SeekTo(p) /\ overflow' = overflow
       ELSE SeekTo(nDataBits) /\ overflow' = TRUE
    /\ UNCHANGED <<buf, nDataBytes, result, stage>>

ReadOneBit ==
    /\ stage = "ready"
    /\ result' = Low(inBufWord, 1)
    /\ \/ bitsAvail = 1 /\ FetchNext
       \/ /\ bitsAvail # 1
          /\ bitsAvail' = bitsAvail - 1
          /\ inBufWord' = Shr(inBufWord, 1)
          /\ UNCHANGED <<dataIn, overflow>>
    /\ UNCHANGED <<buf, nDataBytes, stage>>

(* ReadUBitLong when the dword at hand has the bits.                       *)
ReadFromWord(n) ==
    /\ stage = "ready"
    /\ bitsAvail >= n
    /\ result' = Low(inBufWord, n)
    /\ \/ bitsAvail = n /\ FetchNext
       \/ /\ bitsAvail # n
          /\ bitsAvail' = bitsAvail - n
          /\ inBufWord' = Shr(inBufWord, n)
          /\ UNCHANGED <<dataIn, overflow>>
    /\ UNCHANGED <<buf, nDataBytes, stage>>

(* ReadUBitLong when it has to merge two dwords.                           *)
MergedBits(n) ==
    [i \in 0 .. n - 1 |->
        Or(inBufWord[i], IF i < bitsAvail THEN Zero
                         ELSE GrabWord(dataIn)[i - bitsAvail])]

ReadMerged(n) ==
    /\ stage = "ready"
    /\ bitsAvail < n
    /\ dataIn' = GrabDataIn(dataIn)
    /\ overflow' = GrabOverflow(dataIn, TRUE)
    /\ \/ /\ GrabOverflow(dataIn, TRUE)
          /\ result' = [i \in 0 .. n - 1 |-> Zero]
          /\ bitsAvail' = GrabAvail(dataIn, bitsAvail)
          /\ inBufWord' = GrabWord(dataIn)
       \/ /\ ~GrabOverflow(dataIn, TRUE)
          /\ result' = MergedBits(n)
          /\ bitsAvail' = 32 - (n - bitsAvail)
          /\ inBufWord' = Shr(GrabWord(dataIn), n - bitsAvail)
    /\ UNCHANGED <<buf, nDataBytes, stage>>

Next ==
    \/ Use
    \/ Fill
    \/ Rewind
    \/ \E p \in SeekTargets : Seek(p)
    \/ ReadOneBit
    \/ \E n \in Widths : ReadFromWord(n) \/ ReadMerged(n)

Spec == Init /\ [][Next]_vars
-----------------------------------------------------------------------------
(* Every variable is in its range: in particular the reader always has at  *)
(* least one bit at hand (ReadOneBit decrements before it tests), and the  *)
(* next dword starts no further than one dword beyond the data.            *)
TypeOK ==
    /\ nDataBytes \in Sizes
    /\ buf \in [0 .. nDataBits - 1 -> Bit]
    /\ dataIn \in 0 .. nDataBytes + 4
    /\ bitsAvail \in 1 .. 32
    /\ inBufWord \in Word
    /\ overflow \in BOOLEAN
    /\ \E n \in 1 .. 32 : result \in [0 .. n - 1 -> Bit]
    /\ stage \in Stages

(* The assertion of GrabNextDWord (demofilebitbuf.cpp:101): a fetch that   *)
(* starts before the end of the data ends within it.                       *)
FetchInBounds == dataIn < nDataBytes => dataIn + 3 < nDataBytes

(* The n bits of the buffer from p on, in the low bits of a word.          *)
Window(n, p) == [i \in 0 .. 31 |-> IF i < n THEN buf[p + i] ELSE Zero]

(* Data at hand, from the reader's position on: the dword holds exactly    *)
(* the bits of the current contents that were not read yet and zeros above *)
(* them, which is what makes the | of the merge right.                     *)
AtData ==
    /\ dataIn <= nDataBytes
    /\ bitsAvail <= 8 * dataIn
    /\ inBufWord = Window(bitsAvail, 8 * dataIn - bitsAvail)

(* Everything was read: the phantom bit of GrabNextDWord is at hand.       *)
AtEnd ==
    /\ dataIn = nDataBytes + 4
    /\ bitsAvail = 1
    /\ inBufWord = ZeroWord

(* Once the buffer is ready, and while nothing overflowed, what was        *)
(* prefetched is what the buffer holds now: no read returns a bit of what  *)
(* the buffer held before HandleDemoPacket filled it.                      *)
PrefetchCurrent == stage = "ready" /\ ~overflow => AtData \/ AtEnd

(* After an overflow, with no Seek back into the data since.               *)
Exhausted ==
    /\ overflow
    /\ dataIn > nDataBytes
    /\ inBufWord = ZeroWord

(* CBitRead is a stream of bits: each read returns the next bits of the    *)
(* current contents in order, the flag is raised by the first read or seek *)
(* that asks for more than there is and by no other, Tell is the position, *)
(* and from then on reads return zeros.                                    *)
Stream == INSTANCE BitStream WITH
    bits <- buf,
    length <- nDataBits,
    Widths <- Widths \union {1},
    Targets <- SeekTargets \union {0},
    pos <- GetNumBitsRead,
    exhausted <- Exhausted

ImplementsBitStream == Stream!Spec
=============================================================================
