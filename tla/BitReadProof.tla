---------------------------- MODULE BitReadProof ----------------------------
(***************************************************************************)
(* Theorems about CBitRead, for buffers of any size and contents, reads of *)
(* any width and seeks to any position.                                    *)
(***************************************************************************)
EXTENDS BitRead, TLAPS

(* The inductive invariant.  The end of the data is only ever compared     *)
(* with m_pDataIn, so everything rests on every fetch starting a whole     *)
(* number of dwords before it (Aligned).  Positioned says that the reader  *)
(* never claims to be before the data, even after an overflow, where its   *)
(* counter and its pointer drift apart; Unread, that before the first read *)
(* only the contents of the dword can be out of date.                      *)
Aligned == dataIn % 4 = nDataBytes % 4

Positioned == dataIn <= nDataBytes => bitsAvail <= 8 * dataIn

Unread ==
    stage # "ready" =>
        /\ ~overflow
        /\ dataIn <= nDataBytes
        /\ 8 * dataIn = bitsAvail
        /\ stage = "constructed" => AtData

IInv ==
    /\ TypeOK
    /\ Aligned
    /\ Positioned
    /\ Unread
    /\ PrefetchCurrent

-----------------------------------------------------------------------------
(* Tell is a difference of two distances: the code's division by 4 and its *)
(* adjustment for the head cancel out.                                     *)
LEMMA TellIsDistance ==
    ASSUME NEW n \in Nat, NEW d \in Nat, NEW a \in Nat, d % 4 = n % 4
    PROVE  (d \div 4 - 1) * 32 + (32 - a) + 8 * (n % 4) = 8 * d - a
OBVIOUS

(* Where a Seek inside the data leaves the reader.                         *)
LEMMA SeekPosition ==
    ASSUME nDataBytes \in Nat \ {0},
           NEW p \in 0 .. nDataBits,
           nDataBytes >= 4 \/ p = 0
    PROVE  /\ SeekDataIn(p) \in 0 .. nDataBytes + 4
           /\ SeekAvail(p) \in 1 .. 32
           /\ SeekDataIn(p) % 4 = nDataBytes % 4
           /\ p < nDataBits => /\ SeekDataIn(p) <= nDataBytes
                               /\ 8 * SeekDataIn(p) - SeekAvail(p) = p
           /\ p = nDataBits => /\ SeekDataIn(p) = nDataBytes + 4
                               /\ SeekAvail(p) = 1
<1>1. CASE InHead(p)
    BY <1>1 DEF SeekDataIn, SeekAvail, InHead, nHead, nDataBits
<1>2. CASE ~InHead(p)
  <2>1. nDataBytes >= 4 /\ p >= 8 * nHead /\ nHead \in 0 .. 3
      BY <1>2 DEF InHead, nHead, nDataBits
  <2> DEFINE a == p - 8 * nHead
  <2>2. a \in Nat /\ a <= 8 * (nDataBytes - nHead)
      BY <2>1 DEF nDataBits
  <2>3. a = 32 * (a \div 32) + (a % 32) /\ a % 32 \in 0 .. 31 /\ a \div 32 \in Nat
      BY <2>2
  <2>4. AdjDataIn(p) = 4 * (a \div 32) + nHead /\ AdjShift(p) = a % 32
      BY <2>3 DEF AdjDataIn, AdjShift
  <2>5. AdjDataIn(p) % 4 = nHead /\ AdjDataIn(p) \in 0 .. nDataBytes
      BY <2>1, <2>2, <2>3, <2>4 DEF nHead
  <2>6. nDataBytes % 4 = nHead
      BY DEF nHead
  <2>7. CASE p = nDataBits
    <3>1. AdjDataIn(p) = nDataBytes /\ AdjShift(p) = 0
        BY <2>1, <2>2, <2>3, <2>4, <2>7 DEF nDataBits, nHead
    <3>2. QED
        BY <1>2, <2>7, <3>1 DEF SeekDataIn, SeekAvail, GrabDataIn, GrabAvail, SmallerOf
  <2>8. CASE p < nDataBits
    <3>1. AdjDataIn(p) < nDataBytes
        BY <2>1, <2>2, <2>3, <2>4, <2>8 DEF nDataBits, nHead
    <3>2. SeekDataIn(p) = AdjDataIn(p) + 4 /\ SeekAvail(p) = 32 - (a % 32)
        BY <1>2, <2>3, <2>4, <2>5, <3>1 DEF SeekDataIn, SeekAvail, GrabDataIn, GrabAvail, SmallerOf
    <3>3. AdjDataIn(p) + 4 <= nDataBytes
        BY <2>5, <2>6, <3>1
    <3>4. 8 * SeekDataIn(p) - SeekAvail(p) = p
        BY <2>1, <2>2, <2>3, <2>4, <3>2
    <3>5. SeekDataIn(p) % 4 = nDataBytes % 4
        BY <2>5, <2>6, <3>2
    <3>6. QED
        BY <2>1, <2>3, <2>5, <2>8, <3>2, <3>3, <3>4, <3>5
  <2>9. QED
      BY <2>7, <2>8 DEF nDataBits
<1>3. QED
    BY <1>1, <1>2

(* A window of the buffer is a word, and shifting one gives another.       *)
LEMMA WindowIsWord ==
    ASSUME NEW n \in Int, NEW p \in Int,
           \A i \in 0 .. 31 : i < n => buf[p + i] \in Bit
    PROVE  Window(n, p) \in Word
BY ZeroAssumption DEF Window, Word

LEMMA ShiftedWindow ==
    ASSUME NEW n \in 0 .. 32, NEW p \in Int, NEW k \in 0 .. n
    PROVE  Shr(Window(n, p), k) = Window(n - k, p + k)
<1>1. \A i \in 0 .. 31 : /\ i + k < 32 => i + k \in 0 .. 31
                         /\ p + (i + k) = (p + k) + i
                         /\ (i + k < n) <=> (i < n - k)
                         /\ i + k >= 32 => ~(i < n - k)
    OBVIOUS
<1>2. QED
    BY <1>1 DEF Shr, Window

LEMMA ShiftedZeros ==
    ASSUME NEW k \in Nat
    PROVE  Shr(ZeroWord, k) = ZeroWord
<1>1. \A i \in 0 .. 31 : i + k < 32 => i + k \in 0 .. 31
    OBVIOUS
<1>2. QED
    BY <1>1 DEF Shr, ZeroWord

LEMMA ZeroWordIsWord == ZeroWord \in Word
BY ZeroAssumption DEF ZeroWord, Word

LEMMA GrabbedWord ==
    ASSUME NEW d \in Int, d < nDataBytes
    PROVE  GrabWord(d) = Window(32, 8 * d)
<1>1. \A i \in 0 .. 31 : i < 32
    OBVIOUS
<1>2. QED
    BY <1>1 DEF GrabWord, Window

(* The dword a Seek inside the data prefetches: the bits from p on.        *)
LEMMA SeekPrefetch ==
    ASSUME nDataBytes \in Nat \ {0},
           NEW p \in 0 .. nDataBits,
           nDataBytes >= 4 \/ p = 0
    PROVE  /\ p < nDataBits => SeekWord(p) = Window(SeekAvail(p), p)
           /\ p = nDataBits => SeekWord(p) = ZeroWord
<1>1. CASE InHead(p)
  <2>1. p < nDataBits /\ p % 32 = p /\ p < 8 * nHead /\ nHead \in 1 .. 3
      BY <1>1 DEF InHead, nHead, nDataBits
  <2>2. SeekAvail(p) = 8 * nHead - p /\ SeekWord(p) = Shr(HeadWord, p)
      BY <1>1, <2>1 DEF SeekAvail, SeekWord
  <2>3. HeadWord = Window(8 * nHead, 0)
    <3>1. \A i \in 0 .. 31 : 0 + i = i
        OBVIOUS
    <3>2. HeadWord = [i \in 0 .. 31 |-> IF i < 8 * nHead THEN buf[0 + i] ELSE Zero]
        BY <3>1 DEF HeadWord
    <3>3. QED
        BY <3>2 DEF Window
  <2>4. Shr(Window(8 * nHead, 0), p) = Window(8 * nHead - p, 0 + p)
    <3>1. 8 * nHead \in 0 .. 32 /\ p \in 0 .. 8 * nHead /\ 0 \in Int
        BY <2>1
    <3>2. QED
        BY ONLY <3>1, ShiftedWindow, Zenon
  <2>5. 0 + p = p
      BY <2>1
  <2>6. QED
      BY <2>1, <2>2, <2>3, <2>4, <2>5
<1>2. CASE ~InHead(p) /\ p < nDataBits
  <2> DEFINE d == AdjDataIn(p)
             s == AdjShift(p)
  <2>1. /\ SeekDataIn(p) <= nDataBytes
        /\ 8 * SeekDataIn(p) - SeekAvail(p) = p
        /\ SeekAvail(p) \in 1 .. 32
      BY <1>2, SeekPosition
  <2>2. d \in Int /\ s \in 0 .. 31
      BY DEF AdjDataIn, AdjShift, nHead
  <2>3. d < nDataBytes /\ SeekDataIn(p) = d + 4
      BY <1>2, <2>1, <2>2 DEF SeekDataIn, GrabDataIn
  <2>4. SeekAvail(p) = 32 - s
    <3>1. GrabAvail(d, 32) = 32
        BY <2>2, <2>3 DEF GrabAvail
    <3>2. SeekAvail(p) = SmallerOf(32, 32 - s)
        BY <1>2, <3>1 DEF SeekAvail
    <3>3. QED
        BY <2>2, <3>2 DEF SmallerOf
  <2>5. 8 * d + s = p
      BY <2>1, <2>2, <2>3, <2>4
  <2>6. SeekWord(p) = Shr(Window(32, 8 * d), s)
    <3>1. GrabWord(d) = Window(32, 8 * d)
        BY <2>2, <2>3, GrabbedWord
    <3>2. QED
        BY <1>2, <3>1 DEF SeekWord
  <2>7. Shr(Window(32, 8 * d), s) = Window(32 - s, 8 * d + s)
    <3>1. 32 \in 0 .. 32 /\ 8 * d \in Int /\ s \in 0 .. 32
        BY <2>2
    <3>2. QED
        BY ONLY <3>1, ShiftedWindow, Zenon
  <2>8. QED
      BY <1>2, <2>4, <2>5, <2>6, <2>7
<1>3. CASE ~InHead(p) /\ p = nDataBits
  <2>1. AdjDataIn(p) \in Int /\ AdjShift(p) \in Nat
      BY DEF AdjDataIn, AdjShift, nHead
  <2>2. SeekDataIn(p) = nDataBytes + 4
      BY <1>3, SeekPosition
  <2>3. ~(AdjDataIn(p) < nDataBytes)
      BY <1>3, <2>1, <2>2 DEF SeekDataIn, GrabDataIn
  <2>4. SeekWord(p) = Shr(ZeroWord, AdjShift(p))
      BY <1>3, <2>3 DEF SeekWord, GrabWord
  <2>5. QED
      BY <1>3, <2>1, <2>4, ShiftedZeros
<1>4. QED
    BY <1>1, <1>2, <1>3 DEF nDataBits
-----------------------------------------------------------------------------
(* What every operation on a ready buffer preserves.                       *)
Current == ~overflow => AtData \/ AtEnd

ReaderOK ==
    /\ dataIn \in 0 .. nDataBytes + 4
    /\ bitsAvail \in 1 .. 32
    /\ inBufWord \in Word
    /\ overflow \in BOOLEAN
    /\ Aligned
    /\ Positioned
    /\ Current

BufferOK ==
    /\ nDataBytes \in Nat \ {0}
    /\ buf \in [0 .. nDataBits - 1 -> Bit]

LEMMA BufferTyped == ASSUME TypeOK PROVE BufferOK
BY SizesAssumption, MaxBytesAssumption DEF TypeOK, BufferOK

(* A fetch that starts inside the data is a whole dword of it.             *)
LEMMA GrabWithinData ==
    ASSUME BufferOK, NEW d \in 0 .. nDataBytes + 4, d % 4 = nDataBytes % 4
    PROVE  /\ d < nDataBytes => d + 4 <= nDataBytes
           /\ d > nDataBytes => d = nDataBytes + 4
           /\ GrabDataIn(d) \in 0 .. nDataBytes + 4
           /\ GrabDataIn(d) % 4 = nDataBytes % 4
           /\ GrabWord(d) \in Word
<1>1. /\ d < nDataBytes => d + 4 <= nDataBytes
      /\ d > nDataBytes => d = nDataBytes + 4
      /\ (d + 4) % 4 = nDataBytes % 4
    BY DEF BufferOK
<1>2. GrabDataIn(d) \in 0 .. nDataBytes + 4 /\ GrabDataIn(d) % 4 = nDataBytes % 4
    BY <1>1 DEF GrabDataIn, BufferOK
<1>3. GrabWord(d) \in Word
  <2>1. CASE d < nDataBytes
    <3>1. \A i \in 0 .. 31 : 8 * d + i \in 0 .. nDataBits - 1
        BY <1>1, <2>1 DEF nDataBits, BufferOK
    <3>2. QED
        BY <2>1, <3>1 DEF GrabWord, Word, BufferOK
  <2>2. CASE ~(d < nDataBytes)
      BY <2>2, ZeroWordIsWord DEF GrabWord
  <2>3. QED
      BY <2>1, <2>2
<1>4. QED
    BY <1>1, <1>2, <1>3

LEMMA ShiftedWord ==
    ASSUME NEW w \in Word, NEW k \in Nat
    PROVE  Shr(w, k) \in Word
<1>1. \A i \in 0 .. 31 : i + k < 32 => i + k \in 0 .. 31
    OBVIOUS
<1>2. QED
    BY <1>1, ZeroAssumption DEF Shr, Word

(* FetchNext, when the bits at hand have all been taken.                   *)
LEMMA FetchNextStep ==
    ASSUME BufferOK, ReaderOK, FetchNext, UNCHANGED <<buf, nDataBytes>>
    PROVE  ReaderOK'
<1>1. /\ dataIn < nDataBytes => dataIn + 4 <= nDataBytes
      /\ dataIn > nDataBytes => dataIn = nDataBytes + 4
      /\ GrabDataIn(dataIn) \in 0 .. nDataBytes + 4
      /\ GrabDataIn(dataIn) % 4 = nDataBytes % 4
      /\ GrabWord(dataIn) \in Word
    BY GrabWithinData DEF ReaderOK, Aligned
<1>2. /\ dataIn' \in 0 .. nDataBytes + 4
      /\ dataIn' % 4 = nDataBytes % 4
      /\ bitsAvail' \in 1 .. 32
      /\ inBufWord' \in Word
      /\ overflow' \in BOOLEAN
    BY <1>1 DEF FetchNext, GrabAvail, GrabOverflow, ReaderOK
<1>3. Positioned'
    BY <1>1 DEF FetchNext, GrabAvail, GrabDataIn, Positioned, ReaderOK, BufferOK
<1>4. Current'
  <2>1. CASE dataIn < nDataBytes
    <3>1. dataIn' = dataIn + 4 /\ bitsAvail' = 32 /\ inBufWord' = Window(32, 8 * dataIn)
        BY <2>1, GrabbedWord DEF FetchNext, GrabDataIn, GrabAvail, ReaderOK, BufferOK
    <3>2. 8 * dataIn' - bitsAvail' = 8 * dataIn
        BY <3>1 DEF ReaderOK
    <3>3. AtData'
        BY <1>1, <2>1, <3>1, <3>2 DEF AtData, Window, ReaderOK, BufferOK
    <3>4. QED
        BY <3>3 DEF Current
  <2>2. CASE dataIn = nDataBytes
    <3>1. AtEnd'
        BY <2>2 DEF FetchNext, GrabDataIn, GrabAvail, GrabWord, AtEnd, ZeroWord, BufferOK
    <3>2. QED
        BY <3>1 DEF Current
  <2>3. CASE dataIn > nDataBytes
      BY <2>3 DEF FetchNext, GrabOverflow, Current
  <2>4. QED
      BY <2>1, <2>2, <2>3 DEF ReaderOK, BufferOK
<1>5. QED
    BY <1>2, <1>3, <1>4 DEF ReaderOK, Aligned

(* Taking k bits of the word at hand, and leaving some.                    *)
LEMMA ShiftStep ==
    ASSUME BufferOK, ReaderOK, NEW k \in 1 .. 32, k < bitsAvail,
           bitsAvail' = bitsAvail - k,
           inBufWord' = Shr(inBufWord, k),
           UNCHANGED <<buf, nDataBytes, dataIn, overflow>>
    PROVE  ReaderOK'
<1>1. bitsAvail' \in 1 .. 32 /\ inBufWord' \in Word
    BY ShiftedWord DEF ReaderOK
<1>2. Positioned'
    BY DEF Positioned, ReaderOK, BufferOK
<1>3. ASSUME ~overflow PROVE AtData'
  <2>1. AtData
      BY <1>3 DEF ReaderOK, Current, AtEnd
  <2> DEFINE p == 8 * dataIn - bitsAvail
  <2>2. inBufWord' = Window(bitsAvail - k, p + k)
    <3>1. bitsAvail \in 0 .. 32 /\ p \in Int /\ k \in 0 .. bitsAvail
        BY DEF ReaderOK, BufferOK
    <3>2. inBufWord' = Shr(Window(bitsAvail, p), k)
        BY <2>1 DEF AtData
    <3>3. Shr(Window(bitsAvail, p), k) = Window(bitsAvail - k, p + k)
        BY ONLY <3>1, ShiftedWindow, Zenon
    <3>4. QED
        BY <3>2, <3>3
  <2>3. p + k = 8 * dataIn' - bitsAvail'
      BY DEF ReaderOK, BufferOK
  <2>4. dataIn' <= nDataBytes' /\ bitsAvail' <= 8 * dataIn'
      BY <2>1 DEF AtData, ReaderOK, BufferOK
  <2>5. inBufWord' = Window(bitsAvail', 8 * dataIn' - bitsAvail')
      BY <2>2, <2>3
  <2>6. inBufWord' = Window(bitsAvail, 8 * dataIn - bitsAvail)'
      BY <2>5 DEF Window
  <2>7. QED
      BY <2>4, <2>6 DEF AtData
<1>4. QED
    BY <1>1, <1>2, <1>3 DEF ReaderOK, Current, Aligned

(* ReadUBitLong across two dwords.                                         *)
LEMMA MergeStep ==
    ASSUME BufferOK, ReaderOK, NEW n \in 1 .. 32, ReadMerged(n)
    PROVE  ReaderOK'
<1>1. /\ dataIn < nDataBytes => dataIn + 4 <= nDataBytes
      /\ dataIn > nDataBytes => dataIn = nDataBytes + 4
      /\ GrabDataIn(dataIn) \in 0 .. nDataBytes + 4
      /\ GrabDataIn(dataIn) % 4 = nDataBytes % 4
      /\ GrabWord(dataIn) \in Word
    BY GrabWithinData DEF ReaderOK, Aligned
<1>2. CASE GrabOverflow(dataIn, TRUE)
  <2>1. /\ dataIn' = GrabDataIn(dataIn)
        /\ overflow'
        /\ bitsAvail' = GrabAvail(dataIn, bitsAvail)
        /\ inBufWord' = GrabWord(dataIn)
        /\ UNCHANGED <<buf, nDataBytes>>
      BY <1>2 DEF ReadMerged
  <2>2. Positioned'
      BY <1>1, <2>1 DEF GrabAvail, GrabDataIn, Positioned, ReaderOK, BufferOK
  <2>3. bitsAvail' \in 1 .. 32
      BY <2>1 DEF GrabAvail, ReaderOK
  <2>4. overflow' \in BOOLEAN
      BY <1>2, <2>1 DEF ReadMerged, GrabOverflow, ReaderOK
  <2>5. QED
      BY <1>1, <2>1, <2>2, <2>3, <2>4 DEF ReaderOK, Aligned, Current
<1>3. CASE ~GrabOverflow(dataIn, TRUE)
  <2> DEFINE k == n - bitsAvail
  <2>1. /\ dataIn' = GrabDataIn(dataIn)
        /\ bitsAvail' = 32 - k
        /\ inBufWord' = Shr(GrabWord(dataIn), k)
        /\ UNCHANGED <<buf, nDataBytes>>
        /\ bitsAvail < n
      BY <1>3 DEF ReadMerged
  <2>2. dataIn < nDataBytes
      BY <1>3 DEF GrabOverflow, ReaderOK, BufferOK
  <2>3. k \in 1 .. 31
      BY <2>1 DEF ReaderOK
  <2>4. dataIn' = dataIn + 4 /\ dataIn' <= nDataBytes
      BY <1>1, <2>1, <2>2 DEF GrabDataIn, ReaderOK, BufferOK
  <2>5. inBufWord' = Window(32 - k, 8 * dataIn + k)
    <3>1. 32 \in 0 .. 32 /\ 8 * dataIn \in Int /\ k \in 0 .. 32
        BY <2>3 DEF ReaderOK
    <3>2. GrabWord(dataIn) = Window(32, 8 * dataIn)
        BY <2>2, GrabbedWord DEF ReaderOK
    <3>3. Shr(Window(32, 8 * dataIn), k) = Window(32 - k, 8 * dataIn + k)
        BY ONLY <3>1, ShiftedWindow, Zenon
    <3>4. QED
        BY <2>1, <3>2, <3>3
  <2>6. 8 * dataIn + k = 8 * dataIn' - bitsAvail'
      BY <2>1, <2>3, <2>4 DEF ReaderOK
  <2>7. bitsAvail' \in 1 .. 32 /\ bitsAvail' <= 8 * dataIn'
      BY <2>1, <2>3, <2>4 DEF ReaderOK
  <2>8. AtData'
    <3>1. inBufWord' = Window(bitsAvail', 8 * dataIn' - bitsAvail')
        BY <2>1, <2>5, <2>6
    <3>2. inBufWord' = Window(bitsAvail, 8 * dataIn - bitsAvail)'
        BY <2>1, <3>1 DEF Window
    <3>3. QED
        BY <2>1, <2>4, <2>7, <3>2 DEF AtData
  <2>9. inBufWord' \in Word
    <3>1. k \in Nat
        BY <2>3
    <3>2. Shr(GrabWord(dataIn), k) \in Word
        BY <1>1, <3>1, ShiftedWord, Zenon
    <3>3. QED
        BY <2>1, <3>2
  <2>10. Positioned' /\ overflow' \in BOOLEAN
    <3>1. overflow' \in BOOLEAN
        BY <1>3 DEF ReadMerged, GrabOverflow, ReaderOK
    <3>2. QED
        BY <2>7, <3>1 DEF Positioned
  <2>11. QED
      BY <1>1, <2>1, <2>7, <2>8, <2>9, <2>10 DEF ReaderOK, Aligned, Current
<1>4. QED
    BY <1>2, <1>3

(* The bits at hand lie between the position and the next dword.           *)
LEMMA Distance ==
    ASSUME NEW d \in Nat, NEW a \in Nat, NEW p \in Nat, 8 * d - a = p
    PROVE  /\ a <= 8 * d
           /\ \A n \in Nat : d <= n =>
                 \A i \in 0 .. 31 : i < a => p + i \in 0 .. 8 * n - 1
OBVIOUS

(* A Seek inside the data, whatever the reader was before.                 *)
LEMMA SeekStep ==
    ASSUME BufferOK, NEW p \in 0 .. nDataBits, nDataBytes >= 4 \/ p = 0,
           SeekTo(p), overflow' \in BOOLEAN, UNCHANGED <<buf, nDataBytes>>
    PROVE  ReaderOK' /\ (p < nDataBits => AtData') /\ (p = nDataBits => AtEnd')
<1>1. /\ dataIn' \in 0 .. nDataBytes + 4
      /\ bitsAvail' \in 1 .. 32
      /\ dataIn' % 4 = nDataBytes % 4
      /\ p < nDataBits => dataIn' <= nDataBytes /\ 8 * dataIn' - bitsAvail' = p
      /\ p = nDataBits => dataIn' = nDataBytes + 4 /\ bitsAvail' = 1
    BY SeekPosition DEF SeekTo, BufferOK
<1>2. /\ p < nDataBits => inBufWord' = Window(bitsAvail', p)
      /\ p = nDataBits => inBufWord' = ZeroWord
    BY SeekPrefetch DEF SeekTo, BufferOK
<1>0. p \in Nat /\ nDataBytes \in Nat /\ dataIn' \in Nat /\ bitsAvail' \in Nat
    BY <1>1 DEF nDataBits, BufferOK
<1>3. CASE p < nDataBits
  <2>1. bitsAvail' <= 8 * dataIn' /\ dataIn' <= nDataBytes /\ 8 * dataIn' - bitsAvail' = p
    <3>1. dataIn' <= nDataBytes /\ 8 * dataIn' - bitsAvail' = p
        BY <1>1, <1>3
    <3>2. bitsAvail' <= 8 * dataIn'
        BY ONLY <1>0, <3>1, Distance
    <3>3. QED
        BY <3>1, <3>2
  <2>2. AtData'
    <3>1. inBufWord' = Window(bitsAvail', 8 * dataIn' - bitsAvail')
        BY <1>2, <1>3, <2>1
    <3>2. inBufWord' = Window(bitsAvail, 8 * dataIn - bitsAvail)'
        BY <3>1 DEF Window
    <3>3. QED
        BY <2>1, <3>2 DEF AtData
  <2>3. inBufWord' \in Word
    <3>1. \A i \in 0 .. 31 : i < bitsAvail' => p + i \in 0 .. nDataBits - 1
        BY ONLY <1>0, <2>1, Distance DEF nDataBits
    <3>2. bitsAvail' \in Int /\ p \in Int
        BY <1>1 DEF nDataBits, BufferOK
    <3>3. \A i \in 0 .. 31 : i < bitsAvail' => buf[p + i] \in Bit
        BY <3>1 DEF BufferOK
    <3>4. Window(bitsAvail', p) \in Word
        BY ONLY <3>2, <3>3, WindowIsWord, Zenon
    <3>5. QED
        BY <1>2, <1>3, <3>4
  <2>4. Positioned' /\ Current' /\ Aligned'
      BY <1>1, <2>1, <2>2 DEF Positioned, Current, Aligned
  <2>5. p # nDataBits
      BY <1>3, <1>0 DEF nDataBits
  <2>6. QED
      BY <1>1, <2>2, <2>3, <2>4, <2>5 DEF ReaderOK
<1>4. CASE p = nDataBits
  <2>1. dataIn' = nDataBytes + 4 /\ bitsAvail' = 1 /\ inBufWord' = ZeroWord
      BY <1>1, <1>2, <1>4
  <2>2. AtEnd'
      BY <2>1 DEF AtEnd, ZeroWord
  <2>3. Positioned'
      BY <2>1 DEF Positioned, BufferOK
  <2>4. QED
      BY <1>1, <1>4, <2>1, <2>2, <2>3, ZeroWordIsWord
      DEF ReaderOK, Aligned, Current, nDataBits, BufferOK, Word
<1>5. QED
    BY <1>3, <1>4 DEF nDataBits, BufferOK
-----------------------------------------------------------------------------
ResultOK == \E n \in 1 .. 32 : result \in [0 .. n - 1 -> Bit]

LEMMA ReadyInv ==
    ASSUME nDataBytes \in Sizes, buf \in [0 .. nDataBits - 1 -> Bit],
           ResultOK, stage = "ready", ReaderOK
    PROVE  IInv
BY DEF IInv, TypeOK, ReaderOK, Unread, PrefetchCurrent, Current, Stages, ResultOK

LEMMA ReadyReader == ASSUME IInv, stage = "ready" PROVE BufferOK /\ ReaderOK
BY BufferTyped DEF IInv, TypeOK, ReaderOK, PrefetchCurrent, Current

(* The constructor's Seek(0) over whatever the buffer holds.               *)
LEMMA InitInv == Init => IInv
<1> SUFFICES ASSUME Init PROVE IInv
    OBVIOUS
<1>1. nDataBytes \in Sizes /\ nDataBytes \in Nat \ {0} /\ nDataBytes <= MaxBytes
    BY SizesAssumption, MaxBytesAssumption DEF Init
<1>2. buf \in [0 .. nDataBits - 1 -> Bit]
  <2>1. PICK c \in Contents : buf = [i \in 0 .. nDataBits - 1 |-> c[i]]
      BY DEF Init
  <2>2. c \in [0 .. 8 * MaxBytes - 1 -> Bit]
      BY ContentsAssumption
  <2>3. \A i \in 0 .. nDataBits - 1 : i \in 0 .. 8 * MaxBytes - 1
      BY <1>1, MaxBytesAssumption DEF nDataBits
  <2>4. QED
      BY <2>1, <2>2, <2>3
<1>3. BufferOK /\ 0 \in 0 .. nDataBits /\ 0 < nDataBits
    BY <1>1, <1>2 DEF BufferOK, nDataBits
<1>4. /\ dataIn \in 0 .. nDataBytes + 4
      /\ bitsAvail \in 1 .. 32
      /\ dataIn % 4 = nDataBytes % 4
      /\ dataIn <= nDataBytes
      /\ 8 * dataIn - bitsAvail = 0
    BY <1>3, SeekPosition DEF Init, BufferOK
<1>5. inBufWord = Window(bitsAvail, 0)
    BY <1>3, SeekPrefetch DEF Init, BufferOK
<1>6. 8 * dataIn = bitsAvail
    BY <1>4
<1>7. AtData
    BY <1>4, <1>5, <1>6 DEF AtData
<1>8. inBufWord \in Word
  <2>1. \A i \in 0 .. 31 : i < bitsAvail => 0 + i \in 0 .. nDataBits - 1
      BY <1>1, <1>4 DEF nDataBits
  <2>2. \A i \in 0 .. 31 : i < bitsAvail => buf[0 + i] \in Bit
      BY <1>2, <2>1
  <2>3. QED
      BY <1>4, <1>5, <2>2, WindowIsWord
<1>9. ResultOK
  <2>1. result \in [0 .. 1 - 1 -> Bit]
      BY ZeroAssumption DEF Init
  <2>2. QED
      BY <2>1 DEF ResultOK
<1>10. TypeOK
    BY <1>1, <1>2, <1>4, <1>8, <1>9 DEF TypeOK, Init, Stages, ResultOK
<1>11. QED
    BY <1>4, <1>6, <1>7, <1>10 DEF IInv, Init, Aligned, Positioned, Unread, PrefetchCurrent

LEMMA UseInv == ASSUME IInv, Use PROVE IInv'
<1>1. AtData /\ ~overflow
    BY DEF IInv, Unread, Use
<1>2. AtData'
    BY <1>1 DEF Use, reader, AtData, Window
<1>3. TypeOK' /\ Aligned' /\ Positioned'
    BY DEF IInv, Use, reader, TypeOK, nDataBits, Word, Stages, Aligned, Positioned
<1>4. Unread' /\ PrefetchCurrent'
    BY <1>2 DEF Use, Unread, PrefetchCurrent
<1>5. QED
    BY <1>3, <1>4 DEF IInv

(* The buffer changes under the reader, and nothing else does.             *)
LEMMA FillInv == ASSUME IInv, Fill PROVE IInv'
<1>1. nDataBytes \in Nat /\ nDataBytes <= MaxBytes /\ MaxBytes \in Nat
    BY SizesAssumption, MaxBytesAssumption DEF IInv, TypeOK
<1>2. buf' \in [0 .. nDataBits - 1 -> Bit]
  <2>1. PICK c \in Contents, len \in 1 .. nDataBytes :
          buf' = [i \in 0 .. nDataBits - 1 |-> IF i < 8 * len THEN c[i] ELSE buf[i]]
      BY DEF Fill
  <2>2. c \in [0 .. 8 * MaxBytes - 1 -> Bit]
      BY ContentsAssumption
  <2>3. \A i \in 0 .. nDataBits - 1 : i \in 0 .. 8 * MaxBytes - 1
      BY <1>1 DEF nDataBits
  <2>4. buf \in [0 .. nDataBits - 1 -> Bit]
      BY DEF IInv, TypeOK
  <2>5. QED
      BY <2>1, <2>2, <2>3, <2>4
<1>3. TypeOK' /\ Aligned' /\ Positioned'
    BY <1>2 DEF IInv, Fill, reader, TypeOK, nDataBits, Word, Stages, Aligned, Positioned
<1>4. Unread' /\ PrefetchCurrent'
    BY DEF IInv, Fill, reader, Unread, PrefetchCurrent
<1>5. QED
    BY <1>3, <1>4 DEF IInv

(* The reader catches up with the buffer.                                  *)
LEMMA RewindInv == ASSUME IInv, Rewind PROVE IInv'
<1>1. BufferOK /\ ResultOK /\ nDataBytes \in Sizes
    BY BufferTyped DEF IInv, TypeOK, ResultOK
<1>2. 0 \in 0 .. nDataBits /\ overflow' \in BOOLEAN
    BY <1>1 DEF Rewind, IInv, TypeOK, BufferOK, nDataBits
<1>3. ReaderOK'
    BY <1>1, <1>2, SeekStep DEF Rewind
<1>4. nDataBytes' \in Sizes /\ (buf \in [0 .. nDataBits - 1 -> Bit])'
      /\ ResultOK' /\ stage' = "ready"
    BY <1>1 DEF Rewind, BufferOK, nDataBits, ResultOK
<1>5. QED
    BY <1>3, <1>4
    DEF IInv, TypeOK, ReaderOK, Unread, PrefetchCurrent, Current, Stages, ResultOK

LEMMA SeekInv == ASSUME IInv, NEW p \in SeekTargets, Seek(p) PROVE IInv'
<1>1. BufferOK /\ ResultOK /\ nDataBytes \in Sizes /\ overflow \in BOOLEAN
    BY BufferTyped DEF IInv, TypeOK, ResultOK
<1>2. ReaderOK'
  <2>1. CASE p \in 0 .. nDataBits
      BY <1>1, <2>1, SeekStep DEF Seek
  <2>2. CASE p \notin 0 .. nDataBits
    <3>1. nDataBits \in 0 .. nDataBits
        BY <1>1 DEF BufferOK, nDataBits
    <3>2. QED
        BY <1>1, <2>2, <3>1, SeekStep DEF Seek
  <2>3. QED
      BY <2>1, <2>2
<1>3. nDataBytes' \in Sizes /\ (buf \in [0 .. nDataBits - 1 -> Bit])'
      /\ ResultOK' /\ stage' = "ready"
    BY <1>1 DEF Seek, BufferOK, nDataBits, ResultOK
<1>4. QED
    BY <1>2, <1>3
    DEF IInv, TypeOK, ReaderOK, Unread, PrefetchCurrent, Current, Stages, ResultOK

LEMMA LowTyped ==
    ASSUME NEW w \in Word, NEW n \in 1 .. 32
    PROVE  Low(w, n) \in [0 .. n - 1 -> Bit]
<1>1. \A i \in 0 .. n - 1 : i \in 0 .. 31
    OBVIOUS
<1>2. QED
    BY <1>1 DEF Low, Word

LEMMA ReadFromWordInv ==
    ASSUME IInv, NEW n \in 1 .. 32, ReadFromWord(n) PROVE IInv'
<1>1. BufferOK /\ ReaderOK /\ nDataBytes \in Sizes
    BY ReadyReader DEF ReadFromWord, IInv, TypeOK
<1>2. ReaderOK'
  <2>1. CASE bitsAvail = n /\ FetchNext
      BY <1>1, <2>1, FetchNextStep DEF ReadFromWord
  <2>2. CASE bitsAvail # n /\ UNCHANGED <<dataIn, overflow>>
    <3>1. n < bitsAvail /\ bitsAvail' = bitsAvail - n /\ inBufWord' = Shr(inBufWord, n)
        BY <1>1, <2>2 DEF ReadFromWord, ReaderOK
    <3>2. QED
        BY <1>1, <2>2, <3>1, ShiftStep DEF ReadFromWord
  <2>3. QED
      BY <2>1, <2>2 DEF ReadFromWord
<1>3. ResultOK'
    BY <1>1, LowTyped DEF ReadFromWord, ResultOK, ReaderOK
<1>4. nDataBytes' \in Sizes /\ (buf \in [0 .. nDataBits - 1 -> Bit])' /\ stage' = "ready"
    BY <1>1 DEF ReadFromWord, BufferOK, nDataBits
<1>5. QED
    BY <1>2, <1>3, <1>4
    DEF IInv, TypeOK, ReaderOK, Unread, PrefetchCurrent, Current, Stages, ResultOK

(* ReadOneBit is ReadUBitLong(1), written out again.                       *)
LEMMA OneBitIsWidthOne == ASSUME IInv, ReadOneBit PROVE ReadFromWord(1)
BY DEF IInv, TypeOK, ReadOneBit, ReadFromWord

LEMMA ReadMergedInv ==
    ASSUME IInv, NEW n \in 1 .. 32, ReadMerged(n) PROVE IInv'
<1>1. BufferOK /\ ReaderOK /\ nDataBytes \in Sizes
    BY ReadyReader DEF ReadMerged, IInv, TypeOK
<1>2. ReaderOK'
    BY <1>1, MergeStep
<1>3. result' \in [0 .. n - 1 -> Bit]
  <2>1. CASE result' = [i \in 0 .. n - 1 |-> Zero]
      BY <2>1, ZeroAssumption
  <2>2. CASE result' = MergedBits(n)
    <3>1. GrabWord(dataIn) \in Word /\ inBufWord \in Word
        BY <1>1, GrabWithinData DEF ReaderOK, Aligned
    <3>2. \A i \in 0 .. n - 1 : /\ i \in 0 .. 31
                                /\ ~(i < bitsAvail) => i - bitsAvail \in 0 .. 31
        BY <1>1 DEF ReaderOK
    <3>3. \A i \in 0 .. n - 1 : /\ inBufWord[i] \in Bit
                                /\ ~(i < bitsAvail) => GrabWord(dataIn)[i - bitsAvail] \in Bit
        BY <3>1, <3>2 DEF Word
    <3>4. \A i \in 0 .. n - 1 :
              Or(inBufWord[i], IF i < bitsAvail THEN Zero
                               ELSE GrabWord(dataIn)[i - bitsAvail]) \in Bit
      <4> TAKE i \in 0 .. n - 1
      <4> DEFINE b == IF i < bitsAvail THEN Zero ELSE GrabWord(dataIn)[i - bitsAvail]
      <4>1. b \in Bit /\ inBufWord[i] \in Bit
        <5>1. /\ inBufWord[i] \in Bit
              /\ ~(i < bitsAvail) => GrabWord(dataIn)[i - bitsAvail] \in Bit
            BY <3>3, Zenon
        <5>2. CASE i < bitsAvail
            BY <5>1, <5>2, ZeroAssumption, Zenon
        <5>3. CASE ~(i < bitsAvail)
            BY <5>1, <5>3, Zenon
        <5>4. QED
            BY <5>2, <5>3
      <4>2. Or(inBufWord[i], b) = inBufWord[i] \/ Or(inBufWord[i], b) = b
          BY DEF Or
      <4>3. QED
          BY <4>1, <4>2
    <3>5. QED
        BY <2>2, <3>4 DEF MergedBits
  <2>3. QED
      BY <2>1, <2>2 DEF ReadMerged
<1>4. nDataBytes' \in Sizes /\ (buf \in [0 .. nDataBits - 1 -> Bit])'
      /\ ResultOK' /\ stage' = "ready"
    BY <1>1, <1>3 DEF ReadMerged, BufferOK, nDataBits, ResultOK
<1>5. QED
    BY <1>2, <1>4
    DEF IInv, TypeOK, ReaderOK, Unread, PrefetchCurrent, Current, Stages, ResultOK

LEMMA StutterInv == ASSUME IInv, UNCHANGED vars PROVE IInv'
BY DEF IInv, vars, TypeOK, nDataBits, Word, Stages, Aligned, Positioned, Unread,
       PrefetchCurrent, AtData, AtEnd, Window, ZeroWord

LEMMA NextInv == IInv /\ [Next]_vars => IInv'
<1> SUFFICES ASSUME IInv, [Next]_vars PROVE IInv'
    OBVIOUS
<1>1. CASE Use
    BY <1>1, UseInv
<1>2. CASE Fill
    BY <1>2, FillInv
<1>3. CASE Rewind
    BY <1>3, RewindInv
<1>4. CASE \E p \in SeekTargets : Seek(p)
    BY <1>4, SeekInv
<1>5. CASE ReadOneBit
  <2>1. 1 \in 1 .. 32
      OBVIOUS
  <2>2. QED
      BY <1>5, <2>1, OneBitIsWidthOne, ReadFromWordInv
<1>6. CASE \E n \in Widths : ReadFromWord(n) \/ ReadMerged(n)
    BY <1>6, WidthsAssumption, ReadFromWordInv, ReadMergedInv
<1>7. CASE UNCHANGED vars
    BY <1>7, StutterInv
<1>8. QED
    BY <1>1, <1>2, <1>3, <1>4, <1>5, <1>6, <1>7 DEF Next

(* The reader is where it says it is, in every reachable state.            *)
THEOREM Invariant == Spec => []IInv
BY InitInv, NextInv, PTL DEF Spec

(* TypeOK for every buffer: there is always a bit at hand and the next     *)
(* dword is never more than one beyond the data.                           *)
THEOREM TypeCorrect == Spec => []TypeOK
<1>1. IInv => TypeOK
    BY DEF IInv
<1>2. QED
    BY <1>1, Invariant, PTL

(* The assertion of GrabNextDWord never fails: no fetch straddles the end  *)
(* of the buffer, whatever its size and however the reader was moved.      *)
THEOREM FetchesStayInBounds == Spec => []FetchInBounds
<1>1. IInv => FetchInBounds
  <2>1. ASSUME IInv PROVE FetchInBounds
    <3>1. BufferOK /\ dataIn \in 0 .. nDataBytes + 4 /\ dataIn % 4 = nDataBytes % 4
        BY <2>1, BufferTyped DEF IInv, TypeOK, Aligned
    <3>2. dataIn < nDataBytes => dataIn + 4 <= nDataBytes
        BY <3>1, GrabWithinData
    <3>3. dataIn + 4 <= nDataBytes => dataIn + 3 < nDataBytes
        BY <3>1 DEF BufferOK
    <3>4. QED
        BY <3>2, <3>3 DEF FetchInBounds
  <2>2. QED
      BY <2>1
<1>2. QED
    BY <1>1, Invariant, PTL

(* No read sees a bit that was in the buffer before it was filled.         *)
THEOREM PrefetchIsCurrent == Spec => []PrefetchCurrent
<1>1. IInv => PrefetchCurrent
    BY DEF IInv
<1>2. QED
    BY <1>1, Invariant, PTL
-----------------------------------------------------------------------------
(* Refinement: where the reader is, before and after a step.               *)
LEMMA Tell ==
    ASSUME BufferOK, ReaderOK
    PROVE  /\ GetNumBitsRead \in 0 .. nDataBits
           /\ AtData => /\ GetNumBitsRead = 8 * dataIn - bitsAvail
                        /\ GetNumBitsRead < nDataBits
           /\ dataIn > nDataBytes => GetNumBitsRead = nDataBits
<1>1. /\ nDataBytes \in Nat /\ dataIn \in Nat /\ bitsAvail \in Nat
      /\ dataIn % 4 = nDataBytes % 4 /\ bitsAvail \in 1 .. 32
      /\ dataIn \in 0 .. nDataBytes + 4
    BY DEF BufferOK, ReaderOK, Aligned
<1>2. GetNumBitsRead = IF 8 * dataIn - bitsAvail < nDataBits
                       THEN 8 * dataIn - bitsAvail ELSE nDataBits
    BY <1>1, TellIsDistance DEF GetNumBitsRead, nHead
<1>3. dataIn > nDataBytes => dataIn = nDataBytes + 4
    BY <1>1, GrabWithinData
<1>4. dataIn <= nDataBytes => bitsAvail <= 8 * dataIn
    BY DEF ReaderOK, Positioned
<1>5. QED
    BY <1>1, <1>2, <1>3, <1>4 DEF AtData, nDataBits

LEMMA TellNext ==
    ASSUME BufferOK, UNCHANGED nDataBytes, ReaderOK'
    PROVE  /\ GetNumBitsRead' \in 0 .. nDataBits
           /\ dataIn' <= nDataBytes =>
                 /\ GetNumBitsRead' = 8 * dataIn' - bitsAvail'
                 /\ GetNumBitsRead' < nDataBits
           /\ dataIn' > nDataBytes => GetNumBitsRead' = nDataBits
<1>1. PICK n \in Nat, d \in Nat, a \in Nat :
        n = nDataBytes /\ d = dataIn' /\ a = bitsAvail'
    BY DEF BufferOK, ReaderOK
<1>2. /\ d \in 0 .. n + 4 /\ a \in 1 .. 32 /\ d % 4 = n % 4
      /\ d <= n => a <= 8 * d
    BY <1>1 DEF ReaderOK, Aligned, Positioned
<1>3. GetNumBitsRead' = IF 8 * d - a < 8 * n THEN 8 * d - a ELSE 8 * n
  <2>1. (d \div 4 - 1) * 32 + (32 - a) + 8 * (n % 4) = 8 * d - a
      BY <1>2, TellIsDistance
  <2>2. nDataBytes' = n /\ nDataBits' = 8 * n
      BY <1>1 DEF nDataBits
  <2>3. GetNumBitsRead' =
          LET ofs == (d \div 4 - 1) * 32 + (32 - a) + 8 * (n % 4)
          IN  IF ofs < 8 * n THEN ofs ELSE 8 * n
      BY <1>1, <2>2 DEF GetNumBitsRead, nHead
  <2>4. QED
      BY <2>1, <2>3
<1>4. d > n => d = n + 4
    BY <1>2
<1>5. nDataBits = 8 * n
    BY <1>1 DEF nDataBits
<1>6. LET g == IF 8 * d - a < 8 * n THEN 8 * d - a ELSE 8 * n
      IN  /\ g \in 0 .. 8 * n
          /\ d <= n => g = 8 * d - a /\ g < 8 * n
          /\ d > n => g = 8 * n
  <2>1. d > n => 8 * d - a >= 8 * n
      BY <1>2, <1>4
  <2>2. d <= n => 8 * d - a >= 0 /\ 8 * d - a < 8 * n
      BY <1>2
  <2>3. QED
      BY <2>1, <2>2, <1>2
<1>7. QED
    BY <1>1, <1>3, <1>5, <1>6

LEMMA ReadyReaderNext ==
    ASSUME IInv', stage' = "ready"
    PROVE  ReaderOK'
BY DEF IInv, TypeOK, ReaderOK, PrefetchCurrent, Current

LEMMA RefineInit == Init => Stream!Init
<1> SUFFICES ASSUME Init PROVE Stream!Init
    OBVIOUS
<1>1. IInv
    BY InitInv
<1>2. BufferOK /\ ReaderOK /\ AtData
    BY <1>1, BufferTyped
    DEF IInv, TypeOK, Init, Unread, ReaderOK, Current
<1>3. 8 * dataIn = bitsAvail
    BY <1>1 DEF IInv, Unread, Init
<1>4. GetNumBitsRead = 0
    BY <1>2, <1>3, Tell DEF ReaderOK, BufferOK
<1>5. nDataBits \in Nat /\ ~overflow /\ ~Exhausted
    BY <1>2 DEF BufferOK, nDataBits, Init, Exhausted
<1>6. result = [i \in 0 .. 1 - 1 |-> Zero]
    BY DEF Init
<1>7. QED
    BY <1>2, <1>4, <1>5, <1>6 DEF Stream!Init, Stream!Bits, Stream!Zeros, BufferOK

LEMMA RefineUse == ASSUME IInv, Use PROVE UNCHANGED Stream!vars
BY DEF Use, reader, Stream!vars, nDataBits, GetNumBitsRead, nHead, Exhausted, ZeroWord

LEMMA RefineFill == ASSUME IInv, IInv', Fill PROVE Stream!Fill
<1>1. BufferOK
    BY BufferTyped DEF IInv
<1>2. /\ ~overflow /\ dataIn <= nDataBytes /\ 8 * dataIn = bitsAvail
      /\ dataIn % 4 = nDataBytes % 4 /\ dataIn \in Nat /\ bitsAvail \in Nat
      /\ AtData /\ ReaderOK /\ nDataBytes \in Nat
    BY <1>1 DEF IInv, Unread, Fill, TypeOK, Aligned, ReaderOK, Current, BufferOK
<1>3. GetNumBitsRead = 0
    BY <1>1, <1>2, Tell
<1>4. buf' \in [0 .. nDataBits - 1 -> Bit]
    BY DEF IInv, TypeOK, Fill, nDataBits
<1>5. UNCHANGED <<nDataBits, GetNumBitsRead, overflow, Exhausted, result>>
    BY DEF Fill, reader, nDataBits, GetNumBitsRead, nHead, Exhausted, ZeroWord
<1>6. QED
    BY <1>3, <1>4, <1>5 DEF Stream!Fill, Stream!Bits

LEMMA RefineRewind == ASSUME IInv, IInv', Rewind PROVE UNCHANGED Stream!vars
<1>0. BufferOK
    BY BufferTyped DEF IInv
<1>1. /\ ~overflow /\ dataIn <= nDataBytes /\ 8 * dataIn = bitsAvail
      /\ dataIn \in Nat /\ dataIn % 4 = nDataBytes % 4 /\ bitsAvail \in Nat
  <2>1. nDataBytes \in Nat
      BY <1>0 DEF BufferOK
  <2>2. QED
      BY <2>1 DEF IInv, Unread, Rewind, TypeOK, Aligned
<1>2. GetNumBitsRead = 0
    BY <1>0, <1>1, TellIsDistance DEF GetNumBitsRead, nHead, nDataBits, BufferOK
<1>3. ReaderOK' /\ UNCHANGED <<buf, nDataBytes, overflow, result>>
    BY ReadyReaderNext DEF Rewind
<1>4. dataIn' <= nDataBytes /\ 8 * dataIn' - bitsAvail' = 0
  <2>1. 0 \in 0 .. nDataBits /\ 0 < nDataBits
      BY <1>0 DEF BufferOK, nDataBits
  <2>2. QED
      BY <1>0, <1>1, <2>1, SeekPosition DEF Rewind, SeekTo, BufferOK
<1>5. GetNumBitsRead' = 0
    BY <1>0, <1>3, <1>4, TellNext
<1>6. QED
    BY <1>1, <1>2, <1>3, <1>5 DEF Stream!vars, nDataBits, Exhausted

LEMMA RefineSeek ==
    ASSUME IInv, NEW p \in SeekTargets, Seek(p)
    PROVE  Stream!Seek(p)
<1>1. BufferOK /\ overflow \in BOOLEAN
    BY BufferTyped DEF IInv, TypeOK
<1>2. ASSUME NEW q \in 0 .. nDataBits, SeekTo(q), overflow' \in BOOLEAN
      PROVE  /\ GetNumBitsRead' = q
             /\ Exhausted' = (overflow' /\ GetNumBitsRead' = nDataBits)
  <2>1. UNCHANGED <<buf, nDataBytes>> /\ nDataBytes >= 4
      BY DEF Seek
  <2>2. ReaderOK' /\ (q < nDataBits => AtData') /\ (q = nDataBits => AtEnd')
      BY <1>1, <1>2, <2>1, SeekStep
  <2>3. /\ dataIn' <= nDataBytes => /\ GetNumBitsRead' = 8 * dataIn' - bitsAvail'
                                   /\ GetNumBitsRead' < nDataBits
        /\ dataIn' > nDataBytes => GetNumBitsRead' = nDataBits
      BY <1>1, <2>1, <2>2, TellNext
  <2>4. /\ q < nDataBits => dataIn' <= nDataBytes /\ 8 * dataIn' - bitsAvail' = q
        /\ q = nDataBits => dataIn' = nDataBytes + 4
      BY <1>1, <1>2, <2>1, SeekPosition DEF SeekTo, BufferOK
  <2>5. dataIn' \in Int /\ nDataBytes \in Nat /\ q \in Nat /\ nDataBits \in Nat
      BY <1>1, <2>2 DEF BufferOK, ReaderOK, nDataBits
  <2>6. nDataBytes + 4 > nDataBytes
      BY <2>5
  <2>7. CASE q < nDataBits
    <3>1. GetNumBitsRead' = q
        BY <2>3, <2>4, <2>7
    <3>2. ~(dataIn' > nDataBytes) /\ q # nDataBits
        BY <2>4, <2>5, <2>7
    <3>3. QED
        BY <2>1, <3>1, <3>2 DEF Exhausted
  <2>8. CASE q = nDataBits
    <3>1. GetNumBitsRead' = q
        BY <2>3, <2>4, <2>6, <2>8
    <3>2. inBufWord' = ZeroWord /\ dataIn' > nDataBytes
        BY <2>2, <2>4, <2>6, <2>8 DEF AtEnd, ZeroWord
    <3>3. Exhausted' = overflow'
        BY <1>2, <2>1, <3>2 DEF Exhausted, ZeroWord
    <3>4. QED
        BY <1>2, <2>8, <3>1, <3>3
  <2>9. QED
      BY <2>5, <2>7, <2>8
<1>3. UNCHANGED <<buf, nDataBits, result>>
    BY DEF Seek, nDataBits
<1>4. CASE p \in 0 .. nDataBits
  <2>1. SeekTo(p) /\ overflow' = overflow
      BY <1>4 DEF Seek
  <2>2. QED
      BY <1>1, <1>2, <1>3, <1>4, <2>1 DEF Stream!Seek
<1>5. CASE p \notin 0 .. nDataBits
  <2>1. SeekTo(nDataBits) /\ overflow' = TRUE
      BY <1>5 DEF Seek
  <2>2. nDataBits \in 0 .. nDataBits
      BY <1>1 DEF BufferOK, nDataBits
  <2>3. QED
      BY <1>2, <1>3, <1>5, <2>1, <2>2 DEF Stream!Seek
<1>6. QED
    BY <1>4, <1>5

(* A reader that has run out returns zeros, and stays where it is.         *)
LEMMA ZerosFromZeros ==
    ASSUME NEW n \in 1 .. 32, bitsAvail \in 1 .. 32
    PROVE  /\ Low(ZeroWord, n) = [i \in 0 .. n - 1 |-> Zero]
           /\ inBufWord = ZeroWord /\ GrabWord(dataIn) = ZeroWord =>
                MergedBits(n) = [i \in 0 .. n - 1 |-> Zero]
<1>1. \A i \in 0 .. n - 1 : i \in 0 .. 31
    OBVIOUS
<1>2. Low(ZeroWord, n) = [i \in 0 .. n - 1 |-> Zero]
    BY <1>1 DEF Low, ZeroWord
<1>3. ASSUME inBufWord = ZeroWord, GrabWord(dataIn) = ZeroWord
      PROVE  MergedBits(n) = [i \in 0 .. n - 1 |-> Zero]
    <2>1. \A i \in 0 .. n - 1 : inBufWord[i] = Zero
        BY <1>1, <1>3 DEF ZeroWord
    <2>2. \A i \in 0 .. n - 1 : Or(Zero, IF i < bitsAvail THEN Zero
                                         ELSE GrabWord(dataIn)[i - bitsAvail]) =
                                (IF i < bitsAvail THEN Zero
                                 ELSE GrabWord(dataIn)[i - bitsAvail])
        BY DEF Or
    <2>3. \A i \in 0 .. n - 1 :
              (IF i < bitsAvail THEN Zero ELSE GrabWord(dataIn)[i - bitsAvail]) = Zero
      <3>1. \A i \in 0 .. n - 1 : ~(i < bitsAvail) => i - bitsAvail \in 0 .. 31
          OBVIOUS
      <3>2. QED
          BY <1>3, <3>1 DEF ZeroWord
    <2>4. QED
        BY <2>1, <2>2, <2>3 DEF MergedBits
<1>4. QED
    BY <1>2, <1>3

(* The bits at hand are the next bits of the buffer.                       *)
LEMMA NextBits ==
    ASSUME BufferOK, ReaderOK, AtData, NEW n \in 1 .. 32, n <= bitsAvail
    PROVE  Low(inBufWord, n) =
             [i \in 0 .. n - 1 |-> buf[(8 * dataIn - bitsAvail) + i]]
<1>1. \A i \in 0 .. n - 1 : i \in 0 .. 31 /\ i < bitsAvail
    BY DEF ReaderOK
<1>2. QED
    BY <1>1 DEF Low, AtData, Window

LEMMA RefineReadFromWord ==
    ASSUME IInv, IInv', NEW n \in 1 .. 32, ReadFromWord(n)
    PROVE  Stream!Read(n) \/ Stream!ReadPastEnd(n) \/ Stream!ReadAfterOverflow(n)
<1>1. BufferOK /\ ReaderOK /\ UNCHANGED <<buf, nDataBytes, nDataBits>> /\ n <= bitsAvail
    BY ReadyReader DEF ReadFromWord, nDataBits, ReaderOK
<1>2. ReaderOK'
    BY ReadyReaderNext DEF ReadFromWord
<1>3. /\ nDataBytes \in Nat /\ dataIn \in Nat /\ bitsAvail \in 1 .. 32
      /\ nDataBits = 8 * nDataBytes
    BY <1>1 DEF BufferOK, ReaderOK, nDataBits
<1>4. result' = Low(inBufWord, n) /\ result' \in [0 .. n - 1 -> Bit]
    BY <1>1, LowTyped DEF ReadFromWord, ReaderOK
<1>5. CASE ~overflow /\ AtData
  <2> DEFINE p == 8 * dataIn - bitsAvail
  <2>1. GetNumBitsRead = p /\ dataIn <= nDataBytes
      BY <1>1, <1>5, Tell DEF AtData
  <2>2. p + n <= nDataBits
      BY <1>1, <1>3, <2>1
  <2>3. result' = [i \in 0 .. n - 1 |-> buf[p + i]]
      BY <1>1, <1>4, <1>5, NextBits
  <2>4. ~overflow' /\ GetNumBitsRead' = p + n
    <3>1. CASE bitsAvail # n
      <4>1. /\ bitsAvail' = bitsAvail - n /\ dataIn' = dataIn /\ overflow' = overflow
          BY <3>1 DEF ReadFromWord
      <4>2. GetNumBitsRead' = 8 * dataIn - (bitsAvail - n)
          BY <1>1, <1>2, <2>1, <4>1, TellNext
      <4>3. QED
          BY <1>3, <1>5, <4>1, <4>2
    <3>2. CASE bitsAvail = n /\ dataIn < nDataBytes
      <4>0. FetchNext
          BY <3>2 DEF ReadFromWord
      <4>1. dataIn' = dataIn + 4 /\ bitsAvail' = 32 /\ ~overflow'
        <5>1. GrabDataIn(dataIn) = dataIn + 4 /\ GrabAvail(dataIn, 32) = 32
            BY <1>3, <3>2 DEF GrabDataIn, GrabAvail
        <5>2. ~GrabOverflow(dataIn, FALSE)
            BY <1>3, <1>5, <3>2 DEF GrabOverflow
        <5>3. QED
            BY <4>0, <5>1, <5>2 DEF FetchNext
      <4>2. dataIn' <= nDataBytes
          BY <1>1, <3>2, <4>1, GrabWithinData DEF ReaderOK, Aligned
      <4>3. GetNumBitsRead' = 8 * (dataIn + 4) - 32
          BY <1>1, <1>2, <4>1, <4>2, TellNext
      <4>4. QED
          BY <1>3, <1>5, <3>2, <4>1, <4>3
    <3>3. CASE bitsAvail = n /\ dataIn = nDataBytes
      <4>0. FetchNext
          BY <3>3 DEF ReadFromWord
      <4>1. dataIn' = nDataBytes + 4 /\ ~overflow'
        <5>1. GrabDataIn(dataIn) = nDataBytes + 4
            BY <1>3, <3>3 DEF GrabDataIn
        <5>2. ~GrabOverflow(dataIn, FALSE)
            BY <1>3, <1>5, <3>3 DEF GrabOverflow
        <5>3. QED
            BY <4>0, <5>1, <5>2 DEF FetchNext
      <4>2. dataIn' > nDataBytes
          BY <1>3, <4>1
      <4>3. GetNumBitsRead' = nDataBits
          BY <1>1, <1>2, <4>2, TellNext
      <4>4. QED
          BY <1>3, <3>3, <4>1, <4>3
    <3>4. QED
        BY <1>3, <2>1, <3>1, <3>2, <3>3
  <2>5. Exhausted' = Exhausted /\ overflow' = overflow
      BY <1>1, <1>2, <1>5, <2>4 DEF Exhausted, ReaderOK
  <2>6. QED
      BY <1>1, <1>5, <2>1, <2>2, <2>3, <2>4, <2>5 DEF Stream!Read, Stream!Slice
<1>6. CASE ~overflow /\ AtEnd
  <2>1. GetNumBitsRead = nDataBits
      BY <1>1, <1>3, <1>6, Tell DEF AtEnd
  <2>2. nDataBits + n > nDataBits
      BY <1>3
  <2>3. bitsAvail = n /\ dataIn > nDataBytes
      BY <1>1, <1>3, <1>6 DEF AtEnd
  <2>4. overflow' /\ dataIn' = dataIn /\ inBufWord' = ZeroWord
    <3>1. FetchNext
        BY <2>3 DEF ReadFromWord
    <3>2. GrabOverflow(dataIn, FALSE) /\ GrabDataIn(dataIn) = dataIn
          /\ GrabWord(dataIn) = ZeroWord
        BY <1>3, <2>3 DEF GrabOverflow, GrabDataIn, GrabWord
    <3>3. QED
        BY <3>1, <3>2 DEF FetchNext
  <2>5. GetNumBitsRead' = nDataBits
      BY <1>1, <1>2, <2>3, <2>4, TellNext
  <2>6. Exhausted'
      BY <1>1, <2>3, <2>4 DEF Exhausted, ZeroWord
  <2>7. QED
      BY <1>1, <1>4, <1>6, <2>1, <2>2, <2>4, <2>5, <2>6
      DEF Stream!ReadPastEnd, Stream!Bits
<1>7. CASE overflow
  <2>1. overflow'
      BY <1>7 DEF ReadFromWord, FetchNext, GrabOverflow
  <2>2. GetNumBitsRead' \in 0 .. nDataBits /\ Exhausted' \in BOOLEAN
      BY <1>1, <1>2, TellNext DEF Exhausted, ReaderOK
  <2>3. ASSUME Exhausted
        PROVE  /\ Exhausted'
               /\ GetNumBitsRead' = nDataBits
               /\ result' = [i \in 0 .. n - 1 |-> Zero]
    <3>1. dataIn > nDataBytes /\ inBufWord = ZeroWord
        BY <2>3 DEF Exhausted
    <3>2. dataIn' = dataIn /\ inBufWord' = ZeroWord
      <4>1. n \in Nat /\ Shr(ZeroWord, n) = ZeroWord
          BY ShiftedZeros
      <4>2. GrabDataIn(dataIn) = dataIn /\ GrabWord(dataIn) = ZeroWord
          BY <1>3, <3>1 DEF GrabDataIn, GrabWord
      <4>3. QED
          BY <3>1, <4>1, <4>2 DEF ReadFromWord, FetchNext
    <3>3. Exhausted'
        BY <1>1, <2>1, <3>1, <3>2 DEF Exhausted, ZeroWord
    <3>4. GetNumBitsRead' = nDataBits
        BY <1>1, <1>2, <3>1, <3>2, TellNext
    <3>5. QED
        BY <1>3, <1>4, <3>1, <3>3, <3>4, ZerosFromZeros
  <2>4. QED
      BY <1>1, <1>4, <1>7, <2>1, <2>2, <2>3
      DEF Stream!ReadAfterOverflow, Stream!Bits, Stream!Zeros
<1>8. QED
    BY <1>1, <1>5, <1>6, <1>7 DEF ReaderOK, Current

(* The merge puts the next dword's low bits above the bits at hand.        *)
LEMMA NextBitsMerged ==
    ASSUME BufferOK, ReaderOK, AtData, dataIn < nDataBytes,
           NEW n \in 1 .. 32, bitsAvail < n
    PROVE  MergedBits(n) =
             [i \in 0 .. n - 1 |-> buf[(8 * dataIn - bitsAvail) + i]]
<1> DEFINE p == 8 * dataIn - bitsAvail
<1>1. dataIn \in Nat /\ bitsAvail \in 1 .. 32 /\ GrabWord(dataIn) = Window(32, 8 * dataIn)
    BY GrabbedWord DEF ReaderOK
<1>2. ASSUME NEW i \in 0 .. n - 1
      PROVE  Or(inBufWord[i], IF i < bitsAvail THEN Zero
                              ELSE GrabWord(dataIn)[i - bitsAvail]) = buf[p + i]
  <2>1. CASE i < bitsAvail
    <3>1. i \in 0 .. 31
        BY <1>1, <2>1
    <3>2. inBufWord[i] = buf[p + i]
        BY <2>1, <3>1 DEF AtData, Window
    <3>3. QED
        BY <2>1, <3>2 DEF Or
  <2>2. CASE ~(i < bitsAvail)
    <3>1. i \in 0 .. 31 /\ i - bitsAvail \in 0 .. 31 /\ i - bitsAvail < 32
          /\ 8 * dataIn + (i - bitsAvail) = p + i
        BY <1>1, <2>2
    <3>2. inBufWord[i] = Zero
        BY <2>2, <3>1 DEF AtData, Window
    <3>3. GrabWord(dataIn)[i - bitsAvail] = buf[p + i]
        BY <1>1, <3>1 DEF Window
    <3>4. QED
        BY <2>2, <3>2, <3>3 DEF Or
  <2>3. QED
      BY <2>1, <2>2
<1>3. QED
    BY <1>2 DEF MergedBits

LEMMA RefineReadMerged ==
    ASSUME IInv, IInv', NEW n \in 1 .. 32, ReadMerged(n)
    PROVE  Stream!Read(n) \/ Stream!ReadPastEnd(n) \/ Stream!ReadAfterOverflow(n)
<1>1. BufferOK /\ ReaderOK /\ UNCHANGED <<buf, nDataBytes, nDataBits>> /\ bitsAvail < n
    BY ReadyReader DEF ReadMerged, nDataBits
<1>2. ReaderOK'
    BY ReadyReaderNext DEF ReadMerged
<1>3. /\ nDataBytes \in Nat /\ dataIn \in Nat /\ bitsAvail \in 1 .. 32
      /\ nDataBits = 8 * nDataBytes
    BY <1>1 DEF BufferOK, ReaderOK, nDataBits
<1>4. ASSUME GrabOverflow(dataIn, TRUE)
      PROVE  /\ overflow'
             /\ result' = [i \in 0 .. n - 1 |-> Zero]
             /\ dataIn >= nDataBytes => Exhausted' /\ GetNumBitsRead' = nDataBits
  <2>1. /\ overflow' /\ result' = [i \in 0 .. n - 1 |-> Zero]
        /\ inBufWord' = GrabWord(dataIn) /\ dataIn' = GrabDataIn(dataIn)
      BY <1>4 DEF ReadMerged
  <2>2. ASSUME dataIn >= nDataBytes
        PROVE  Exhausted' /\ GetNumBitsRead' = nDataBits
    <3>1. GrabWord(dataIn) = ZeroWord /\ GrabDataIn(dataIn) > nDataBytes
        BY <1>3, <2>2 DEF GrabWord, GrabDataIn
    <3>2. dataIn' > nDataBytes /\ inBufWord' = ZeroWord
        BY <2>1, <3>1
    <3>3. GetNumBitsRead' = nDataBits
        BY <1>1, <1>2, <3>2, TellNext
    <3>4. Exhausted'
        BY <1>1, <2>1, <3>2 DEF Exhausted, ZeroWord
    <3>5. QED
        BY <3>3, <3>4
  <2>3. QED
      BY <2>1, <2>2
<1>5. [i \in 0 .. n - 1 |-> Zero] \in [0 .. n - 1 -> Bit]
    BY ZeroAssumption
<1>6. CASE ~overflow /\ AtData /\ dataIn < nDataBytes
  <2> DEFINE p == 8 * dataIn - bitsAvail
  <2>1. GetNumBitsRead = p
      BY <1>1, <1>6, Tell
  <2>2. ~GrabOverflow(dataIn, TRUE)
      BY <1>3, <1>6 DEF GrabOverflow
  <2>3. /\ ~overflow' /\ result' = MergedBits(n) /\ dataIn' = GrabDataIn(dataIn)
        /\ bitsAvail' = 32 - (n - bitsAvail)
      BY <2>2 DEF ReadMerged
  <2>4. dataIn' = dataIn + 4 /\ dataIn + 4 <= nDataBytes
    <3>1. GrabDataIn(dataIn) = dataIn + 4
        BY <1>3, <1>6 DEF GrabDataIn
    <3>2. dataIn + 4 <= nDataBytes
        BY <1>1, <1>6, GrabWithinData DEF ReaderOK, Aligned
    <3>3. QED
        BY <2>3, <3>1, <3>2
  <2>5. GetNumBitsRead' = p + n
    <3>1. GetNumBitsRead' = 8 * (dataIn + 4) - (32 - (n - bitsAvail))
        BY <1>1, <1>2, <2>3, <2>4, TellNext
    <3>2. QED
        BY <1>3, <3>1
  <2>6. p + n <= nDataBits
      BY <1>1, <1>3, <2>4
  <2>7. result' = [i \in 0 .. n - 1 |-> buf[p + i]]
      BY <1>1, <1>6, <2>3, NextBitsMerged
  <2>8. Exhausted' = Exhausted /\ overflow' = overflow
      BY <1>1, <1>2, <1>6, <2>3 DEF Exhausted, ReaderOK
  <2>9. QED
      BY <1>1, <1>6, <2>1, <2>5, <2>6, <2>7, <2>8 DEF Stream!Read, Stream!Slice
<1>7. CASE ~overflow /\ AtData /\ dataIn = nDataBytes
  <2>1. GetNumBitsRead = 8 * dataIn - bitsAvail
      BY <1>1, <1>7, Tell
  <2>2. GetNumBitsRead + n > nDataBits
      BY <1>1, <1>3, <1>7, <2>1
  <2>3. GrabOverflow(dataIn, TRUE)
      BY <1>7 DEF GrabOverflow
  <2>4. dataIn >= nDataBytes
      BY <1>3, <1>7
  <2>5. QED
      BY <1>1, <1>4, <1>5, <1>7, <2>2, <2>3, <2>4 DEF Stream!ReadPastEnd, Stream!Bits
<1>8. CASE ~overflow /\ AtEnd
  <2>1. dataIn > nDataBytes /\ dataIn >= nDataBytes
      BY <1>3, <1>8 DEF AtEnd
  <2>2. GetNumBitsRead = nDataBits
      BY <1>1, <2>1, Tell
  <2>3. GetNumBitsRead + n > nDataBits
      BY <1>3, <2>2
  <2>4. GrabOverflow(dataIn, TRUE)
      BY <2>1 DEF GrabOverflow
  <2>5. QED
      BY <1>1, <1>4, <1>5, <1>8, <2>1, <2>3, <2>4 DEF Stream!ReadPastEnd, Stream!Bits
<1>9. CASE overflow
  <2>1. GrabOverflow(dataIn, TRUE)
      BY <1>9 DEF GrabOverflow
  <2>2. GetNumBitsRead' \in 0 .. nDataBits /\ Exhausted' \in BOOLEAN
      BY <1>1, <1>2, TellNext DEF Exhausted, ReaderOK
  <2>3. Exhausted => dataIn >= nDataBytes
      BY <1>3 DEF Exhausted
  <2>4. QED
      BY <1>1, <1>4, <1>5, <1>9, <2>1, <2>2, <2>3
      DEF Stream!ReadAfterOverflow, Stream!Bits, Stream!Zeros
<1>10. QED
  <2>1. ~overflow => AtData \/ AtEnd
      BY <1>1 DEF ReaderOK, Current
  <2>2. AtData => dataIn < nDataBytes \/ dataIn = nDataBytes
      BY <1>3 DEF AtData
  <2>3. QED
      BY <1>6, <1>7, <1>8, <1>9, <2>1, <2>2

LEMMA RefineNext == IInv /\ IInv' /\ [Next]_vars => [Stream!Next]_(Stream!vars)
<1> SUFFICES ASSUME IInv, IInv', [Next]_vars PROVE [Stream!Next]_(Stream!vars)
    OBVIOUS
<1>1. CASE Use
    BY <1>1, RefineUse
<1>2. CASE Fill
    BY <1>2, RefineFill DEF Stream!Next
<1>3. CASE Rewind
    BY <1>3, RefineRewind
<1>4. CASE \E p \in SeekTargets : Seek(p)
    BY <1>4, RefineSeek DEF Stream!Next
<1>5. CASE ReadOneBit
  <2>1. ReadFromWord(1) /\ 1 \in 1 .. 32
      BY <1>5, OneBitIsWidthOne
  <2>2. Stream!Read(1) \/ Stream!ReadPastEnd(1) \/ Stream!ReadAfterOverflow(1)
      BY <2>1, RefineReadFromWord
  <2>3. QED
      BY <2>2 DEF Stream!Next
<1>6. CASE \E n \in Widths : ReadFromWord(n) \/ ReadMerged(n)
  <2>1. PICK n \in Widths : ReadFromWord(n) \/ ReadMerged(n)
      BY <1>6
  <2>2. n \in 1 .. 32
      BY WidthsAssumption
  <2>3. Stream!Read(n) \/ Stream!ReadPastEnd(n) \/ Stream!ReadAfterOverflow(n)
      BY <2>1, <2>2, RefineReadFromWord, RefineReadMerged
  <2>4. QED
      BY <2>3 DEF Stream!Next
<1>7. CASE UNCHANGED vars
    BY <1>7 DEF vars, Stream!vars, nDataBits, GetNumBitsRead, nHead, Exhausted, ZeroWord
<1>8. QED
    BY <1>1, <1>2, <1>3, <1>4, <1>5, <1>6, <1>7 DEF Next

(* CBitRead implements the stream of bits its callers take it for, for     *)
(* buffers of every size and contents, whatever is read and sought.        *)
THEOREM Refinement == Spec => ImplementsBitStream
<1>1. Spec => []IInv
    BY Invariant
<1>2. QED
    BY <1>1, RefineInit, RefineNext, PTL DEF Spec, Stream!Spec, ImplementsBitStream
=============================================================================
