------------------------------- MODULE Codec -------------------------------
(***************************************************************************)
(* The decoders that CBitRead's readers and demofilepropdecode.cpp compose *)
(* from plain reads.  Each takes the bits of a buffer and the number of    *)
(* those that were read, and gives what it returns and where it stops.     *)
(*                                                                         *)
(* A number is the sequence of its bits, the least one first, because 32   *)
(* bits do not fit into TLC's integers; a coordinate is an integer, in     *)
(* units of its resolution.                                                *)
(***************************************************************************)
EXTENDS Integers, SequencesExt

BitValues == {0, 1}
Zeros(n) == [k \in 1 .. n |-> 0]
ToBits(i, n) == [k \in 1 .. n |-> IF k > 31 THEN 0 ELSE (i \div 2^(k - 1)) % 2]
ToNat(v) ==
    LET from[k \in 1 .. Len(v) + 1] == IF k > Len(v) THEN 0 ELSE v[k] + 2 * from[k + 1]
    IN  from[1]
Extend(v, n, bit) ==
    IF n <= Len(v) THEN SubSeq(v, 1, n) ELSE v \o [k \in 1 .. n - Len(v) |-> bit]
Complement(v) == [k \in 1 .. Len(v) |-> 1 - v[k]]
Increment(v) ==
    [k \in 1 .. Len(v) |-> IF \A j \in 1 .. k - 1 : v[j] = 1 THEN 1 - v[k] ELSE v[k]]
Negated(v) == Increment(Complement(v))

Result(v, at) == [v |-> v, at |-> at]
WithSign(signbit, n) == IF signbit = 1 THEN -n ELSE n
-----------------------------------------------------------------------------
(* ReadUBitLong, as far as BitStream says what it returns, and ReadOneBit: *)
(* if they need one bit that is not there, all of them are zeros, and so   *)
(* is what is read after that.                                             *)
UBits(data, at, n) ==
    IF at + n <= Len(data) THEN SubSeq(data, at + 1, at + n) ELSE Zeros(n)
OneBit(data, at) == UBits(data, at, 1)[1]
UNat(data, at, n) == ToNat(UBits(data, at, n))

(* ReadSBitLong, for a width that is not 0.                                *)
ReadSBitLong(data, at, n) ==
    LET v == UBits(data, at, n) IN Result(Extend(v, 32, v[n]), at + n)

(* Four bits, and as many more as the two behind them tell.                *)
(* Mutant: two of the widths are swapped.                                  *)
SwappedMore(code) == <<0, 8, 4, 28>>[code + 1]
UBitVarMore(code) == <<0, 4, 8, 28>>[code + 1]
ReadUBitVar(data, at) ==
    LET more == UBitVarMore(UNat(data, at + 4, 2))
    IN  Result(ToNat(UBits(data, at, 4) \o UBits(data, at + 6, more)), at + 6 + more)

(* The assertions: a number is written with the fewest bits.               *)
UBitVarAsserted(data, at) ==
    ReadUBitVar(data, at).v >= <<0, 16, 256, 4096>>[1 + UNat(data, at + 4, 2)]

(* ReadVarInt32 and ReadVarInt64: seven bits of each byte, up to the first *)
(* byte without the eighth, and of no more than so many bytes.             *)
VarIntBytes(data, at, max) ==
    Min({max} \union {c \in 1 .. max : OneBit(data, at + 8 * c - 1) = 0})
ReadVarInt(data, at, width, max) ==
    LET bytes == VarIntBytes(data, at, max)
        bits == FlattenSeq([b \in 1 .. bytes |-> UBits(data, at + 8 * (b - 1), 7)])
    IN  Result(Extend(bits, width, 0), at + 8 * bytes)
kMaxVarint32Bytes == 5
kMaxVarintBytes == 10
ReadVarInt32(data, at) == ReadVarInt(data, at, 32, kMaxVarint32Bytes)
ReadVarInt64(data, at) == ReadVarInt(data, at, 64, kMaxVarintBytes)

(* Mutant: the sign is not spread.                                         *)
ShiftedOnly(v) == Extend(Tail(v), Len(v), 0)
ZigZagDecode(v) ==
    LET shifted == Extend(Tail(v), Len(v), 0)
    IN  IF v[1] = 1 THEN Complement(shifted) ELSE shifted
-----------------------------------------------------------------------------
COORD_INTEGER_BITS == 14
COORD_INTEGER_BITS_MP == 11
COORD_FRACTIONAL_BITS == 5
COORD_FRACTIONAL_BITS_MP_LOWPRECISION == 3
NORMAL_FRACTIONAL_BITS == 11

(* Whole units are written less one, because zero has a code of its own.   *)
WholeUnits(data, at, n) == UNat(data, at, n) + 1

ReadBitCoord(data, at) ==
    LET intval == OneBit(data, at)
        fractval == OneBit(data, at + 1)
        afterInt == at + 3 + intval * COORD_INTEGER_BITS
        whole == IF intval = 1 THEN WholeUnits(data, at + 3, COORD_INTEGER_BITS) ELSE 0
        part == IF fractval = 1 THEN UNat(data, afterInt, COORD_FRACTIONAL_BITS) ELSE 0
    IN  IF intval = 0 /\ fractval = 0 THEN Result(0, at + 2)
        ELSE Result(WithSign(OneBit(data, at + 2), 2^COORD_FRACTIONAL_BITS * whole + part),
                    afterInt + fractval * COORD_FRACTIONAL_BITS)

(* Without fractional bits the sign is there only if the integer is.       *)
ReadBitCoordMP(data, at, fraction) ==
    LET inBounds == OneBit(data, at)
        intval == OneBit(data, at + 1)
        bits == IF inBounds = 1 THEN COORD_INTEGER_BITS_MP ELSE COORD_INTEGER_BITS
        afterInt == at + 3 + intval * bits
        whole == IF intval = 1 THEN WholeUnits(data, at + 3, bits) ELSE 0
    IN  IF fraction = 0 /\ intval = 0 THEN Result(0, at + 2)
        ELSE Result(WithSign(OneBit(data, at + 2), 2^fraction * whole + UNat(data, afterInt, fraction)),
                    afterInt + fraction)

ReadBitCellCoord(data, at, bits, fraction) ==
    Result(2^fraction * UNat(data, at, bits) + UNat(data, at + bits, fraction), at + bits + fraction)

ReadBitNormal(data, at) ==
    Result(WithSign(OneBit(data, at), UNat(data, at + 1, NORMAL_FRACTIONAL_BITS)),
           at + 1 + NORMAL_FRACTIONAL_BITS)

(* (float) of a uint32, as the bits of the float, rounded to nearest even. *)
FloatOf(v) ==
    LET h == Max({k \in 1 .. 32 : v[k] = 1})
        Bit(k) == IF k >= 1 THEN v[k] ELSE 0
        cut == [k \in 1 .. 23 |-> Bit(h - 24 + k)] \o ToBits(126 + h, 8) \o <<0>>
        up == Bit(h - 24) = 1 /\ (cut[1] = 1 \/ \E k \in 1 .. h - 25 : v[k] = 1)
    IN  IF v = Zeros(32) THEN v ELSE IF up THEN Increment(cut) ELSE cut

ReadBitFloat(data, at) == Result(FloatOf(UBits(data, at, 32)), at + 32)
-----------------------------------------------------------------------------
Int_Decode(data, at, prop) ==
    IF prop.coding = "varint"
    THEN LET n == ReadVarInt32(data, at)
         IN  IF prop.unsigned THEN n ELSE Result(ZigZagDecode(n.v), n.at)
    ELSE IF prop.unsigned
    THEN Result(Extend(UBits(data, at, prop.num_bits), 32, 0), at + prop.num_bits)
    ELSE ReadSBitLong(data, at, prop.num_bits)

(* A negative number is written as its sign and its amount, the low half   *)
(* first.                                                                  *)
(* Mutant: the sign is counted in addition to the number's bits.           *)
HighBitsAndSign(prop) == prop.num_bits - 32
HighBits(prop) == prop.num_bits - 32 - (IF prop.unsigned THEN 0 ELSE 1)
Int64_Decode(data, at, prop) ==
    IF prop.coding = "varint"
    THEN LET n == ReadVarInt64(data, at)
         IN  IF prop.unsigned THEN n ELSE Result(ZigZagDecode(n.v), n.at)
    ELSE LET sign == IF prop.unsigned THEN 0 ELSE 1
             low == UBits(data, at + sign, 32)
             high == UBits(data, at + sign + 32, HighBits(prop))
             temp == Extend(low \o high, 64, 0)
         IN  Result(IF sign = 1 /\ OneBit(data, at) = 1 THEN Negated(temp) ELSE temp,
                    at + sign + 32 + HighBits(prop))

(* DecodeSpecialFloat and the range of Float_Decode, whose value is left   *)
(* as the number that is scaled into it.                                   *)
Float_Decode(data, at, prop) ==
    CASE prop.coding = "coord"     -> ReadBitCoord(data, at)
      [] prop.coding = "coord_mp"  -> ReadBitCoordMP(data, at, COORD_FRACTIONAL_BITS)
      [] prop.coding = "coord_mp_lowprecision" ->
             ReadBitCoordMP(data, at, COORD_FRACTIONAL_BITS_MP_LOWPRECISION)
      [] prop.coding = "coord_mp_integral" -> ReadBitCoordMP(data, at, 0)
      [] prop.coding = "noscale"   -> ReadBitFloat(data, at)
      [] prop.coding = "normal"    -> ReadBitNormal(data, at)
      [] prop.coding = "cell_coord" ->
             ReadBitCellCoord(data, at, prop.num_bits, COORD_FRACTIONAL_BITS)
      [] prop.coding = "cell_coord_lowprecision" ->
             ReadBitCellCoord(data, at, prop.num_bits, COORD_FRACTIONAL_BITS_MP_LOWPRECISION)
      [] prop.coding = "cell_coord_integral" -> ReadBitCellCoord(data, at, prop.num_bits, 0)
      [] prop.coding = "scaled"    -> Result(UNat(data, at, prop.num_bits), at + prop.num_bits)

VectorXY_Decode(data, at, prop) ==
    LET component[p \in Nat] == Float_Decode(data, p, prop)
        x == component[at]
        y == component[x.at]
    IN  Result(<<x.v, y.v>>, y.at)

(* The third component of a normal follows from the first two, but for its *)
(* sign, which stands for it here.                                         *)
Vector_Decode(data, at, prop) ==
    LET component[p \in Nat] == Float_Decode(data, p, prop)
        sign[p \in Nat] == Result(OneBit(data, p), p + 1)
        x == component[at]
        y == component[x.at]
        z == IF prop.coding = "normal" THEN sign[y.at] ELSE component[y.at]
    IN  Result(<<x.v, y.v, z.v>>, z.at)

DT_MAX_STRING_BITS == 9
String_Decode(data, at) ==
    LET len == UNat(data, at, DT_MAX_STRING_BITS)
    IN  Result([i \in 1 .. len |-> UNat(data, at + DT_MAX_STRING_BITS + 8 * (i - 1), 8)],
               at + DT_MAX_STRING_BITS + 8 * len)

DecodeElement(data, at, prop) ==
    CASE prop.type = "Int"      -> Int_Decode(data, at, prop)
      [] prop.type = "Float"    -> Float_Decode(data, at, prop)
      [] prop.type = "Vector"   -> Vector_Decode(data, at, prop)
      [] prop.type = "VectorXY" -> VectorXY_Decode(data, at, prop)
      [] prop.type = "String"   -> String_Decode(data, at)
      [] prop.type = "Int64"    -> Int64_Decode(data, at, prop)

(* As many bits as the greatest number of elements has.                    *)
CountBits(max) == Max({b \in 1 .. 31 : b = 1 \/ 2^(b - 1) <= max})
Array_Decode(data, at, prop) ==
    LET bits == CountBits(prop.num_elements)
        n == UNat(data, at, bits)
        element[p \in Nat] == DecodeElement(data, p, prop.element)
        end[k \in 0 .. n] == IF k = 0 THEN at + bits ELSE element[end[k - 1]].at
    IN  Result([k \in 1 .. n |-> element[end[k - 1]].v], end[n])

DecodeProp(data, at, prop) ==
    IF prop.type = "Array" THEN Array_Decode(data, at, prop) ELSE DecodeElement(data, at, prop)
-----------------------------------------------------------------------------
(* ReadFieldIndex after the bits of the new way: how many indices are      *)
(* skipped, in three bits, or in five and as many more as two bits tell.   *)
FieldIndexMore(code) == <<0, 2, 4, 7>>[code + 1]
ReadSkipped(data, at) ==
    LET more == FieldIndexMore(UNat(data, at + 5, 2))
    IN  Result(ToNat(UBits(data, at, 5) \o UBits(data, at + 7, more)), at + 7 + more)
SkippedAsserted(data, at) ==
    ReadSkipped(data, at).v >= <<0, 32, 128, 512>>[1 + UNat(data, at + 5, 2)]

(* Mutant: the end marker of other games.                                  *)
NoSkip(skipped) == skipped = 0
OtherEnd(skipped) == skipped = 1023
EndMarker(skipped) == skipped = 4095
=============================================================================
