------------------------------ MODULE Encoding ------------------------------
(***************************************************************************)
(* How a server writes what Codec reads: the shortest code of each number. *)
(* Only the reader is in the repository, but for the zigzag code, so this  *)
(* is what its comments and assertions say of the writer.                  *)
(***************************************************************************)
EXTENDS Codec

Flag(condition) == IF condition THEN <<1>> ELSE <<0>>
Unless(condition, code) == IF condition THEN <<>> ELSE code
Amount(i) == IF i < 0 THEN -i ELSE i

(* The low bits, which of the sizes follows, and the rest in that size.    *)
Sized(i, low, limits, sizes) ==
    LET size == Cardinality({b \in limits : i >= b})
    IN  ToBits(i, low) \o ToBits(size, 2) \o ToBits(i \div 2^low, sizes[size + 1])
UBitVarCode(i) == Sized(i, 4, {16, 256, 4096}, <<0, 4, 8, 28>>)
SkippedCode(i) == Sized(i, 5, {32, 128, 512}, <<0, 2, 4, 7>>)

VarIntCode(v) ==
    LET bytes == Max({1} \union {(k + 6) \div 7 : k \in {j \in 1 .. Len(v) : v[j] = 1}})
    IN  FlattenSeq([b \in 1 .. bytes |->
            Extend(SubSeq(v, 7 * b - 6, IF 7 * b > Len(v) THEN Len(v) ELSE 7 * b), 7, 0)
                \o Flag(b < bytes)])

(* ZigZagEncode32 and ZigZagEncode64.                                      *)
ZigZagEncode(v) ==
    LET sign == v[Len(v)]
    IN  [k \in 1 .. Len(v) |-> IF k = 1 THEN sign ELSE (v[k - 1] + sign) % 2]
-----------------------------------------------------------------------------
CoordCode(c) ==
    LET whole == Amount(c) \div 32
        part == Amount(c) % 32
    IN  Flag(whole > 0) \o Flag(part > 0)
            \o Unless(c = 0, Flag(c < 0))
            \o Unless(whole = 0, ToBits(whole - 1, 14))
            \o Unless(part = 0, ToBits(part, 5))

CoordMPCode(c, fraction) ==
    LET whole == Amount(c) \div 2^fraction
    IN  Flag(whole < 2^11) \o Flag(whole > 0)
            \o Unless(fraction = 0 /\ whole = 0, Flag(c < 0))
            \o Unless(whole = 0, ToBits(whole - 1, IF whole < 2^11 THEN 11 ELSE 14))
            \o ToBits(Amount(c) % 2^fraction, fraction)

CellCoordCode(c, bits, fraction) == ToBits(c \div 2^fraction, bits) \o ToBits(c % 2^fraction, fraction)

FloatCode(prop, v) ==
    CASE prop.coding = "coord"               -> CoordCode(v)
      [] prop.coding = "coord_mp"            -> CoordMPCode(v, 5)
      [] prop.coding = "coord_mp_lowprecision" -> CoordMPCode(v, 3)
      [] prop.coding = "coord_mp_integral"   -> CoordMPCode(v, 0)
      [] prop.coding = "noscale"             -> v
      [] prop.coding = "normal"              -> Flag(v < 0) \o ToBits(Amount(v), 11)
      [] prop.coding = "cell_coord"          -> CellCoordCode(v, prop.num_bits, 5)
      [] prop.coding = "cell_coord_lowprecision" -> CellCoordCode(v, prop.num_bits, 3)
      [] prop.coding = "cell_coord_integral" -> CellCoordCode(v, prop.num_bits, 0)
      [] prop.coding = "scaled"              -> ToBits(v, prop.num_bits)

IntCode(prop, v) ==
    IF prop.coding = "varint" THEN VarIntCode(IF prop.unsigned THEN v ELSE ZigZagEncode(v))
    ELSE SubSeq(v, 1, prop.num_bits)

Int64Code(prop, v) ==
    IF prop.coding = "varint" THEN VarIntCode(IF prop.unsigned THEN v ELSE ZigZagEncode(v))
    ELSE IF prop.unsigned THEN SubSeq(v, 1, prop.num_bits)
    ELSE <<v[64]>> \o SubSeq(IF v[64] = 1 THEN Negated(v) ELSE v, 1, prop.num_bits - 1)

VectorCode(prop, v) ==
    FloatCode(prop, v[1]) \o FloatCode(prop, v[2])
        \o (IF prop.coding = "normal" THEN <<v[3]>> ELSE FloatCode(prop, v[3]))

StringCode(v) ==
    ToBits(Len(v), 9)
        \o [k \in 1 .. 8 * Len(v) |-> ToBits(v[(k + 7) \div 8], 8)[1 + ((k - 1) % 8)]]

ElementCode(prop, v) ==
    CASE prop.type = "Int"      -> IntCode(prop, v)
      [] prop.type = "Float"    -> FloatCode(prop, v)
      [] prop.type = "Vector"   -> VectorCode(prop, v)
      [] prop.type = "VectorXY" -> FloatCode(prop, v[1]) \o FloatCode(prop, v[2])
      [] prop.type = "String"   -> StringCode(v)
      [] prop.type = "Int64"    -> Int64Code(prop, v)

(* The number of elements, in the fewest bits that hold any it may be.     *)
ArrayCode(prop, v) ==
    ToBits(Len(v), Min({b \in 1 .. 10 : 2^b > prop.num_elements}))
        \o FlattenSeq([i \in DOMAIN v |-> ElementCode(prop.element, v[i])])

PropCode(prop, v) == IF prop.type = "Array" THEN ArrayCode(prop, v) ELSE ElementCode(prop, v)
-----------------------------------------------------------------------------
(* The props a server has, and the values of each: what its code can say.  *)
(* Bound: the amount that stands for a float has up to thirty bits.        *)
IsRow(v) == Len(v) \in Nat /\ v = [i \in 1 .. Len(v) |-> v[i]]
HasBits(v, n) == v \in Seq(BitValues) /\ Len(v) = n

FloatCodings ==
    {"coord", "coord_mp", "coord_mp_lowprecision", "coord_mp_integral", "noscale", "normal",
     "cell_coord", "cell_coord_lowprecision", "cell_coord_integral", "scaled"}
IsElement(prop) ==
    /\ prop.type \in {"Int", "Int64", "Float", "Vector", "VectorXY", "String"}
    /\ prop.unsigned \in BOOLEAN
    /\ prop.type = "Int" => prop.coding = "varint" \/ prop.num_bits \in 1 .. 32
    /\ prop.type = "Int64" => prop.coding = "varint" \/ prop.num_bits \in 33 .. 64
    /\ prop.type \in {"Float", "Vector", "VectorXY"} =>
          prop.coding \in FloatCodings /\ prop.num_bits \in 0 .. 30
IsProp(prop) ==
    IF prop.type = "Array"
    THEN prop.num_elements \in 0 .. 1023 /\ IsElement(prop.element)
    ELSE IsElement(prop)

IntHas(prop, v) ==
    /\ HasBits(v, 32)
    /\ \/ prop.coding = "varint"
       \/ \A k \in prop.num_bits + 1 .. 32 : v[k] = IF prop.unsigned THEN 0 ELSE v[prop.num_bits]
Int64Has(prop, v) ==
    /\ HasBits(v, 64)
    /\ \/ prop.coding = "varint"
       \/ prop.unsigned /\ \A k \in prop.num_bits + 1 .. 64 : v[k] = 0
       \/ /\ ~prop.unsigned
          /\ \A k \in prop.num_bits .. 64 : (IF v[64] = 1 THEN Negated(v) ELSE v)[k] = 0

CoordHas(c, fraction) == c \in Int /\ Amount(c) \div 2^fraction <= 2^14
CellCoordHas(c, bits, fraction) == c \in Nat /\ c \div 2^fraction < 2^bits
FloatHas(prop, v) ==
    CASE prop.coding \in {"coord", "coord_mp"}       -> CoordHas(v, 5)
      [] prop.coding = "coord_mp_lowprecision"       -> CoordHas(v, 3)
      [] prop.coding = "coord_mp_integral"           -> CoordHas(v, 0)
      [] prop.coding = "noscale"                     -> HasBits(v, 32)
      [] prop.coding = "normal"                      -> v \in Int /\ Amount(v) < 2^11
      [] prop.coding = "cell_coord"                  -> CellCoordHas(v, prop.num_bits, 5)
      [] prop.coding = "cell_coord_lowprecision"     -> CellCoordHas(v, prop.num_bits, 3)
      [] prop.coding \in {"cell_coord_integral", "scaled"} -> CellCoordHas(v, prop.num_bits, 0)

ElementHas(prop, v) ==
    CASE prop.type = "Int"      -> IntHas(prop, v)
      [] prop.type = "Int64"    -> Int64Has(prop, v)
      [] prop.type = "Float"    -> FloatHas(prop, v)
      [] prop.type = "Vector"   ->
             /\ v = <<v[1], v[2], v[3]>>
             /\ FloatHas(prop, v[1]) /\ FloatHas(prop, v[2])
             /\ IF prop.coding = "normal" THEN v[3] \in BitValues ELSE FloatHas(prop, v[3])
      [] prop.type = "VectorXY" ->
             v = <<v[1], v[2]>> /\ FloatHas(prop, v[1]) /\ FloatHas(prop, v[2])
      [] prop.type = "String"   -> v \in Seq(0 .. 255) /\ Len(v) < 2^DT_MAX_STRING_BITS
PropHas(prop, v) ==
    IF prop.type = "Array"
    THEN /\ IsRow(v) /\ Len(v) <= prop.num_elements
         /\ \A i \in 1 .. Len(v) : ElementHas(prop.element, v[i])
    ELSE ElementHas(prop, v)
-----------------------------------------------------------------------------
(* The field indices of an entity, ascending, each as how many it skips.   *)
IndexCode(way, skipped) ==
    IF ~way THEN SkippedCode(skipped)
    ELSE IF skipped = 0 THEN <<1>>
    ELSE IF skipped < 8 THEN <<0, 1>> \o ToBits(skipped, 3)
    ELSE <<0, 0>> \o SkippedCode(skipped)
IndicesCode(way, indices) ==
    LET before(i) == IF i = 1 THEN -1 ELSE indices[i - 1]
    IN  FlattenSeq([i \in DOMAIN indices |-> IndexCode(way, indices[i] - before(i) - 1)])
            \o IndexCode(way, 4095)
=============================================================================
