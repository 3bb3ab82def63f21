---------------------------- MODULE EntityDataProof ---------------------------
(***************************************************************************)
(* Proofs about EntityData, for any classes, props and entities, and any   *)
(* message, whole or cut off anywhere: that the numbers, kinds, classes,   *)
(* field indices and values of the entities are read as they were written  *)
(* and up to their ends, so that the reader is always in step with the     *)
(* message and no assertion fails on whole data. Behind the end of the     *)
(* data, where everything is read as zeros, only the types are known.      *)
(***************************************************************************)
EXTENDS EntityData, Lemmas

(* An array in the number of its elements and the elements.                *)
LEMMA ArrayCodeIs ==
    ASSUME NEW prop, IsElement(prop.element), NEW v, IsRow(v),
           \A i \in 1 .. Len(v) : ElementHas(prop.element, v[i])
    PROVE  \E n \in Nat : /\ n = Len(v) /\ IsArrayOf(prop, v, n)
                          /\ ArrayCode(prop, v) = ToBits(n, ArrayBits(prop.num_elements))
                                                     \o Flat(ElementParts(prop, v, n), n)
<1>1. PICK n \in Nat : n = Len(v) /\ v = [i \in 1 .. n |-> v[i]]
  BY DEF IsRow
<1>2. IsArrayOf(prop, v, n)
  BY <1>1 DEF IsArrayOf
<1>3. DOMAIN v = 1 .. n
  BY <1>1
<1>4. ArrayCode(prop, v) = ToBits(n, ArrayBits(prop.num_elements))
                              \o FlattenSeq([i \in 1 .. n |-> ElementCode(prop.element, v[i])])
  BY <1>1, <1>3 DEF ArrayCode, ArrayBits
<1>5. FlattenSeq([i \in 1 .. n |-> ElementCode(prop.element, v[i])])
         = Flat(ElementParts(prop, v, n), n)
  <2>1. ElementParts(prop, v, n) = [i \in 1 .. n |-> ElementParts(prop, v, n)[i]]
    BY DEF ElementParts
  <2>2. FlattenSeq(ElementParts(prop, v, n)) = Flat(ElementParts(prop, v, n), n)
    BY <2>1, FlatWhole
  <2> QED
    BY <2>2 DEF ElementParts
<1> QED
  BY <1>1, <1>2, <1>4, <1>5

(* Array_Decode reads an array as it was written, for every number of      *)
(* elements that its bits can count.                                       *)
LEMMA ArrayRead ==
    ASSUME NEW d \in Seq(BitValues), NEW p \in Nat, NEW prop, MayCount(prop.num_elements),
           IsElement(prop.element), NEW v, IsRow(v), Len(v) <= prop.num_elements,
           \A i \in 1 .. Len(v) : ElementHas(prop.element, v[i]), Shows(d, p, ArrayCode(prop, v))
    PROVE  ReadsIf(prop.element.coding # "noscale", Array_Decode(d, p, prop), d, p,
                   ArrayCode(prop, v), v)
<1>0. PICK num : num = prop.num_elements
  OBVIOUS
<1>1. PICK c \in Nat : /\ c = ArrayBits(num) /\ CountBits(num) = c /\ c <= 30
                       /\ num \in Nat /\ num < 2^c
  <2>1. MayCount(num)
    BY <1>0
  <2>2. /\ ArrayBits(num) \in 1 .. 10 /\ num \in Nat /\ num < 2^ArrayBits(num)
        /\ CountBits(num) = ArrayBits(num)
    BY <2>1, CountBitsIs
  <2> QED
    BY <2>2
<1>2. PICK n \in Nat : /\ n = Len(v) /\ IsArrayOf(prop, v, n)
                       /\ ArrayCode(prop, v) = ToBits(n, c) \o Flat(ElementParts(prop, v, n), n)
  BY <1>0, <1>1, ArrayCodeIs
<1>3. n < 2^c
  <2>1. 2^c \in Nat
    <3>0. c \in Nat /\ c <= 30
      BY <1>1
    <3>1. c \in 0 .. 30
      BY <3>0
    <3> QED
      BY <3>1, PowerIsNat
  <2>2. n <= num
    BY <1>0, <1>2
  <2> QED
    BY <1>1, <2>1, <2>2
<1>4. PICK h \in Seq(BitValues) : h = ToBits(n, c) /\ Len(h) = c
  BY <1>1, ToBitsIs
<1>5. PICK t \in Seq(BitValues) : t = Flat(ElementParts(prop, v, n), n)
  <2>1. Parts(ElementParts(prop, v, n), n, BitValues) /\ n \in 0 .. n
    BY <1>2, ElementPartsAre
  <2> QED
    BY <2>1, FlatTyped
<1>6. Shows(d, p, h) /\ Shows(d, p + Len(h), t) /\ p + Len(h) \in Nat
      /\ h \o t \in Seq(BitValues) /\ Len(h \o t) = Len(h) + Len(t)
  <2>1. Shows(d, p, h \o t)
    BY <1>2, <1>4, <1>5
  <2> QED
    BY <2>1, ShowsJoined
<1>7. PICK b \in Nat, l \in Nat, lt \in Nat : b = p + c /\ l = Len(d) /\ lt = Len(t)
  <2>1. p + c \in Nat /\ Len(d) \in Nat /\ Len(t) \in Nat
    BY <1>1
  <2> QED
    BY <2>1
<1>8. GoesOn(Array_Decode(d, p, prop), b)
  BY <1>0, <1>1, <1>7, ArrayTyped DEF GoesOn
<1>9. PICK a \in Nat : a = Array_Decode(d, p, prop).at /\ a >= b
  BY <1>8 DEF GoesOn
<1>10. CASE b <= l
  <2>1. ArrayLength(d, p, prop) = n
    <3>0. c \in Nat /\ c <= 30
      BY <1>1
    <3>a. c \in 0 .. 30
      BY <3>0
    <3>1. Shows(d, p, ToBits(n, c)) /\ p + c <= Len(d)
      BY <1>4, <1>6, <1>7, <1>10
    <3>2. UNat(d, p, c) = n
      BY <1>3, <3>a, <3>1, ShownNumber
    <3> QED
      BY <1>0, <1>1, <3>2 DEF ArrayLength
  <2>2. PICK g : /\ ArrayEnds(g, d, p, prop)
                 /\ Array_Decode(d, p, prop)
                       = Result([k \in 1 .. n |-> Elements(d, prop)[g[k - 1]].v], g[n])
    BY <2>1, ArrayIs
  <2>3. EndList(g, n, b, Elements(d, prop))
    BY <1>0, <1>1, <1>7, <2>1, <2>2 DEF ArrayEnds
  <2>4. IsPlace(d, b) /\ Shows(d, b, Flat(ElementParts(prop, v, n), n))
    BY <1>4, <1>5, <1>6, <1>7 DEF IsPlace
  <2>5. ElementsAreRead(d, b, prop, v, n, g)
    BY <1>2, <2>3, <2>4, ElementsRead
  <2>6. ReadTo(a, d, b, t)
    BY <1>5, <1>9, <2>2, <2>5 DEF ElementsAreRead, Result
  <2>7. ReadTo(a, d, p, h \o t)
    <3>1. ReadTo(b, d, p, h)
      <4>1. ReadTo(p + Len(h), d, p, h)
        BY ReadToFixed
      <4> QED
        BY <1>4, <1>7, <4>1
    <3>2. ReadTo(a, d, p + Len(h), t)
      BY <1>4, <1>7, <2>6
    <3> QED
      BY <1>9, <3>1, <3>2, ReadToBoth
  <2>8. ASSUME p + Len(h \o t) <= Len(d), prop.element.coding # "noscale"
        PROVE  Array_Decode(d, p, prop).v = v
    <3>1. p + (c + lt) <= l
      BY <1>4, <1>6, <1>7, <2>8
    <3>2. b + lt <= l
      BY <1>1, <1>7, <3>1
    <3>3. \A k \in 1 .. n : Elements(d, prop)[g[k - 1]].v = v[k]
      BY <1>5, <1>7, <2>5, <2>8, <3>2 DEF ElementsAreRead
    <3>4. Array_Decode(d, p, prop).v = [k \in 1 .. n |-> v[k]]
      BY <2>2, <3>3 DEF Result
    <3> QED
      BY <1>2, <3>4 DEF IsRow
  <2>9. ArrayCode(prop, v) = h \o t
    BY <1>2, <1>4, <1>5
  <2> QED
    BY <1>6, <1>9, <2>7, <2>8, <2>9 DEF ReadsIf
<1>11. CASE ~(b <= l)
  <2>1. PICK w \in Nat : w = Len(h \o t) /\ w = c + lt
    BY <1>4, <1>6, <1>7
  <2>2. a > l /\ a >= p /\ ~(p + w <= l)
    <3>1. c \in Nat /\ lt \in Nat /\ b = p + c /\ a >= b /\ ~(b <= l) /\ w = c + lt
      BY <1>1, <1>7, <1>9, <1>11, <2>1
    <3> QED
      BY <3>1
  <2>3. ReadTo(a, d, p, h \o t)
    BY <1>7, <2>1, <2>2 DEF ReadTo
  <2>4. ArrayCode(prop, v) = h \o t
    BY <1>2, <1>4, <1>5
  <2>5. ~(p + Len(h \o t) <= Len(d))
    BY <1>7, <2>1, <2>2
  <2> QED
    BY <1>6, <1>9, <2>3, <2>4, <2>5 DEF ReadsIf
<1> QED
  BY <1>10, <1>11

(* Decode_Prop goes on, whatever it finds.                                 *)
LEMMA PropTyped ==
    ASSUME NEW d \in Seq(BitValues), NEW p \in Nat, NEW prop, IsProp(prop)
    PROVE  GoesOn(DecodeProp(d, p, prop), p)
<1>1. CASE prop.type = "Array"
  <2>1. MayCount(prop.num_elements) /\ IsElement(prop.element)
    BY <1>1 DEF IsProp, MayCount
  <2>2. PICK num : num = prop.num_elements
    OBVIOUS
  <2>3. PICK c \in Nat : c = ArrayBits(num)
    <3>1. ArrayBits(num) \in 1 .. 10
      BY <2>1, <2>2, CountBitsIs
    <3> QED
      BY <3>1
  <2>4. Array_Decode(d, p, prop).at \in Nat /\ Array_Decode(d, p, prop).at >= p + c
    BY <2>1, <2>2, <2>3, ArrayTyped
  <2>5. GoesOn(Array_Decode(d, p, prop), p)
    BY <2>4 DEF GoesOn
  <2> QED
    BY <1>1, <2>5 DEF DecodeProp
<1>2. CASE prop.type # "Array"
  <2>1. IsElement(prop)
    BY <1>2 DEF IsProp
  <2> QED
    BY <1>2, <2>1, ElementTyped DEF DecodeProp
<1> QED
  BY <1>1, <1>2

(* Every prop is read as written, whatever its type and coding, but for    *)
(* the value of a float that is not scaled.                                *)
THEOREM PropRead ==
    ASSUME NEW d \in Seq(BitValues), NEW p \in Nat, NEW prop, IsProp(prop),
           NEW v, PropHas(prop, v), Shows(d, p, PropCode(prop, v))
    PROVE  ReadsIf(~NotScaled(prop), DecodeProp(d, p, prop), d, p, PropCode(prop, v), v)
<1>1. CASE prop.type = "Array"
  <2>1. MayCount(prop.num_elements) /\ IsElement(prop.element)
    BY <1>1 DEF IsProp, MayCount
  <2>2. IsRow(v) /\ Len(v) <= prop.num_elements
        /\ \A i \in 1 .. Len(v) : ElementHas(prop.element, v[i])
    BY <1>1 DEF PropHas
  <2>3. PropCode(prop, v) = ArrayCode(prop, v) /\ DecodeProp(d, p, prop) = Array_Decode(d, p, prop)
        /\ (~NotScaled(prop) <=> prop.element.coding # "noscale")
    BY <1>1 DEF PropCode, DecodeProp, NotScaled
  <2>4. ReadsIf(prop.element.coding # "noscale", Array_Decode(d, p, prop), d, p,
                ArrayCode(prop, v), v)
    BY <2>1, <2>2, <2>3, ArrayRead
  <2> QED
    BY <2>3, <2>4 DEF ReadsIf
<1>2. CASE prop.type # "Array"
  <2>1. IsElement(prop) /\ ElementHas(prop, v)
    BY <1>2 DEF IsProp, PropHas
  <2>2. PropCode(prop, v) = ElementCode(prop, v) /\ DecodeProp(d, p, prop) = DecodeElement(d, p, prop)
        /\ (~NotScaled(prop) <=> prop.coding # "noscale")
    BY <1>2 DEF PropCode, DecodeProp, NotScaled
  <2>3. ReadsIf(prop.coding # "noscale", DecodeElement(d, p, prop), d, p, ElementCode(prop, v), v)
    BY <2>1, <2>2, ElementRead
  <2> QED
    BY <2>2, <2>3 DEF ReadsIf
<1> QED
  BY <1>1, <1>2

(* The code of a prop is bits.                                             *)
LEMMA PropCodeTyped ==
    ASSUME NEW prop, IsProp(prop), NEW v, PropHas(prop, v)
    PROVE  PropCode(prop, v) \in Seq(BitValues)
<1>1. PICK e \in Seq(BitValues), z \in Nat : Shows(e, z, PropCode(prop, v))
  BY ShownByNothing
<1>2. ReadsIf(~NotScaled(prop), DecodeProp(e, z, prop), e, z, PropCode(prop, v), v)
  BY <1>1, PropRead
<1> QED
  BY <1>2 DEF ReadsIf

(* Of a number only the five low bits are not zero.                        *)
LowBitsOnly(v, L) ==
    /\ L \in Nat /\ L >= 5 /\ Len(v) = L
    /\ \A k \in 1 .. L : v[k] \in {0, 1}
    /\ \A k \in 1 .. L : k > 5 => v[k] = 0

(* So it is at most 31.                                                    *)
LEMMA LowNumber ==
    ASSUME NEW v, NEW L, LowBitsOnly(v, L)
    PROVE  ToNat(v) <= 31
<1> DEFINE g == [k \in 1 .. L + 1 |->
                    IF k = 1 THEN v[1] + 2 * (v[2] + 2 * (v[3] + 2 * (v[4] + 2 * v[5])))
                    ELSE IF k = 2 THEN v[2] + 2 * (v[3] + 2 * (v[4] + 2 * v[5]))
                    ELSE IF k = 3 THEN v[3] + 2 * (v[4] + 2 * v[5])
                    ELSE IF k = 4 THEN v[4] + 2 * v[5]
                    ELSE IF k = 5 THEN v[5] ELSE 0]
<1>0. L \in Nat /\ L >= 5 /\ Len(v) = L
  BY DEF LowBitsOnly
<1>1. /\ v[1] \in {0, 1} /\ v[2] \in {0, 1} /\ v[3] \in {0, 1} /\ v[4] \in {0, 1} /\ v[5] \in {0, 1}
  <2>1. 1 \in 1 .. L /\ 2 \in 1 .. L /\ 3 \in 1 .. L /\ 4 \in 1 .. L /\ 5 \in 1 .. L
    BY <1>0
  <2> QED
    BY <2>1 DEF LowBitsOnly
<1>2. /\ g[1] = v[1] + 2 * g[2] /\ g[2] = v[2] + 2 * g[3] /\ g[3] = v[3] + 2 * g[4]
      /\ g[4] = v[4] + 2 * g[5] /\ g[5] = v[5]
  <2>1. 1 \in 1 .. L + 1 /\ 2 \in 1 .. L + 1 /\ 3 \in 1 .. L + 1 /\ 4 \in 1 .. L + 1 /\ 5 \in 1 .. L + 1
    BY <1>0
  <2>2. /\ g[1] = v[1] + 2 * (v[2] + 2 * (v[3] + 2 * (v[4] + 2 * v[5])))
        /\ g[2] = v[2] + 2 * (v[3] + 2 * (v[4] + 2 * v[5]))
        /\ g[3] = v[3] + 2 * (v[4] + 2 * v[5])
        /\ g[4] = v[4] + 2 * v[5]
        /\ g[5] = v[5]
    BY <2>1
  <2> QED
    BY <2>2
<1>3. \A k \in 1 .. L + 1 : k > 5 => g[k] = 0
  OBVIOUS
<1> HIDE DEF g
<1>4. \A k \in 1 .. L : g[k] = v[k] + 2 * g[k + 1]
  <2> SUFFICES ASSUME NEW k \in 1 .. L PROVE g[k] = v[k] + 2 * g[k + 1]
    OBVIOUS
  <2>1. CASE k > 5
    <3>1. k + 1 \in 1 .. L + 1 /\ k \in 1 .. L + 1 /\ k + 1 > 5
      BY <1>0, <2>1
    <3>2. g[k] = 0 /\ g[k + 1] = 0
      BY <1>3, <2>1, <3>1
    <3>3. v[k] = 0
      BY <2>1 DEF LowBitsOnly
    <3> QED
      BY <3>2, <3>3
  <2>2. CASE k = 5
    <3>1. 6 \in 1 .. L + 1
      BY <1>0
    <3>2. g[6] = 0
      BY <1>3, <3>1
    <3> QED
      BY <1>1, <1>2, <2>2, <3>2
  <2>3. CASE k < 5
    <3>1. k = 1 \/ k = 2 \/ k = 3 \/ k = 4
      BY <1>0, <2>3
    <3>2. CASE k = 1
      BY <1>2, <3>2
    <3>3. CASE k = 2
      BY <1>2, <3>3
    <3>4. CASE k = 3
      BY <1>2, <3>4
    <3>5. CASE k = 4
      BY <1>2, <3>5
    <3> QED
      BY <3>1, <3>2, <3>3, <3>4, <3>5
  <2> QED
    BY <1>0, <2>1, <2>2, <2>3
<1>5. g[L + 1] = 0
  <2>1. L + 1 \in 1 .. L + 1 /\ L + 1 > 5
    BY <1>0
  <2> QED
    BY <1>3, <2>1
<1>6. ToNat(v) = g[1]
  BY <1>0, <1>4, <1>5, ToNatIs
<1>7. g[1] <= 31
  BY <1>1, <1>2
<1> QED
  BY <1>6, <1>7

(* A number that is cut off is not the end marker.                         *)
LEMMA SkippedBehind ==
    ASSUME NEW d \in Seq(BitValues), NEW p \in Nat, ReadSkipped(d, p).at > Len(d)
    PROVE  ReadSkipped(d, p).v <= 31
<1> DEFINE s == UNat(d, p + 5, 2)
           m == FieldIndexMore(s)
<1>1. p + 5 \in Nat /\ p + 7 \in Nat
  OBVIOUS
<1>2. s \in 0 .. 3
  BY <1>1, TwoBits
<1>3. m \in Nat
  <2> HIDE DEF s
  <2> QED
    BY <1>2 DEF FieldIndexMore
<1>4. ReadSkipped(d, p) = Result(ToNat(UBits(d, p, 5) \o UBits(d, p + 7, m)), p + 7 + m)
  BY DEF ReadSkipped
<1> HIDE DEF m
<1>5. PICK a \in Seq(BitValues) : a = UBits(d, p, 5) /\ Len(a) = 5
  <2>1. PICK n \in Nat : n = 5
    OBVIOUS
  <2>2. UBits(d, p, n) \in Seq(BitValues) /\ Len(UBits(d, p, n)) = n
    BY UBitsIs
  <2> QED
    BY <2>1, <2>2
<1>6. PICK b \in Seq(BitValues) : b = UBits(d, p + 7, m) /\ Len(b) = m /\ b = Zeros(m)
  <2>1. PICK q \in Nat : q = p + 7
    BY <1>1
  <2>2. q + m > Len(d)
    BY <1>4, <2>1 DEF Result
  <2>3. UBits(d, q, m) \in Seq(BitValues) /\ Len(UBits(d, q, m)) = m /\ UBits(d, q, m) = Zeros(m)
    BY <1>3, <2>2, UBitsIs
  <2> QED
    BY <2>1, <2>3
<1>7. \A k \in 1 .. m : b[k] = 0
  BY <1>6 DEF Zeros
<1>8. \A k \in 1 .. 5 : a[k] \in {0, 1}
  BY <1>5, SeqMember DEF BitValues
<1>9. /\ Len(a \o b) = Len(a) + Len(b)
      /\ \A k \in 1 .. Len(a) : (a \o b)[k] = a[k]
      /\ \A k \in 1 .. Len(b) : (a \o b)[Len(a) + k] = b[k]
  BY Joined
<1>l. PICK L \in Nat : L = 5 + m
  <2>1. 5 + m \in Nat
    BY <1>3
  <2> QED
    BY <2>1
<1>10. PICK v : v = a \o b /\ L = 5 + m
  BY <1>l
<1>11. ASSUME NEW k \in 1 .. L PROVE v[k] \in {0, 1} /\ (k > 5 => v[k] = 0)
  <2>1. CASE k > 5
    <3>1. PICK j \in 1 .. m : k = 5 + j
      <4>1. k - 5 \in 1 .. m /\ k = 5 + (k - 5)
        BY <1>3, <1>10, <2>1
      <4> QED
        BY <4>1
    <3>2. v[k] = b[j]
      BY <1>5, <1>6, <1>9, <1>10, <3>1
    <3> QED
      BY <1>7, <3>2
  <2>2. CASE ~(k > 5)
    <3>1. k \in 1 .. 5
      BY <2>2
    <3>2. v[k] = a[k]
      BY <1>5, <1>9, <1>10, <3>1
    <3> QED
      BY <1>8, <2>2, <3>1, <3>2
  <2> QED
    BY <2>1, <2>2
<1>12. LowBitsOnly(v, L)
  <2>1. L >= 5
    BY <1>3, <1>l
  <2>2. Len(v) = L
    BY <1>5, <1>6, <1>9, <1>10
  <2> QED
    BY <1>11, <2>1, <2>2 DEF LowBitsOnly
<1>13. ToNat(v) <= 31
  BY <1>12, LowNumber
<1> QED
  BY <1>4, <1>5, <1>6, <1>10, <1>13 DEF Result

(* A result is its value and where it ends.                                *)
LEMMA ResultIs == \A v, n : Result(v, n).v = v /\ Result(v, n).at = n
  BY DEF Result

(***************************************************************************)
(* The field indices: ReadFieldIndex.                                      *)
(***************************************************************************)

(* The next field index, in whichever of the codes it is.                  *)
IsOneBit(d, q, way) == way /\ OneBit(d, q) = 1
IsThreeBits(d, q, way) == way /\ OneBit(d, q) = 0 /\ OneBit(d, q + 1) = 1
Sizing(q, way) == IF way THEN q + 2 ELSE q
IsSized(d, q, way) == ~IsOneBit(d, q, way) /\ ~IsThreeBits(d, q, way)
IndexOf(d, q, way) ==
    IF IsOneBit(d, q, way) THEN Result(0, q + 1)
    ELSE IF IsThreeBits(d, q, way) THEN Result(UNat(d, q + 2, 3), q + 5)
    ELSE ReadSkipped(d, Sizing(q, way))

(* Where the size of an index begins.                                      *)
LEMMA SizingTyped ==
    ASSUME NEW q \in Nat, NEW way \in BOOLEAN
    PROVE  Sizing(q, way) \in Nat /\ Sizing(q, way) >= q
  BY DEF Sizing

(* ReadFieldIndex goes on, whatever it finds.                              *)
LEMMA IndexTyped ==
    ASSUME NEW d \in Seq(BitValues), NEW q \in Nat, NEW way \in BOOLEAN
    PROVE  IndexOf(d, q, way).v \in Nat /\ GoesOn(IndexOf(d, q, way), q)
<1>1. CASE IsOneBit(d, q, way)
  BY <1>1 DEF IndexOf, Result, GoesOn
<1>2. CASE ~IsOneBit(d, q, way) /\ IsThreeBits(d, q, way)
  <2>1. PICK x \in Nat, n \in Nat : x = q + 2 /\ n = 3
    <3>1. q + 2 \in Nat /\ 3 \in Nat
      OBVIOUS
    <3> QED
      BY <3>1
  <2>2. UNat(d, x, n) \in Nat
    BY UNatTyped
  <2> QED
    BY <1>2, <2>1, <2>2 DEF IndexOf, Result, GoesOn
<1>3. CASE IsSized(d, q, way)
  <2>1. PICK x \in Nat : x = Sizing(q, way) /\ x >= q
    BY SizingTyped
  <2>2. /\ ReadSkipped(d, x).at \in Nat /\ ReadSkipped(d, x).at >= x + 7
        /\ ReadSkipped(d, x).v \in Nat
    BY SkippedTyped
  <2>3. IndexOf(d, q, way) = ReadSkipped(d, x)
    BY <1>3, <2>1 DEF IndexOf, IsSized
  <2> QED
    BY <2>1, <2>2, <2>3 DEF GoesOn
<1> QED
  BY <1>1, <1>2, <1>3 DEF IsSized

(* An index is read as written, and its code told from the others.         *)
IndexIsRead(d, q, way, skipped) ==
    /\ ReadsAs(IndexOf(d, q, way), d, q, IndexCode(way, skipped), skipped)
    /\ q + Len(IndexCode(way, skipped)) <= Len(d) =>
          /\ IsOneBit(d, q, way) <=> way /\ skipped = 0
          /\ IsThreeBits(d, q, way) <=> way /\ skipped # 0 /\ skipped < 8
          /\ IsSized(d, q, way) => SkippedAsserted(d, Sizing(q, way))

(* No index is skipped: the new way says so in one bit.                    *)
LEMMA OneBitIndex ==
    ASSUME NEW d \in Seq(BitValues), NEW q \in Nat, Shows(d, q, << 1 >>)
    PROVE  IndexIsRead(d, q, TRUE, 0)
<1>1. PICK b \in BitValues, c \in Seq(BitValues) : b = 1 /\ c = <<b>> /\ Len(c) = 1
  <2>1. 1 \in BitValues
    BY DEF BitValues
  <2>2. PICK b \in BitValues : b = 1
    BY <2>1
  <2>3. <<b>> \in Seq(BitValues) /\ Len(<<b>>) = 1
    OBVIOUS
  <2> QED
    BY <2>2, <2>3
<1>2. IndexCode(TRUE, 0) = c
  BY <1>1 DEF IndexCode
<1>3. ASSUME q + 1 <= Len(d) PROVE OneBit(d, q) = 1
  <2>1. Shows(d, q, <<b>>)
    BY <1>1
  <2>2. OneBit(d, q) = b
    BY <1>3, <2>1, ShownBit
  <2> QED
    BY <1>1, <2>2
<1>4. GoesOn(IndexOf(d, q, TRUE), q)
  BY IndexTyped
<1>5. PICK a \in Nat : a = IndexOf(d, q, TRUE).at /\ a >= q
  BY <1>4 DEF GoesOn
<1>6. q + 1 <= Len(d) => IndexOf(d, q, TRUE) = Result(0, q + 1)
  BY <1>3 DEF IndexOf, IsOneBit
<1>7. CASE q + 1 <= Len(d)
  <2>r. IndexOf(d, q, TRUE).at = q + 1 /\ IndexOf(d, q, TRUE).v = 0
    BY <1>6, <1>7, ResultIs
  <2>1. a = q + Len(c)
    BY <1>1, <1>5, <2>r
  <2>2. ReadTo(a, d, q, c)
    BY <2>1, ReadToFixed
  <2>3. IsOneBit(d, q, TRUE) /\ ~IsThreeBits(d, q, TRUE)
    BY <1>3, <1>7 DEF IsOneBit, IsThreeBits
  <2>4. IndexOf(d, q, TRUE).v = 0
    BY <2>r
  <2> QED
    BY <1>2, <1>5, <2>2, <2>3, <2>4 DEF IndexIsRead, ReadsAs, IsSized
<1>8. CASE ~(q + 1 <= Len(d))
  <2>1. a > Len(d)
    <3>1. PICK l \in Nat : l = Len(d)
      OBVIOUS
    <3>2. OneBit(d, q) = 0 /\ OneBit(d, q + 1) = 0
      <4>1. PICK x \in Nat : x = q + 1
        OBVIOUS
      <4>2. x + 1 > Len(d) /\ q + 1 > Len(d)
        BY <1>8, <3>1, <4>1
      <4> QED
        BY <4>1, <4>2, OneBitIs
    <3>3. IsSized(d, q, TRUE)
      BY <3>2 DEF IsSized, IsOneBit, IsThreeBits
    <3>x. PICK x \in Nat : x = q + 2
      OBVIOUS
    <3>4. IndexOf(d, q, TRUE) = ReadSkipped(d, x)
      BY <3>x, <3>3 DEF IsSized, IndexOf, Sizing
    <3>5. ReadSkipped(d, x).at >= x + 7
      BY SkippedTyped
    <3>6. a >= x + 7
      BY <1>5, <3>4, <3>5
    <3>7. a > l
      BY <1>8, <3>1, <3>x, <3>6
    <3> QED
      BY <3>1, <3>7
  <2>2. PICK l \in Nat : l = Len(d)
    OBVIOUS
  <2>3. ReadTo(a, d, q, c) /\ ~(q + Len(c) <= Len(d))
    BY <1>1, <1>5, <1>8, <2>1, <2>2 DEF ReadTo
  <2> QED
    BY <1>2, <1>5, <2>3 DEF IndexIsRead, ReadsAs
<1> QED
  BY <1>7, <1>8

(* Two bits that are shown, the first of them 0.                           *)
LEMMA PairShown ==
    ASSUME NEW d \in Seq(BitValues), NEW q \in Nat, NEW b \in BitValues, Shows(d, q, <<0, b>>)
    PROVE  /\ <<0, b>> \in Seq(BitValues) /\ Len(<<0, b>>) = 2
           /\ OneBit(d, q) = 0
           /\ OneBit(d, q + 1) = IF q + 2 <= Len(d) THEN b ELSE 0
<1>1. PICK z \in BitValues : z = 0
  BY DEF BitValues
<1>2. <<z, b>> \in Seq(BitValues) /\ Len(<<z, b>>) = 2
  OBVIOUS
<1>3. PICK c \in Seq(BitValues) : c = <<0, b>> /\ Len(c) = 2 /\ c[1] = 0 /\ c[2] = b
  BY <1>1, <1>2
<1>4. \A k \in 1 .. 2 : q + k <= Len(d) => d[q + k] = c[k]
  BY <1>3 DEF Shows
<1>5. OneBit(d, q) = 0
  <2>1. CASE q + 1 <= Len(d)
    <3>1. OneBit(d, q) = d[q + 1]
      BY <2>1, OneBitIs
    <3>2. 1 \in 1 .. 2
      OBVIOUS
    <3> QED
      BY <1>3, <1>4, <2>1, <3>1, <3>2
  <2>2. CASE ~(q + 1 <= Len(d))
    <3>1. q + 1 > Len(d)
      BY <2>2
    <3> QED
      BY <3>1, OneBitIs
  <2> QED
    BY <2>1, <2>2
<1>6. OneBit(d, q + 1) = IF q + 2 <= Len(d) THEN b ELSE 0
  <2>0. PICK x \in Nat : x = q + 1 /\ x + 1 = q + 2
    OBVIOUS
  <2>1. CASE q + 2 <= Len(d)
    <3>1. OneBit(d, x) = d[q + 2]
      <4>1. OneBit(d, x) = d[x + 1]
        BY <2>0, <2>1, OneBitIs
      <4> QED
        BY <2>0, <4>1
    <3>2. 2 \in 1 .. 2
      OBVIOUS
    <3>3. d[q + 2] = c[2]
      BY <1>4, <2>1, <3>2
    <3> QED
      BY <1>3, <2>0, <2>1, <3>1, <3>3
  <2>2. CASE ~(q + 2 <= Len(d))
    <3>1. x + 1 > Len(d)
      BY <2>0, <2>2
    <3>2. OneBit(d, x) = 0
      BY <3>1, OneBitIs
    <3> QED
      BY <2>0, <2>2, <3>2
  <2> QED
    BY <2>1, <2>2
<1> QED
  BY <1>3, <1>5, <1>6

(* Two bits tell how the rest is written.                                  *)
PairThen(d, q, b, t, way, skipped) ==
    /\ IsPlace(d, q) /\ b \in BitValues /\ t \in Seq(BitValues) /\ skipped \in Nat
    /\ way = TRUE
    /\ IndexCode(way, skipped) = <<0, b>> \o t
    /\ Shows(d, q, IndexCode(way, skipped))

(* What follows the two bits is read as written, if it is within the data. *)
LEMMA PairRead ==
    ASSUME NEW d, NEW q, NEW b, NEW t, NEW way, NEW skipped, PairThen(d, q, b, t, way, skipped),
           q + 2 <= Len(d) =>
              /\ ReadTo(IndexOf(d, q, way).at, d, q + 2, t)
              /\ (q + 2) + Len(t) <= Len(d) => IndexOf(d, q, way).v = skipped
    PROVE  /\ ReadsAs(IndexOf(d, q, way), d, q, IndexCode(way, skipped), skipped)
           /\ Len(IndexCode(way, skipped)) = 2 + Len(t)
<1>0. /\ d \in Seq(BitValues) /\ q \in Nat /\ b \in BitValues /\ t \in Seq(BitValues)
      /\ skipped \in Nat /\ way = TRUE
      /\ IndexCode(way, skipped) = <<0, b>> \o t /\ Shows(d, q, IndexCode(way, skipped))
  BY DEF PairThen, IsPlace
<1>1. PICK z \in BitValues : z = 0
  BY DEF BitValues
<1>2. <<z, b>> \in Seq(BitValues) /\ Len(<<z, b>>) = 2
  BY <1>0
<1>3. PICK h \in Seq(BitValues) : h = <<0, b>> /\ Len(h) = 2
  BY <1>1, <1>2
<1>4. /\ Shows(d, q, h) /\ Shows(d, q + Len(h), t)
      /\ h \o t \in Seq(BitValues) /\ Len(h \o t) = Len(h) + Len(t) /\ Len(t) \in Nat
  <2>1. Shows(d, q, h \o t)
    BY <1>0, <1>3
  <2> QED
    BY <1>0, <2>1, ShowsJoined
<1>5. OneBit(d, q) = 0 /\ OneBit(d, q + 1) = IF q + 2 <= Len(d) THEN b ELSE 0
  BY <1>0, <1>3, <1>4, PairShown
<1>6. GoesOn(IndexOf(d, q, way), q)
  BY <1>0, IndexTyped
<1>7. PICK a \in Nat, l \in Nat, x \in Nat :
         a = IndexOf(d, q, way).at /\ a >= q /\ l = Len(d) /\ x = q + 2
  <2>1. q + 2 \in Nat /\ Len(d) \in Nat
    BY <1>0
  <2> QED
    BY <1>6, <2>1 DEF GoesOn
<1>8. CASE x <= l
  <2>1. a >= x
    BY <1>7, <1>8 DEF ReadTo
  <2>2. ReadTo(x, d, q, h)
    <3>1. ReadTo(q + Len(h), d, q, h)
      BY <1>0, ReadToFixed
    <3> QED
      BY <1>3, <1>7, <3>1
  <2>3. ReadTo(a, d, q + Len(h), t)
    BY <1>3, <1>7, <1>8
  <2>4. ReadTo(a, d, q, h \o t)
    BY <1>0, <2>1, <2>2, <2>3, ReadToBoth
  <2>5. ASSUME q + Len(h \o t) <= Len(d) PROVE IndexOf(d, q, way).v = skipped
    <3>1. PICK m \in Nat : m = Len(t) /\ q + (2 + m) <= l
      BY <1>3, <1>4, <1>7, <2>5
    <3>2. (q + 2) + m <= l
      BY <1>0, <3>1
    <3> QED
      BY <1>7, <1>8, <3>1, <3>2
  <2> QED
    BY <1>0, <1>3, <1>4, <1>7, <2>4, <2>5 DEF ReadsAs
<1>9. CASE ~(x <= l)
  <2>1. OneBit(d, q + 1) = 0
    BY <1>5, <1>7, <1>9
  <2>2. IsSized(d, q, way)
    BY <1>5, <2>1 DEF IsSized, IsOneBit, IsThreeBits
  <2>3. IndexOf(d, q, way) = ReadSkipped(d, x)
    BY <1>0, <1>7, <2>2 DEF IndexOf, IsSized, Sizing
  <2>4. ReadSkipped(d, x).at >= x + 7
    BY <1>0, SkippedTyped
  <2>5. a > l
    <3>1. a >= x + 7
      BY <1>7, <2>3, <2>4
    <3> QED
      BY <1>9, <3>1
  <2>6. PICK w \in Nat, m \in Nat : w = Len(h \o t) /\ m = Len(t) /\ w = 2 + m
    BY <1>3, <1>4
  <2>7. ~(q + w <= l)
    BY <1>0, <1>7, <1>9, <2>6
  <2>8. ReadTo(a, d, q, h \o t)
    BY <1>7, <2>5, <2>6, <2>7 DEF ReadTo
  <2> QED
    BY <1>0, <1>3, <1>4, <1>7, <2>6, <2>7, <2>8 DEF ReadsAs
<1> QED
  BY <1>8, <1>9

(* Fewer than eight indices are skipped: in three bits more.               *)
LEMMA ThreeBitsIndex ==
    ASSUME NEW d \in Seq(BitValues), NEW q \in Nat, NEW skipped \in Nat, skipped # 0, skipped < 8,
           Shows(d, q, IndexCode(TRUE, skipped))
    PROVE  IndexIsRead(d, q, TRUE, skipped)
<1>1. PICK n : n = 3
  OBVIOUS
<1>2. n \in Nat /\ n \in 0 .. 30 /\ n <= 30 /\ 2^n = 8
  BY <1>1, SMT
<1>3. PICK t \in Seq(BitValues) : t = ToBits(skipped, n) /\ Len(t) = n
  BY <1>2, ToBitsIs
<1>a. PICK b \in BitValues : b = 1
  BY DEF BitValues
<1>4. PICK way : b = 1 /\ way = TRUE
  BY <1>a
<1>5. IndexCode(way, skipped) = <<0, b>> \o t
  BY <1>1, <1>3, <1>4 DEF IndexCode
<1>6. PairThen(d, q, b, t, way, skipped)
  BY <1>4, <1>5 DEF PairThen, IsPlace
<1>7. Shows(d, q, <<0, b>>) /\ Shows(d, q + 2, t)
  <2>1. PICK z \in BitValues : z = 0
    BY DEF BitValues
  <2>2. <<z, b>> \in Seq(BitValues) /\ Len(<<z, b>>) = 2
    OBVIOUS
  <2>3. PICK h \in Seq(BitValues) : h = <<0, b>> /\ Len(h) = 2
    BY <2>1, <2>2
  <2>4. Shows(d, q, h \o t)
    BY <1>4, <1>5, <2>3
  <2>5. Shows(d, q, h) /\ Shows(d, q + Len(h), t)
    BY <2>4, ShowsJoined
  <2> QED
    BY <2>3, <2>5
<1>8. OneBit(d, q) = 0 /\ OneBit(d, q + 1) = IF q + 2 <= Len(d) THEN b ELSE 0
  BY <1>7, PairShown
<1>9. PICK x \in Nat : x = q + 2
  OBVIOUS
<1>10. q + 2 <= Len(d) => ~IsOneBit(d, q, way) /\ IsThreeBits(d, q, way)
  BY <1>4, <1>8 DEF IsOneBit, IsThreeBits
<1>11. ASSUME q + 2 <= Len(d)
       PROVE  /\ ReadTo(IndexOf(d, q, way).at, d, q + 2, t)
              /\ (q + 2) + Len(t) <= Len(d) => IndexOf(d, q, way).v = skipped
  <2>1. IndexOf(d, q, way) = Result(UNat(d, x, n), q + 5)
    BY <1>1, <1>9, <1>10, <1>11 DEF IndexOf
  <2>2. IndexOf(d, q, way).v = UNat(d, x, n) /\ IndexOf(d, q, way).at = q + 5
    BY <2>1, ResultIs
  <2>3. ReadTo(x + Len(t), d, x, t)
    BY ReadToFixed
  <2>4. x + Len(t) = q + 5
    <3>1. Len(t) = 3
      BY <1>1, <1>3
    <3>2. x + 3 = q + 5
      BY <1>9
    <3> QED
      BY <3>1, <3>2
  <2>5. ASSUME x + Len(t) <= Len(d) PROVE UNat(d, x, n) = skipped
    <3>1. Shows(d, x, ToBits(skipped, n)) /\ x + n <= Len(d) /\ skipped < 2^n
      BY <1>2, <1>3, <1>7, <1>9, <2>5
    <3> QED
      BY <1>2, <3>1, ShownNumber
  <2> QED
    BY <1>9, <2>2, <2>3, <2>4, <2>5
<1>12. /\ ReadsAs(IndexOf(d, q, way), d, q, IndexCode(way, skipped), skipped)
       /\ Len(IndexCode(way, skipped)) = 2 + Len(t)
  BY <1>6, <1>11, PairRead
<1>13. ASSUME q + Len(IndexCode(way, skipped)) <= Len(d) PROVE q + 2 <= Len(d)
  <2>1. PICK m \in Nat, l \in Nat : m = Len(t) /\ l = Len(d)
    OBVIOUS
  <2>2. q + (2 + m) <= l
    BY <1>12, <1>13, <2>1
  <2> QED
    BY <2>1, <2>2
<1>14. IndexIsRead(d, q, way, skipped)
  BY <1>4, <1>10, <1>12, <1>13 DEF IndexIsRead, IsSized
<1> QED
  BY <1>4, <1>14

(* More are written with their size.                                       *)
LEMMA SizedNewIndex ==
    ASSUME NEW d \in Seq(BitValues), NEW q \in Nat, NEW skipped \in Nat, skipped >= 8,
           skipped <= MaxSkipped, Shows(d, q, IndexCode(TRUE, skipped))
    PROVE  IndexIsRead(d, q, TRUE, skipped)
<1>3. PICK t \in Seq(BitValues) : t = SkippedCode(skipped)
  <2>1. PICK e \in Seq(BitValues), z \in Nat : Shows(e, z, SkippedCode(skipped))
    BY ShownByNothing
  <2> QED
    BY <2>1, SkippedRead
<1>a. PICK b \in BitValues : b = 0
  BY DEF BitValues
<1>4. PICK way : b = 0 /\ way = TRUE
  BY <1>a
<1>5. IndexCode(way, skipped) = <<0, b>> \o t
  BY <1>3, <1>4 DEF IndexCode
<1>6. PairThen(d, q, b, t, way, skipped)
  BY <1>4, <1>5 DEF PairThen, IsPlace
<1>7. Shows(d, q, <<0, b>>) /\ Shows(d, q + 2, t)
  <2>2. <<b, b>> \in Seq(BitValues) /\ Len(<<b, b>>) = 2
    OBVIOUS
  <2>3. PICK h \in Seq(BitValues) : h = <<0, b>> /\ Len(h) = 2
    BY <1>4, <2>2
  <2>4. Shows(d, q, h \o t)
    BY <1>4, <1>5, <2>3
  <2>5. Shows(d, q, h) /\ Shows(d, q + Len(h), t)
    BY <2>4, ShowsJoined
  <2> QED
    BY <2>3, <2>5
<1>8. OneBit(d, q) = 0 /\ OneBit(d, q + 1) = IF q + 2 <= Len(d) THEN b ELSE 0
  BY <1>7, PairShown
<1>9. PICK x \in Nat : x = q + 2
  OBVIOUS
<1>10. ~IsOneBit(d, q, way) /\ ~IsThreeBits(d, q, way)
  BY <1>4, <1>8 DEF IsOneBit, IsThreeBits
<1>11. IndexOf(d, q, way) = ReadSkipped(d, x) /\ Sizing(q, way) = x
  BY <1>4, <1>9, <1>10 DEF IndexOf, Sizing
<1>12. /\ ReadTo(ReadSkipped(d, x).at, d, x, t)
       /\ x + Len(t) <= Len(d) => ReadSkipped(d, x).v = skipped /\ SkippedAsserted(d, x)
  <2>1. Shows(d, x, SkippedCode(skipped))
    BY <1>3, <1>7, <1>9
  <2> QED
    BY <1>3, <2>1, SkippedRead
<1>13. /\ ReadsAs(IndexOf(d, q, way), d, q, IndexCode(way, skipped), skipped)
       /\ Len(IndexCode(way, skipped)) = 2 + Len(t)
  BY <1>6, <1>9, <1>11, <1>12, PairRead
<1>14. ASSUME q + Len(IndexCode(way, skipped)) <= Len(d) PROVE x + Len(t) <= Len(d)
  <2>1. PICK m \in Nat, l \in Nat : m = Len(t) /\ l = Len(d)
    OBVIOUS
  <2>2. q + (2 + m) <= l
    BY <1>13, <1>14, <2>1
  <2>3. x + m <= l
    BY <1>9, <2>1, <2>2
  <2> QED
    BY <2>1, <2>3
<1>15. IndexIsRead(d, q, way, skipped)
  BY <1>10, <1>11, <1>12, <1>13, <1>14 DEF IndexIsRead
<1> QED
  BY <1>4, <1>15

(* The old way writes every index with its size.                           *)
LEMMA OldIndex ==
    ASSUME NEW d \in Seq(BitValues), NEW q \in Nat, NEW skipped \in Nat,
           skipped <= MaxSkipped, Shows(d, q, IndexCode(FALSE, skipped))
    PROVE  IndexIsRead(d, q, FALSE, skipped)
<1>1. IndexCode(FALSE, skipped) = SkippedCode(skipped)
  BY DEF IndexCode
<1>2. ~IsOneBit(d, q, FALSE) /\ ~IsThreeBits(d, q, FALSE)
  BY DEF IsOneBit, IsThreeBits
<1>3. IndexOf(d, q, FALSE) = ReadSkipped(d, q) /\ Sizing(q, FALSE) = q
  BY <1>2 DEF IndexOf, Sizing
<1>4. Shows(d, q, SkippedCode(skipped))
  BY <1>1
<1>5. /\ SkippedCode(skipped) \in Seq(BitValues)
      /\ ReadTo(ReadSkipped(d, q).at, d, q, SkippedCode(skipped))
      /\ q + Len(SkippedCode(skipped)) <= Len(d) =>
            ReadSkipped(d, q).v = skipped /\ SkippedAsserted(d, q)
  BY <1>4, SkippedRead
<1> QED
  BY <1>1, <1>2, <1>3, <1>5 DEF IndexIsRead, ReadsAs

(* A field index is read as written, in either way.                        *)
LEMMA IndexRead ==
    ASSUME NEW d \in Seq(BitValues), NEW q \in Nat, NEW way \in BOOLEAN, NEW skipped \in Nat,
           skipped <= MaxSkipped, Shows(d, q, IndexCode(way, skipped))
    PROVE  IndexIsRead(d, q, way, skipped)
<1>1. CASE way = FALSE
  BY <1>1, OldIndex
<1>2. CASE way = TRUE /\ skipped = 0
  <2>1. IndexCode(TRUE, 0) = << 1 >>
    BY DEF IndexCode
  <2> QED
    BY <1>2, <2>1, OneBitIndex
<1>3. CASE way = TRUE /\ skipped # 0 /\ skipped < 8
  BY <1>3, ThreeBitsIndex
<1>4. CASE way = TRUE /\ ~(skipped < 8)
  <2>1. skipped >= 8
    BY <1>4
  <2> QED
    BY <1>4, <2>1, SizedNewIndex
<1>5. way = FALSE \/ way = TRUE
  OBVIOUS
<1>6. way = TRUE => skipped = 0 \/ (skipped # 0 /\ skipped < 8) \/ ~(skipped < 8)
  OBVIOUS
<1> QED
  BY <1>1, <1>2, <1>3, <1>4, <1>5, <1>6

(* The code of an index is bits.                                           *)
LEMMA IndexCodeTyped ==
    ASSUME NEW way \in BOOLEAN, NEW skipped \in Nat, skipped <= MaxSkipped
    PROVE  IndexCode(way, skipped) \in Seq(BitValues)
<1>1. PICK e \in Seq(BitValues), z \in Nat : Shows(e, z, IndexCode(way, skipped))
  BY ShownByNothing
<1>2. IndexIsRead(e, z, way, skipped)
  BY <1>1, IndexRead
<1> QED
  BY <1>2 DEF IndexIsRead, ReadsAs

(***************************************************************************)
(* The inductive invariant.                                                *)
(***************************************************************************)

(* The parts of an entity's code, and where they lie.                      *)
HeadCode(base, e) ==
    UBitVarCode(e.id - base - 1)
        \o (IF e.kind = "leave" THEN << 1 >> \o Flag(e.delete)
            ELSE Flag(FALSE) \o Flag(e.kind = "enter"))
EnterCode(e) ==
    Unless(e.kind # "enter",
        ToBits(e.class, s_nServerClassBits) \o ToBits(e.serial, NUM_NETWORKED_EHANDLE_SERIAL_NUMBER_BITS))
IndexParts(e) == [i \in 1 .. Len(e.fields) |-> IndexCode(e.way, Skips(e.fields, i))]
IndexPart(e) == Flat(IndexParts(e), Len(e.fields)) \o IndexCode(e.way, 4095)
PropOf(e, i) == flattenedProps[e.class][e.fields[i].index]
ValueParts(e) == [i \in 1 .. Len(e.fields) |-> PropCode(PropOf(e, i), e.fields[i].value)]
RestCode(e) ==
    Unless(e.kind = "leave", (Flag(e.way) \o IndexPart(e)) \o Flat(ValueParts(e), Len(e.fields)))
EntityParts(message) ==
    [i \in 1 .. Len(message) |-> EntityCode(IF i = 1 THEN -1 ELSE message[i - 1].id, message[i])]

(* The entity that is read next or now, and the number before it.          *)
Whose == sent[Len(got) + 1]
Base == IF Len(got) = 0 THEN -1 ELSE sent[Len(got)].id

Start == Len(Flat(EntityParts(sent), Len(got)))
AfterHead == Start + Len(HeadCode(Base, Whose))
AfterEnter == AfterHead + Len(EnterCode(Whose))
AfterWay == AfterEnter + 1
AfterIndices == AfterWay + Len(IndexPart(Whose))

(* An entity as far as it was read.                                        *)
WithFields(e, fields) ==
    [id |-> e.id, kind |-> e.kind, delete |-> e.delete, class |-> e.class,
     serial |-> e.serial, way |-> e.way, fields |-> fields]
Begun(e) ==
    [id |-> e.id, kind |-> e.kind, delete |-> e.delete, class |-> e.class,
     serial |-> e.serial, way |-> FALSE, fields |-> <<>>]
SameField(class, f, g) ==
    /\ f = Field(g.index, f.value)
    /\ NotScaled(flattenedProps[class][g.index]) \/ f.value = g.value

(* What is known of a state whose position is still within the data.       *)
GotAsSent == \A i \in 1 .. Len(got) : Compared(got[i]) = Compared(sent[i])
TableHas(base) == \A id \in DOMAIN Present : id > base => id \in DOMAIN table /\ table[id] = Present[id]
AtHeader == pc = "header" => at = Start /\ nHeaderBase = Base /\ TableHas(Base)
AtKind ==
    pc \in {"enter", "leave", "delta"} =>
        /\ at = AfterHead /\ pc = Whose.kind /\ TableHas(Base)
        /\ entity = [NoEntity EXCEPT !.id = Whose.id, !.kind = Whose.kind, !.delete = Whose.delete]
Within ==
    pc \in {"way", "indices", "values"} =>
        Whose.kind # "leave" /\ TableHas(Whose.id)
AtWay == pc = "way" => at = AfterEnter /\ entity = Begun(Whose)
AtIndices ==
    pc = "indices" =>
        /\ entity = WithFields(Whose, <<>>)
        /\ Len(fieldIndices) <= Len(Whose.fields)
        /\ at = AfterWay + Len(Flat(IndexParts(Whose), Len(fieldIndices)))
        /\ index = IF Len(fieldIndices) = 0 THEN -1 ELSE Whose.fields[Len(fieldIndices)].index
        /\ \A i \in 1 .. Len(fieldIndices) : fieldIndices[i] = Whose.fields[i].index
AtValues ==
    pc = "values" =>
        /\ entity = WithFields(Whose, entity.fields)
        /\ Len(entity.fields) + Len(fieldIndices) = Len(Whose.fields)
        /\ at = AfterIndices + Len(Flat(ValueParts(Whose), Len(entity.fields)))
        /\ \A i \in 1 .. Len(fieldIndices) :
              fieldIndices[i] = Whose.fields[Len(entity.fields) + i].index
        /\ \A i \in 1 .. Len(entity.fields) :
              SameField(Whose.class, entity.fields[i], Whose.fields[i])
InPlace ==
    /\ GotAsSent /\ (pc # "header" => nHeaderBase = Whose.id)
    /\ AtHeader /\ AtKind /\ Within /\ AtWay /\ AtIndices /\ AtValues

Reading == pc \notin {"done", "abort"}

(* What is known of every state.                                           *)
Written ==
    /\ sent \in Messages
    /\ data \in Seq(BitValues) /\ Shows(data, 0, MessageCode(sent))
    /\ at \in Nat
    /\ pc \in {"header", "enter", "leave", "delta", "way", "indices", "values", "done", "abort"}
    /\ IsRow(got) /\ Len(got) <= Len(sent)
    /\ Reading /\ pc # "header" => Len(got) < Len(sent)
Numbered ==
    /\ nHeaderBase \in Nat \union {-1} /\ index \in Nat \union {-1}
    /\ fieldIndices \in Seq(Nat)
    /\ \A i, j \in 1 .. Len(fieldIndices) : i < j => fieldIndices[i] < fieldIndices[j]
    /\ pc = "indices" => \A i \in 1 .. Len(fieldIndices) : fieldIndices[i] <= index
Formed ==
    /\ \A id \in DOMAIN table : table[id] \in Classes
    /\ entity = [id |-> entity.id, kind |-> entity.kind, delete |-> entity.delete,
                 class |-> entity.class, serial |-> entity.serial, way |-> entity.way,
                 fields |-> entity.fields]
    /\ entity.class \in Classes /\ entity.way \in BOOLEAN /\ IsRow(entity.fields)
    /\ pc \in {"enter", "leave", "delta", "way", "indices"} => entity.fields = <<>>
Typed == Written /\ Numbered /\ Formed

IInv ==
    /\ Typed
    /\ Reading /\ at <= Len(data) => InPlace
    /\ Reading /\ AllThere => at <= Len(data)
    /\ pc = "abort" => ~AllThere

EntityIsOne(e) ==
    /\ e.id \in Nat /\ e.id <= ENTITY_SENTINEL /\ e.kind \in {"leave", "enter", "delta"}
    /\ e.delete \in BOOLEAN /\ e.way \in BOOLEAN /\ e.class \in Classes /\ IsRow(e.fields)
    /\ e = [id |-> e.id, kind |-> e.kind, delete |-> e.delete, class |-> e.class,
            serial |-> e.serial, way |-> e.way, fields |-> e.fields]
    /\ e.kind = "leave" => e = [NoEntity EXCEPT !.id = e.id, !.kind = e.kind, !.delete = e.delete]
    /\ e.kind # "leave" => e.delete = FALSE /\ IsFields(flattenedProps[e.class], e.fields)
    /\ e.kind = "enter" =>
          /\ e.class < 2^s_nServerClassBits /\ e.serial \in Nat
          /\ e.serial < 2^NUM_NETWORKED_EHANDLE_SERIAL_NUMBER_BITS
    /\ e.kind = "delta" => e.id \in DOMAIN Present /\ e.class = Present[e.id] /\ e.serial = 0

(***************************************************************************)
(* What the parts of an entity are, and how its head is read.              *)
(***************************************************************************)

(* Nothing is a row.                                                       *)
LEMMA NoRow == IsRow(<<>>)
<1>1. Len(<<>>) = 0
  OBVIOUS
<1>2. <<>> = [i \in 1 .. 0 |-> <<>>[i]]
  OBVIOUS
<1> QED
  BY <1>1, <1>2 DEF IsRow

(* What may be said of an entity of a message.                             *)
LEMMA EntityIs ==
    ASSUME NEW e, IsEntity(e)
    PROVE  EntityIsOne(e)
<1>1. e.id \in Nat /\ e.id <= ENTITY_SENTINEL
  <2>1. PICK n \in Nat : n = ENTITY_SENTINEL
    BY DEF ENTITY_SENTINEL
  <2>2. e.id \in 0 .. n
    BY <2>1 DEF IsEntity
  <2> QED
    BY <2>1, <2>2
<1>2. CASE e.kind = "leave"
  <2>1. e.delete \in BOOLEAN /\ e = [NoEntity EXCEPT !.id = e.id, !.kind = e.kind, !.delete = e.delete]
    BY <1>2 DEF IsEntity
  <2>2. e = [id |-> e.id, kind |-> e.kind, delete |-> e.delete, class |-> 0, serial |-> 0,
             way |-> FALSE, fields |-> <<>>]
    BY <2>1 DEF NoEntity
  <2>3. e.class = 0 /\ e.serial = 0 /\ e.way = FALSE /\ e.fields = <<>>
    BY <2>2
  <2>4. 0 \in Classes
    BY ClassesAssumption
  <2> QED
    BY <1>1, <1>2, <2>1, <2>2, <2>3, <2>4, NoRow DEF EntityIsOne
<1>3. CASE e.kind # "leave"
  <2>1. /\ e.kind \in {"enter", "delta"}
        /\ IF e.kind = "enter"
           THEN /\ e.class \in Classes /\ e.class < 2^s_nServerClassBits
                /\ e.serial \in 0 .. 2^NUM_NETWORKED_EHANDLE_SERIAL_NUMBER_BITS - 1
           ELSE e.id \in DOMAIN Present /\ e.class = Present[e.id] /\ e.serial = 0
        /\ e.way \in BOOLEAN /\ IsFields(flattenedProps[e.class], e.fields)
        /\ e = [NoEntity EXCEPT !.id = e.id, !.kind = e.kind, !.class = e.class,
                      !.serial = e.serial, !.way = e.way, !.fields = e.fields]
    BY <1>3 DEF IsEntity
  <2>2. e = [id |-> e.id, kind |-> e.kind, delete |-> FALSE, class |-> e.class, serial |-> e.serial,
             way |-> e.way, fields |-> e.fields]
    BY <2>1 DEF NoEntity
  <2>3. e.delete = FALSE
    BY <2>2
  <2>4. e.class \in Classes
    BY <2>1, ClassesAssumption
  <2>5. IsRow(e.fields)
    BY <2>1 DEF IsFields, IsRow
  <2>6. e.kind = "enter" => e.serial \in Nat /\ e.serial < 2^NUM_NETWORKED_EHANDLE_SERIAL_NUMBER_BITS
    <3>1. PICK n \in Nat : n = 2^NUM_NETWORKED_EHANDLE_SERIAL_NUMBER_BITS
      <4>1. 2^10 \in Nat
        BY SMT
      <4> QED
        BY <4>1 DEF NUM_NETWORKED_EHANDLE_SERIAL_NUMBER_BITS
    <3>2. e.kind = "enter" => e.serial \in 0 .. n - 1
      BY <2>1, <3>1
    <3>3. e.kind = "enter" => e.serial \in Nat /\ e.serial < n
      BY <3>1, <3>2
    <3> QED
      BY <3>1, <3>3
  <2> QED
    BY <1>1, <1>3, <2>1, <2>2, <2>3, <2>4, <2>5, <2>6 DEF EntityIsOne
<1> QED
  BY <1>2, <1>3

(* What may be said of the fields of an entity.                            *)
FieldsAre(e) ==
    \A i \in 1 .. Len(e.fields) :
        /\ e.fields[i] = Field(e.fields[i].index, e.fields[i].value)
        /\ e.fields[i].index \in Nat /\ e.fields[i].index \in DOMAIN flattenedProps[e.class]
        /\ Skips(e.fields, i) \in Nat /\ Skips(e.fields, i) < MaxSkipped
        /\ IsProp(PropOf(e, i)) /\ PropHas(PropOf(e, i), e.fields[i].value)
        /\ e.fields[i].index = (IF i = 1 THEN -1 ELSE e.fields[i - 1].index) + 1 + Skips(e.fields, i)

(* A field has a value its prop can have, and skips fewer indices than the *)
(* end marker does.                                                        *)
LEMMA FieldsOf ==
    ASSUME NEW props, NEW fields, IsFields(props, fields), NEW i \in 1 .. Len(fields)
    PROVE  /\ fields[i] = Field(fields[i].index, fields[i].value)
           /\ fields[i].index \in DOMAIN props
           /\ Skips(fields, i) \in Nat /\ Skips(fields, i) < MaxSkipped
           /\ PropHas(props[fields[i].index], fields[i].value)
<1>1. fields[i] = Field(fields[i].index, fields[i].value)
  BY DEF IsFields
<1>2. fields[i].index \in DOMAIN props
  BY DEF IsFields
<1>3. Skips(fields, i) \in Nat
  BY DEF IsFields
<1>4. Skips(fields, i) < MaxSkipped
  BY DEF IsFields, MaxSkipped
<1>5. PropHas(props[fields[i].index], fields[i].value)
  BY DEF IsFields
<1> QED
  BY <1>1, <1>2, <1>3, <1>4, <1>5

(* So do all fields of an entity.                                          *)
LEMMA FieldsFit ==
    ASSUME NEW e, IsEntity(e), e.kind # "leave"
    PROVE  FieldsAre(e)
<1>0. IsFields(flattenedProps[e.class], e.fields) /\ e.class \in Classes
  BY EntityIs DEF EntityIsOne
<1>1. \A i \in 1 .. Len(e.fields) :
        /\ e.fields[i] = Field(e.fields[i].index, e.fields[i].value)
        /\ e.fields[i].index \in DOMAIN flattenedProps[e.class] /\ Skips(e.fields, i) \in Nat
        /\ Skips(e.fields, i) < MaxSkipped
        /\ PropHas(flattenedProps[e.class][e.fields[i].index], e.fields[i].value)
  BY <1>0, FieldsOf
<1>2. \A i \in DOMAIN flattenedProps[e.class] : i \in Nat /\ IsProp(flattenedProps[e.class][i])
  BY <1>0, ClassesAssumption
<1>3. ASSUME NEW i \in 1 .. Len(e.fields)
      PROVE  Skips(e.fields, i) \in Nat /\ Skips(e.fields, i) < MaxSkipped
  BY <1>1
<1>r. Len(e.fields) \in Nat
  BY <1>0 DEF IsFields, IsRow
<1>4. ASSUME NEW i \in 1 .. Len(e.fields)
      PROVE  e.fields[i].index = (IF i = 1 THEN -1 ELSE e.fields[i - 1].index) + 1 + Skips(e.fields, i)
  <2>1. e.fields[i].index \in Nat
    BY <1>1, <1>2
  <2>2. i # 1 => e.fields[i - 1].index \in Nat
    <3>1. i # 1 => i - 1 \in 1 .. Len(e.fields)
      BY <1>r
    <3> QED
      BY <1>1, <1>2, <3>1
  <2> QED
    BY <2>1, <2>2 DEF Skips
<1> QED
  BY <1>1, <1>2, <1>3, <1>4 DEF FieldsAre, PropOf

(* The codes of the indices and of the values.                             *)
LEMMA PartsOfRest ==
    ASSUME NEW e, IsEntity(e), e.kind # "leave"
    PROVE  /\ Len(e.fields) \in Nat
           /\ Parts(IndexParts(e), Len(e.fields), BitValues)
           /\ Parts(ValueParts(e), Len(e.fields), BitValues)
           /\ IndexCode(e.way, 4095) \in Seq(BitValues)
<1>0. IsRow(e.fields) /\ e.way \in BOOLEAN
  BY EntityIs DEF EntityIsOne
<1>1. FieldsAre(e)
  BY FieldsFit
<1>m. MaxSkipped \in Nat /\ 4095 \in Nat /\ 4095 <= MaxSkipped
  BY DEF MaxSkipped
<1>2. ASSUME NEW i \in 1 .. Len(e.fields) PROVE IndexParts(e)[i] \in Seq(BitValues)
  <2>1. Skips(e.fields, i) \in Nat /\ Skips(e.fields, i) < MaxSkipped
    BY <1>1 DEF FieldsAre
  <2>2. Skips(e.fields, i) <= MaxSkipped
    BY <1>m, <2>1
  <2>3. IndexCode(e.way, Skips(e.fields, i)) \in Seq(BitValues)
    BY <1>0, <2>1, <2>2, IndexCodeTyped
  <2> QED
    BY <2>3 DEF IndexParts
<1>3. ASSUME NEW i \in 1 .. Len(e.fields) PROVE ValueParts(e)[i] \in Seq(BitValues)
  <2>1. IsProp(PropOf(e, i)) /\ PropHas(PropOf(e, i), e.fields[i].value)
    BY <1>1 DEF FieldsAre
  <2>2. PropCode(PropOf(e, i), e.fields[i].value) \in Seq(BitValues)
    BY <2>1, PropCodeTyped
  <2> QED
    BY <2>2 DEF ValueParts
<1>4. IndexCode(e.way, 4095) \in Seq(BitValues)
  BY <1>0, <1>m, IndexCodeTyped
<1> QED
  BY <1>0, <1>2, <1>3, <1>4 DEF Parts, IsRow

(* The code of an entity is its head, what entering adds, and the rest.    *)
LEMMA EntityCodeIs ==
    ASSUME NEW base, NEW e, IsEntity(e)
    PROVE  EntityCode(base, e) = (HeadCode(base, e) \o EnterCode(e)) \o RestCode(e)
<1>1. CASE e.kind = "leave"
  BY <1>1 DEF EntityCode, HeadCode, EnterCode, RestCode, Unless
<1>2. CASE e.kind # "leave"
  <2>0. IsRow(e.fields)
    BY EntityIs DEF EntityIsOne
  <2>1. DOMAIN e.fields = 1 .. Len(e.fields)
    BY <2>0 DEF IsRow
  <2> DEFINE indices == [i \in DOMAIN e.fields |-> e.fields[i].index]
             codes == [i \in DOMAIN e.fields |->
                          PropCode(flattenedProps[e.class][e.fields[i].index], e.fields[i].value)]
             n == Len(e.fields)
  <2>2. FlattenSeq(codes) = Flat(ValueParts(e), n)
    <3>1. ValueParts(e) = [i \in 1 .. n |-> ValueParts(e)[i]]
      BY DEF ValueParts
    <3>2. FlattenSeq(ValueParts(e)) = Flat(ValueParts(e), n)
      BY <3>1, FlatWhole
    <3>3. codes = ValueParts(e)
      BY <2>1 DEF ValueParts, PropOf
    <3> QED
      BY <3>2, <3>3
  <2>3. IndicesCode(e.way, indices) = IndexPart(e)
    <3>1. DOMAIN indices = 1 .. n /\ \A i \in 1 .. n : indices[i] = e.fields[i].index
      BY <2>1
    <3>2. \A i \in 1 .. n : i # 1 => i - 1 \in 1 .. n
      BY <2>0 DEF IsRow
    <3>3. \A i \in 1 .. n : indices[i] - (IF i = 1 THEN -1 ELSE indices[i - 1]) - 1
                               = Skips(e.fields, i)
      BY <3>1, <3>2 DEF Skips
    <3> DEFINE parts == [i \in DOMAIN indices |->
                    IndexCode(e.way, indices[i] - (IF i = 1 THEN -1 ELSE indices[i - 1]) - 1)]
    <3>5. IndicesCode(e.way, indices) = FlattenSeq(parts) \o IndexCode(e.way, 4095)
      BY DEF IndicesCode
    <3>4. parts = IndexParts(e)
      <4>1. \A i \in 1 .. n : IndexCode(e.way, indices[i] - (IF i = 1 THEN -1 ELSE indices[i - 1]) - 1)
                                = IndexCode(e.way, Skips(e.fields, i))
        BY <3>3
      <4> HIDE DEF indices
      <4>2. parts = [i \in 1 .. n |-> IndexCode(e.way, Skips(e.fields, i))]
        BY <3>1, <4>1
      <4> QED
        BY <4>2 DEF IndexParts
    <3>6. IndexParts(e) = [i \in 1 .. n |-> IndexParts(e)[i]]
      BY DEF IndexParts
    <3>7. FlattenSeq(IndexParts(e)) = Flat(IndexParts(e), n)
      BY <3>6, FlatWhole
    <3> HIDE DEF parts, indices
    <3> QED
      BY <3>4, <3>5, <3>7 DEF IndexPart
  <2> HIDE DEF indices, codes, n
  <2>4. RestCode(e) = (Flag(e.way) \o IndicesCode(e.way, indices)) \o FlattenSeq(codes)
    BY <1>2, <2>2, <2>3 DEF RestCode, Unless, n
  <2>5. EntityCode(base, e) = (HeadCode(base, e) \o EnterCode(e))
           \o ((Flag(e.way) \o IndicesCode(e.way, indices)) \o FlattenSeq(codes))
    BY <1>2 DEF EntityCode, HeadCode, EnterCode, Unless, indices, codes
  <2> QED
    BY <2>4, <2>5
<1> QED
  BY <1>1, <1>2

(* A number before an entity's own is at most so far away.                 *)
Follow(base, e) == IsEntity(e) /\ base \in Int /\ base >= -1 /\ base < e.id

Two(e) ==
    IF e.kind = "leave" THEN << 1 >> \o Flag(e.delete) ELSE Flag(FALSE) \o Flag(e.kind = "enter")
KindOf(e, b, c) ==
    /\ b \in BitValues /\ c \in BitValues
    /\ b = 1 <=> e.kind = "leave"
    /\ e.kind = "leave" => (c = 1 <=> e.delete)
    /\ e.kind # "leave" => (c = 1 <=> e.kind = "enter")

(* The distance to the entity before fits ReadUBitVar.                     *)
LEMMA Distance ==
    ASSUME NEW base, NEW e, Follow(base, e)
    PROVE  e.id - base - 1 \in Nat /\ e.id - base - 1 <= MaxDistance
<1>1. EntityIsOne(e)
  BY EntityIs DEF Follow
<1>2. e.id \in Nat /\ e.id <= ENTITY_SENTINEL
  BY <1>1 DEF EntityIsOne
<1>3. PICK n \in Nat : n = ENTITY_SENTINEL /\ n < MaxDistance /\ MaxDistance \in Nat
  BY DEF ENTITY_SENTINEL, MaxDistance
<1>4. base \in Int /\ base >= -1 /\ base < e.id
  BY DEF Follow
<1> QED
  BY <1>2, <1>3, <1>4

(* The kind of an entity in two bits.                                      *)
LEMMA TwoAre ==
    ASSUME NEW e, IsEntity(e)
    PROVE  \E b, c : KindOf(e, b, c) /\ Two(e) = <<b>> \o <<c>>
<1>0. e.delete \in BOOLEAN
  BY EntityIs DEF EntityIsOne
<1>1. CASE e.kind = "leave"
  <2>1. PICK c \in BitValues : Flag(e.delete) = <<c>> /\ (c = 1 <=> e.delete)
    BY <1>0, FlagIs
  <2>2. PICK b \in BitValues : b = 1
    BY DEF BitValues
  <2>3. Two(e) = <<b>> \o <<c>>
    BY <1>1, <2>1, <2>2 DEF Two
  <2>4. KindOf(e, b, c)
    BY <1>1, <2>1, <2>2 DEF KindOf
  <2> QED
    BY <2>3, <2>4
<1>2. CASE e.kind # "leave"
  <2>1. PICK c \in BitValues : Flag(e.kind = "enter") = <<c>> /\ (c = 1 <=> e.kind = "enter")
    BY FlagIs
  <2>2. PICK b \in BitValues : Flag(FALSE) = <<b>> /\ ~(b = 1)
    BY FlagIs
  <2>3. Two(e) = <<b>> \o <<c>>
    BY <1>2, <2>1, <2>2 DEF Two
  <2>4. KindOf(e, b, c)
    BY <1>2, <2>1, <2>2 DEF KindOf
  <2> QED
    BY <2>3, <2>4
<1> QED
  BY <1>1, <1>2

(* The distance and the two bits are read as written.                      *)
HeadIsRead(d, p, base, e, n) ==
    /\ HeadCode(base, e) \in Seq(BitValues)
    /\ ReadTo(n.at + 2, d, p, HeadCode(base, e))
    /\ p + Len(HeadCode(base, e)) <= Len(d) =>
          /\ n.v = e.id - base - 1 /\ UBitVarAsserted(d, p)
          /\ OneBit(d, n.at) = 1 <=> e.kind = "leave"
          /\ e.kind = "leave" => (OneBit(d, n.at + 1) = 1 <=> e.delete)
          /\ e.kind # "leave" => (OneBit(d, n.at + 1) = 1 <=> e.kind = "enter")

(* An entity's head is read as it was written: its number, and whether it  *)
(* leaves, enters or changes.                                              *)
LEMMA HeadRead ==
    ASSUME NEW d, NEW p, NEW base, NEW e, IsPlace(d, p), Follow(base, e),
           Shows(d, p, HeadCode(base, e))
    PROVE  HeadIsRead(d, p, base, e, ReadUBitVar(d, p))
<1>0. d \in Seq(BitValues) /\ p \in Nat /\ IsEntity(e)
  BY DEF IsPlace, Follow
<1>1. PICK i \in Nat : i = e.id - base - 1 /\ i <= MaxDistance
  BY Distance
<1>2. PICK b, c : KindOf(e, b, c) /\ Two(e) = <<b>> \o <<c>>
  BY <1>0, TwoAre
<1>3. b \in BitValues /\ c \in BitValues
  BY <1>2 DEF KindOf
<1>4. PICK bb \in Seq(BitValues), cc \in Seq(BitValues) : bb = <<b>> /\ cc = <<c>>
                                                        /\ Len(bb) = 1 /\ Len(cc) = 1
  <2>1. <<b>> \in Seq(BitValues) /\ Len(<<b>>) = 1
    BY <1>3
  <2>2. <<c>> \in Seq(BitValues) /\ Len(<<c>>) = 1
    BY <1>3
  <2> QED
    BY <2>1, <2>2
<1>5. PICK s \in Seq(BitValues) : s = UBitVarCode(i)
  <2>1. PICK x \in Seq(BitValues), z \in Nat : Shows(x, z, UBitVarCode(i))
    BY ShownByNothing
  <2> QED
    BY <1>1, <2>1, UBitVarRead
<1>6. PICK t \in Seq(BitValues) : t = bb \o cc /\ Len(t) = 2
  <2>1. bb \o cc \in Seq(BitValues) /\ Len(bb \o cc) = Len(bb) + Len(cc)
    BY JoinedBits
  <2>2. Len(bb) = 1 /\ Len(cc) = 1
    BY <1>4
  <2>3. Len(bb) + Len(cc) = 2
    BY <2>2
  <2> QED
    BY <2>1, <2>3
<1>7. HeadCode(base, e) = s \o t
  BY <1>1, <1>2, <1>4, <1>5, <1>6 DEF HeadCode, Two
<1>8. /\ Shows(d, p, s) /\ Shows(d, p + Len(s), t)
      /\ s \o t \in Seq(BitValues) /\ Len(s \o t) = Len(s) + Len(t)
      /\ Len(s) \in Nat /\ p + Len(s) \in Nat
  <2>1. Shows(d, p, s \o t)
    BY <1>7
  <2> QED
    BY <1>0, <2>1, ShowsJoined
<1>9. PICK q \in Nat : q = p + Len(s)
  BY <1>8
<1>10. Shows(d, q, bb) /\ Shows(d, q + 1, cc)
  <2>1. Shows(d, q, bb \o cc)
    BY <1>6, <1>8, <1>9
  <2>2. Shows(d, q, bb) /\ Shows(d, q + Len(bb), cc)
    BY <1>0, <2>1, ShowsJoined
  <2> QED
    BY <1>4, <2>2
<1>11. PICK a \in Nat : a = ReadUBitVar(d, p).at /\ a >= p + 6
  BY <1>0, UBitVarTyped
<1>12. /\ ReadTo(a, d, p, s)
       /\ p + Len(s) <= Len(d) => ReadUBitVar(d, p).v = i /\ UBitVarAsserted(d, p)
  BY <1>0, <1>1, <1>5, <1>8, <1>11, UBitVarRead
<1>13. PICK z \in Nat : z = a + 2 /\ z >= a
  <2>1. a + 2 \in Nat /\ a + 2 >= a
    OBVIOUS
  <2> QED
    BY <2>1
<1>14. ASSUME p + Len(s) <= Len(d) PROVE a = q /\ ReadTo(z, d, p + Len(s), t)
  <2>1. a = q
    BY <1>9, <1>12, <1>14 DEF ReadTo
  <2>2. ReadTo(q + Len(t), d, q, t)
    BY <1>0, ReadToFixed
  <2>3. z = q + Len(t)
    BY <1>6, <1>13, <2>1
  <2> QED
    BY <1>9, <2>1, <2>2, <2>3
<1>15. ReadTo(z, d, p, s \o t)
  BY <1>0, <1>12, <1>13, <1>14, ReadToBoth
<1>16. ASSUME p + Len(s \o t) <= Len(d)
       PROVE  p + Len(s) <= Len(d) /\ a = q /\ OneBit(d, a) = b /\ OneBit(d, a + 1) = c
  <2>1. PICK l \in Nat, m \in Nat : l = Len(d) /\ m = Len(s) /\ p + (m + 2) <= l
    BY <1>0, <1>6, <1>8, <1>16
  <2>2. q = p + m /\ q + 1 <= l /\ (q + 1) + 1 <= l /\ p + m <= l
    <3>1. q = p + m
      BY <1>9, <2>1
    <3> QED
      BY <1>0, <2>1, <3>1
  <2>3. a = q
    BY <1>14, <2>1, <2>2
  <2>4. OneBit(d, q) = b
    BY <1>0, <1>3, <1>4, <1>10, <2>1, <2>2, ShownBit
  <2>5. OneBit(d, q + 1) = c
    <3>1. PICK x \in Nat : x = q + 1
      OBVIOUS
    <3>2. Shows(d, x, <<c>>) /\ x + 1 <= Len(d)
      BY <1>4, <1>10, <2>1, <2>2, <3>1
    <3>3. OneBit(d, x) = c
      BY <1>0, <1>3, <3>2, ShownBit
    <3> QED
      BY <3>1, <3>3
  <2> QED
    BY <2>1, <2>2, <2>3, <2>4, <2>5
<1>17. PICK n : n = ReadUBitVar(d, p)
  OBVIOUS
<1>18. ASSUME p + Len(s \o t) <= Len(d)
       PROVE  /\ n.v = e.id - base - 1 /\ UBitVarAsserted(d, p)
              /\ OneBit(d, n.at) = 1 <=> e.kind = "leave"
              /\ e.kind = "leave" => (OneBit(d, n.at + 1) = 1 <=> e.delete)
              /\ e.kind # "leave" => (OneBit(d, n.at + 1) = 1 <=> e.kind = "enter")
  <2>1. n.v = e.id - base - 1 /\ UBitVarAsserted(d, p)
    BY <1>1, <1>12, <1>16, <1>17, <1>18
  <2>2. n.at = a /\ OneBit(d, a) = b /\ OneBit(d, a + 1) = c
    BY <1>11, <1>16, <1>17, <1>18
  <2> QED
    BY <1>2, <2>1, <2>2 DEF KindOf
<1>19. ReadTo(n.at + 2, d, p, s \o t)
  BY <1>11, <1>13, <1>15, <1>17
<1> QED
  BY <1>7, <1>8, <1>17, <1>18, <1>19 DEF HeadIsRead

(* Class and serial number are read as written.                            *)
ClassBits == s_nServerClassBits
SerialBits == NUM_NETWORKED_EHANDLE_SERIAL_NUMBER_BITS

(* The numbers of bits of a class and a serial number.                     *)
LEMMA BitsAre == ClassBits \in 0 .. 30 /\ SerialBits \in 0 .. 30 /\ ClassBits \in Nat /\ SerialBits \in Nat
<1>1. s_nServerClassBits \in 0 .. 16
  BY ClassesAssumption
<1> QED
  BY <1>1 DEF ClassBits, SerialBits, NUM_NETWORKED_EHANDLE_SERIAL_NUMBER_BITS

EnterIsRead(d, p, e) ==
    /\ EnterCode(e) \in Seq(BitValues) /\ Len(EnterCode(e)) = ClassBits + SerialBits
    /\ ReadTo(p + ClassBits + SerialBits, d, p, EnterCode(e))
    /\ p + Len(EnterCode(e)) <= Len(d) =>
          UNat(d, p, ClassBits) = e.class /\ UNat(d, p + ClassBits, SerialBits) = e.serial
    /\ UNat(d, p, ClassBits) \in Classes

(* An entity that enters is read with the class and serial number that     *)
(* were written.                                                           *)
LEMMA EnterRead ==
    ASSUME NEW d, NEW p, NEW e, IsPlace(d, p), IsEntity(e), e.kind = "enter",
           Shows(d, p, EnterCode(e))
    PROVE  EnterIsRead(d, p, e)
<1>0. d \in Seq(BitValues) /\ p \in Nat
  BY DEF IsPlace
<1>1. /\ e.class \in Nat /\ e.class \in Classes /\ e.class < 2^ClassBits
      /\ e.serial \in Nat /\ e.serial < 2^SerialBits
  <2>1. EntityIsOne(e)
    BY EntityIs
  <2>2. Classes \subseteq Nat
    BY ClassesAssumption
  <2> QED
    BY <2>1, <2>2 DEF EntityIsOne, ClassBits, SerialBits
<1>2. PICK m \in Nat, n \in Nat : /\ m = ClassBits /\ n = SerialBits
                                  /\ m \in 0 .. 30 /\ n \in 0 .. 30 /\ m <= 30 /\ n <= 30
  BY BitsAre
<1>3. PICK s \in Seq(BitValues) : s = ToBits(e.class, m) /\ Len(s) = m
  BY <1>1, <1>2, ToBitsIs
<1>4. PICK t \in Seq(BitValues) : t = ToBits(e.serial, n) /\ Len(t) = n
  BY <1>1, <1>2, ToBitsIs
<1>5. EnterCode(e) = s \o t
  BY <1>2, <1>3, <1>4 DEF EnterCode, Unless, ClassBits, SerialBits
<1>6. /\ Shows(d, p, s) /\ Shows(d, p + Len(s), t)
      /\ s \o t \in Seq(BitValues) /\ Len(s \o t) = Len(s) + Len(t)
  <2>1. Shows(d, p, s \o t)
    BY <1>5
  <2> QED
    BY <1>0, <2>1, ShowsJoined
<1>7. PICK q \in Nat, l \in Nat : q = p + m /\ l = Len(d)
  <2>1. p + m \in Nat /\ Len(d) \in Nat
    BY <1>0
  <2> QED
    BY <2>1
<1>8. Len(s \o t) = m + n
  BY <1>3, <1>4, <1>6
<1>9. ReadTo(p + m + n, d, p, s \o t)
  <2>1. ReadTo(p + Len(s \o t), d, p, s \o t)
    BY <1>0, <1>6, ReadToFixed
  <2>2. p + Len(s \o t) = p + m + n
    BY <1>0, <1>8
  <2> QED
    BY <2>1, <2>2
<1>10. ASSUME p + Len(s \o t) <= Len(d)
       PROVE  UNat(d, p, m) = e.class /\ UNat(d, p + m, n) = e.serial
  <2>1. p + m <= l /\ q + n <= l
    BY <1>0, <1>7, <1>8, <1>10
  <2>2. Shows(d, p, ToBits(e.class, m)) /\ Shows(d, q, ToBits(e.serial, n))
    BY <1>3, <1>4, <1>6, <1>7
  <2>3. p + m <= Len(d) /\ e.class < 2^m
    BY <1>1, <1>2, <1>7, <2>1
  <2>4. q + n <= Len(d) /\ e.serial < 2^n
    BY <1>1, <1>2, <1>7, <2>1
  <2>5. UNat(d, p, m) = e.class
    BY <1>0, <1>1, <1>2, <2>2, <2>3, ShownNumber
  <2>6. UNat(d, q, n) = e.serial
    BY <1>0, <1>1, <1>2, <2>2, <2>4, ShownNumber
  <2> QED
    BY <1>7, <2>5, <2>6
<1>11. UNat(d, p, m) \in Classes
  <2>1. CASE p + m <= Len(d)
    <3>1. Shows(d, p, ToBits(e.class, m)) /\ e.class < 2^m
      BY <1>1, <1>2, <1>3, <1>6
    <3>2. UNat(d, p, m) = e.class
      BY <1>0, <1>1, <1>2, <2>1, <3>1, ShownNumber
    <3> QED
      BY <1>1, <3>2
  <2>2. CASE ~(p + m <= Len(d))
    <3>1. p + m > Len(d)
      BY <1>0, <1>7, <2>2
    <3>2. UNat(d, p, m) = 0
      BY <1>0, <3>1, NothingBehind
    <3> QED
      BY <3>2, ClassesAssumption
  <2> QED
    BY <2>1, <2>2
<1> QED
  BY <1>2, <1>5, <1>6, <1>8, <1>9, <1>10, <1>11 DEF EnterIsRead

(* Behind the data the class is read as 0, which is one (the assumption on *)
(* Classes).                                                               *)
LEMMA ClassBehind ==
    ASSUME NEW d \in Seq(BitValues), NEW p \in Nat, p > Len(d)
    PROVE  UNat(d, p, ClassBits) \in Classes
<1>1. PICK m \in Nat, l \in Nat : m = ClassBits /\ l = Len(d)
  BY BitsAre
<1>2. p + m > Len(d)
  <2>1. p > l
    BY <1>1
  <2>2. p + m > l
    BY <2>1
  <2> QED
    BY <1>1, <2>2
<1>3. UNat(d, p, m) = 0
  BY <1>2, NothingBehind
<1> QED
  BY <1>1, <1>3, ClassesAssumption

(* The parts of an entity's code are bits.                                 *)
LEMMA CodesTyped ==
    ASSUME NEW base, NEW e, Follow(base, e)
    PROVE  /\ HeadCode(base, e) \in Seq(BitValues) /\ EnterCode(e) \in Seq(BitValues)
           /\ RestCode(e) \in Seq(BitValues)
<1>0. IsEntity(e)
  BY DEF Follow
<1>1. HeadCode(base, e) \in Seq(BitValues)
  <2>1. PICK x, z : IsPlace(x, z) /\ Shows(x, z, HeadCode(base, e))
    BY ShownByNothing DEF IsPlace
  <2> QED
    BY <2>1, HeadRead DEF HeadIsRead
<1>2. EnterCode(e) \in Seq(BitValues)
  <2>1. CASE e.kind = "enter"
    <3>1. PICK x, z : IsPlace(x, z) /\ Shows(x, z, EnterCode(e))
      BY ShownByNothing DEF IsPlace
    <3> QED
      BY <1>0, <2>1, <3>1, EnterRead DEF EnterIsRead
  <2>2. CASE e.kind # "enter"
    <3>1. EnterCode(e) = <<>>
      BY <2>2 DEF EnterCode, Unless
    <3>2. << >> \in Seq(BitValues)
      OBVIOUS
    <3> QED
      BY <3>1, <3>2
  <2> QED
    BY <2>1, <2>2
<1>3. RestCode(e) \in Seq(BitValues)
  <2>1. CASE e.kind = "leave"
    <3>1. RestCode(e) = <<>>
      BY <2>1 DEF RestCode, Unless
    <3>2. << >> \in Seq(BitValues)
      OBVIOUS
    <3> QED
      BY <3>1, <3>2
  <2>2. CASE e.kind # "leave"
    <3>1. PICK n \in Nat : /\ n = Len(e.fields) /\ Parts(IndexParts(e), n, BitValues)
                           /\ Parts(ValueParts(e), n, BitValues)
                           /\ IndexCode(e.way, 4095) \in Seq(BitValues)
      BY <1>0, <2>2, PartsOfRest
    <3>2. n \in 0 .. n
      OBVIOUS
    <3>3. Flat(IndexParts(e), n) \in Seq(BitValues)
      BY <3>1, <3>2, FlatTyped
    <3>4. Flat(ValueParts(e), n) \in Seq(BitValues)
      BY <3>1, <3>2, FlatTyped
    <3>5. IndexPart(e) \in Seq(BitValues)
      BY <3>1, <3>3, JoinedBits DEF IndexPart
    <3>6. Flag(e.way) \in Seq(BitValues)
      <4>1. e.way \in BOOLEAN
        BY <1>0, EntityIs DEF EntityIsOne
      <4> QED
        BY <4>1, FlagIs
    <3>7. Flag(e.way) \o IndexPart(e) \in Seq(BitValues)
      BY <3>5, <3>6, JoinedBits
    <3>8. (Flag(e.way) \o IndexPart(e)) \o Flat(ValueParts(e), n) \in Seq(BitValues)
      BY <3>4, <3>7, JoinedBits
    <3> QED
      BY <2>2, <3>1, <3>8 DEF RestCode, Unless
  <2> QED
    BY <2>1, <2>2
<1> QED
  BY <1>1, <1>2, <1>3

BaseOf(message, i) == IF i = 1 THEN -1 ELSE message[i - 1].id
MessageIs(m, N) ==
    /\ N \in Nat /\ N = Len(m) /\ IsRow(m)
    /\ \A i \in 1 .. N : Follow(BaseOf(m, i), m[i])
    /\ \A i \in 1 .. N : EntityParts(m)[i] = EntityCode(BaseOf(m, i), m[i])
    /\ Parts(EntityParts(m), N, BitValues)
    /\ MessageCode(m) = Flat(EntityParts(m), N)
    /\ \A k \in 0 .. N : MessageCode(SubSeq(m, 1, k)) = Flat(EntityParts(m), k)

(* So is the whole.                                                        *)
LEMMA EntityCodeTyped ==
    ASSUME NEW base, NEW e, Follow(base, e)
    PROVE  EntityCode(base, e) \in Seq(BitValues)
<1>1. IsEntity(e)
  BY DEF Follow
<1>2. EntityCode(base, e) = (HeadCode(base, e) \o EnterCode(e)) \o RestCode(e)
  BY <1>1, EntityCodeIs
<1>3. /\ HeadCode(base, e) \in Seq(BitValues) /\ EnterCode(e) \in Seq(BitValues)
      /\ RestCode(e) \in Seq(BitValues)
  BY CodesTyped
<1>4. HeadCode(base, e) \o EnterCode(e) \in Seq(BitValues)
  BY <1>3, JoinedBits
<1>5. (HeadCode(base, e) \o EnterCode(e)) \o RestCode(e) \in Seq(BitValues)
  BY <1>3, <1>4, JoinedBits
<1> QED
  BY <1>2, <1>5

(* A message's code is its entities' codes in a row.                       *)
LEMMA MessageCodeOf ==
    ASSUME NEW m, NEW N, IsRow(m), N = Len(m)
    PROVE  MessageCode(m) = Flat(EntityParts(m), N)
<1>1. DOMAIN m = 1 .. N
  BY DEF IsRow
<1>2. EntityParts(m) = [i \in 1 .. N |-> EntityParts(m)[i]]
  BY DEF EntityParts
<1>3. MessageCode(m) = FlattenSeq(EntityParts(m))
  BY <1>1 DEF MessageCode, EntityParts
<1> QED
  BY <1>2, <1>3, FlatWhole

(* The beginning of a row is one.                                          *)
LEMMA RowCut ==
    ASSUME NEW m, IsRow(m), NEW k \in 0 .. Len(m)
    PROVE  /\ IsRow(SubSeq(m, 1, k)) /\ Len(SubSeq(m, 1, k)) = k
           /\ \A i \in 1 .. k : SubSeq(m, 1, k)[i] = m[i]
<1> DEFINE T == {m[i] : i \in 1 .. Len(m)}
<1>1. m \in Seq(T) /\ Len(m) \in Nat
  <2>1. PICK n \in Nat : n = Len(m) /\ m = [i \in 1 .. n |-> m[i]]
    BY DEF IsRow
  <2>2. \A i \in 1 .. n : m[i] \in T
    BY <2>1
  <2> HIDE DEF T
  <2>3. [i \in 1 .. n |-> m[i]] \in Seq(T)
    BY <2>2
  <2> QED
    BY <2>1, <2>3
<1> HIDE DEF T
<1>2. \A i \in 1 .. k : i \in 1 .. Len(m)
  BY <1>1
<1>3. /\ SubSeq(m, 1, k) \in Seq(T) /\ Len(SubSeq(m, 1, k)) = k
      /\ \A i \in 1 .. k : SubSeq(m, 1, k)[i] = m[i]
  BY <1>1, <1>2
<1>4. IsRow(SubSeq(m, 1, k))
  <2>1. PICK s \in Seq(T) : s = SubSeq(m, 1, k)
    BY <1>3
  <2>2. s = [i \in 1 .. Len(s) |-> s[i]] /\ Len(s) \in Nat
    OBVIOUS
  <2> QED
    BY <2>1, <2>2 DEF IsRow
<1> QED
  BY <1>3, <1>4

(* The entities of a message are numbered upwards, and those that change   *)
(* are there before.                                                       *)
LEMMA IsTheMessage ==
    ASSUME NEW m \in Messages
    PROVE  MessageIs(m, Len(m))
<1>1. /\ IsRow(m)
      /\ \A i \in 1 .. Len(m) : IsEntity(m[i]) /\ (i > 1 => m[i - 1].id < m[i].id)
  BY MessagesAssumption
<1>2. PICK N \in Nat : N = Len(m) /\ IsRow(m)
  BY <1>1 DEF IsRow
<1>3. ASSUME NEW i \in 1 .. N PROVE Follow(BaseOf(m, i), m[i])
  <2>1. IsEntity(m[i]) /\ (i > 1 => m[i - 1].id < m[i].id)
    BY <1>1, <1>2
  <2>2. m[i].id \in Nat
    BY <2>1, EntityIs DEF EntityIsOne
  <2>3. CASE i = 1
    BY <2>1, <2>2, <2>3 DEF Follow, BaseOf
  <2>4. CASE i # 1
    <3>1. i - 1 \in 1 .. N /\ i > 1
      BY <2>4
    <3>2. IsEntity(m[i - 1])
      BY <1>1, <1>2, <3>1
    <3>3. m[i - 1].id \in Nat
      BY <3>2, EntityIs DEF EntityIsOne
    <3> QED
      BY <2>1, <2>4, <3>1, <3>3 DEF Follow, BaseOf
  <2> QED
    BY <2>3, <2>4
<1>4. \A i \in 1 .. N : EntityParts(m)[i] = EntityCode(BaseOf(m, i), m[i])
  BY <1>2 DEF EntityParts, BaseOf
<1>5. Parts(EntityParts(m), N, BitValues)
  <2>1. \A i \in 1 .. N : EntityCode(BaseOf(m, i), m[i]) \in Seq(BitValues)
    BY <1>3, EntityCodeTyped
  <2> QED
    BY <1>4, <2>1 DEF Parts
<1>6. MessageCode(m) = Flat(EntityParts(m), N)
  BY <1>2, MessageCodeOf
<1>7. ASSUME NEW k \in 0 .. N PROVE MessageCode(SubSeq(m, 1, k)) = Flat(EntityParts(m), k)
  <2>1. PICK s : /\ s = SubSeq(m, 1, k) /\ IsRow(s) /\ Len(s) = k
                 /\ \A i \in 1 .. k : s[i] = m[i]
    BY <1>2, RowCut
  <2>2. MessageCode(s) = Flat(EntityParts(s), k)
    BY <2>1, MessageCodeOf
  <2>3. \A i \in 1 .. k : EntityParts(s)[i] = EntityParts(m)[i]
    <3>1. \A i \in 1 .. k : i \in 1 .. N /\ (i # 1 => i - 1 \in 1 .. k)
      OBVIOUS
    <3> QED
      BY <1>2, <2>1, <3>1 DEF EntityParts
  <2>4. Flat(EntityParts(s), k) = Flat(EntityParts(m), k)
    BY <2>3, FlatSame
  <2> QED
    BY <2>1, <2>2, <2>4
<1> QED
  BY <1>2, <1>3, <1>4, <1>5, <1>6, <1>7 DEF MessageIs
-----------------------------------------------------------------------------
(***************************************************************************)
(* Where the parts of a message lie.                                       *)
(***************************************************************************)

(* A code that lies at a place, within what was written.                   *)
Lies(d, M, q, c) ==
    d \in Seq(BitValues) /\ M \in Nat /\ q \in Nat /\ c \in Seq(BitValues) /\ Shows(d, q, c)
        /\ q + Len(c) <= M

(* A joined code lies in two pieces.                                       *)
LEMMA LiesJoined ==
    ASSUME NEW d, NEW M, NEW q, NEW s \in Seq(BitValues), NEW t \in Seq(BitValues),
           Lies(d, M, q, s \o t)
    PROVE  /\ Lies(d, M, q, s) /\ Lies(d, M, q + Len(s), t)
           /\ (q + Len(s)) + Len(t) = q + Len(s \o t)
<1>1. /\ d \in Seq(BitValues) /\ M \in Nat /\ q \in Nat /\ Shows(d, q, s \o t)
      /\ q + Len(s \o t) <= M
  BY DEF Lies
<1>2. /\ Shows(d, q, s) /\ Shows(d, q + Len(s), t)
      /\ Len(s \o t) = Len(s) + Len(t) /\ Len(s) \in Nat /\ Len(t) \in Nat
  BY <1>1, ShowsJoined
<1>3. PICK x \in Nat, y \in Nat : x = Len(s) /\ y = Len(t) /\ Len(s \o t) = x + y
  BY <1>2
<1>4. q + x <= M /\ (q + x) + y <= M /\ (q + x) + y = q + (x + y) /\ q + x \in Nat
  BY <1>1, <1>3
<1> QED
  BY <1>1, <1>2, <1>3, <1>4 DEF Lies

(* A flattened code lies in parts.                                         *)
LEMMA LiesPart ==
    ASSUME NEW d, NEW M, NEW q, NEW N, NEW F, Parts(F, N, BitValues), Lies(d, M, q, Flat(F, N))
    PROVE  \A n \in 0 .. N : \A m \in 1 .. N : m = n + 1 =>
              /\ Lies(d, M, q + Len(Flat(F, n)), F[m])
              /\ q + Len(Flat(F, m)) = (q + Len(Flat(F, n))) + Len(F[m])
<1>1. /\ d \in Seq(BitValues) /\ M \in Nat /\ q \in Nat /\ Shows(d, q, Flat(F, N))
      /\ q + Len(Flat(F, N)) <= M
  BY DEF Lies
<1> SUFFICES ASSUME NEW n \in 0 .. N, NEW m \in 1 .. N, m = n + 1
             PROVE  /\ Lies(d, M, q + Len(Flat(F, n)), F[m])
                    /\ q + Len(Flat(F, m)) = (q + Len(Flat(F, n))) + Len(F[m])
  OBVIOUS
<1>2. /\ Shows(d, q + Len(Flat(F, n)), F[m])
      /\ Len(Flat(F, m)) = Len(Flat(F, n)) + Len(F[m])
      /\ Len(Flat(F, n)) \in Nat /\ Len(Flat(F, m)) \in Nat /\ Len(F[m]) \in Nat
      /\ Len(Flat(F, m)) <= Len(Flat(F, N)) /\ Len(Flat(F, N)) \in Nat
  BY <1>1, ShowsPart
<1>3. PICK x \in Nat, y \in Nat, w \in Nat :
         /\ x = Len(Flat(F, n)) /\ y = Len(F[m]) /\ w = Len(Flat(F, N))
         /\ Len(Flat(F, m)) = x + y /\ x + y <= w
  BY <1>2
<1>4. q + w <= M
  BY <1>1, <1>3
<1>5. (q + x) + y <= M /\ q + (x + y) = (q + x) + y /\ q + x \in Nat
  <2>1. x + y <= w
    BY <1>3
  <2> QED
    BY <1>1, <1>4, <2>1
<1>6. F[m] \in Seq(BitValues)
  BY DEF Parts
<1> QED
  BY <1>1, <1>2, <1>3, <1>5, <1>6 DEF Lies

(* Where the parts of an entity lie.                                       *)
PHead(p, base, e) == p + Len(HeadCode(base, e))
PEnter(p, base, e) == PHead(p, base, e) + Len(EnterCode(e))
PWay(p, base, e) == PEnter(p, base, e) + 1
PIndices(p, base, e) == PWay(p, base, e) + Len(IndexPart(e))
PEnd(p, base, e) == p + Len(EntityCode(base, e))

EntityLies(d, M, p, base, e) ==
    /\ Lies(d, M, p, HeadCode(base, e))
    /\ Lies(d, M, PHead(p, base, e), EnterCode(e))
    /\ e.kind = "leave" => PEnd(p, base, e) = PHead(p, base, e)
    /\ e.kind = "delta" => PEnter(p, base, e) = PHead(p, base, e)
    /\ e.kind # "leave" =>
          /\ Lies(d, M, PEnter(p, base, e), Flag(e.way))
          /\ Lies(d, M, PWay(p, base, e), IndexPart(e))
          /\ Lies(d, M, PIndices(p, base, e), Flat(ValueParts(e), Len(e.fields)))
          /\ PIndices(p, base, e) + Len(Flat(ValueParts(e), Len(e.fields))) = PEnd(p, base, e)

RestLies(d, M, q, e) ==
    /\ Lies(d, M, q, Flag(e.way)) /\ Lies(d, M, q + 1, IndexPart(e))
    /\ Lies(d, M, q + 1 + Len(IndexPart(e)), Flat(ValueParts(e), Len(e.fields)))
    /\ q + 1 + Len(IndexPart(e)) + Len(Flat(ValueParts(e), Len(e.fields))) = q + Len(RestCode(e))

(* The bit that tells how the indices are written.                         *)
LEMMA WayTyped ==
    ASSUME NEW e, IsEntity(e)
    PROVE  Flag(e.way) \in Seq(BitValues) /\ Len(Flag(e.way)) = 1
<1>1. e.way \in BOOLEAN
  BY EntityIs DEF EntityIsOne
<1> QED
  BY <1>1, FlagIs

(* The indices and the values are bits.                                    *)
LEMMA RestTyped ==
    ASSUME NEW e, IsEntity(e), e.kind # "leave"
    PROVE  IndexPart(e) \in Seq(BitValues) /\ Flat(ValueParts(e), Len(e.fields)) \in Seq(BitValues)
<1>1. PICK n \in Nat : n = Len(e.fields)
  BY PartsOfRest
<1>2. Parts(IndexParts(e), n, BitValues) /\ Parts(ValueParts(e), n, BitValues)
  BY <1>1, PartsOfRest
<1>3. n \in 0 .. n
  OBVIOUS
<1>4. Flat(IndexParts(e), n) \in Seq(BitValues)
  BY <1>2, <1>3, FlatTyped
<1>5. Flat(ValueParts(e), n) \in Seq(BitValues)
  BY <1>2, <1>3, FlatTyped
<1>6. PICK s \in Seq(BitValues) : s = Flat(IndexParts(e), n)
  BY <1>4
<1>7. PICK t \in Seq(BitValues) : t = IndexCode(e.way, 4095)
  BY PartsOfRest
<1>8. s \o t \in Seq(BitValues)
  BY JoinedBits
<1> QED
  BY <1>1, <1>5, <1>6, <1>7, <1>8 DEF IndexPart

(* What follows the class lies in the way, the indices and the values.     *)
LEMMA RestParted ==
    ASSUME NEW d, NEW M, NEW q, NEW e, IsEntity(e), e.kind # "leave", Lies(d, M, q, RestCode(e))
    PROVE  RestLies(d, M, q, e)
<1>1. PICK w \in Seq(BitValues) : w = Flag(e.way) /\ Len(w) = 1
  BY WayTyped
<1>2. PICK i \in Seq(BitValues) : i = IndexPart(e)
  BY RestTyped
<1>3. PICK v \in Seq(BitValues) : v = Flat(ValueParts(e), Len(e.fields))
  BY RestTyped
<1>4. RestCode(e) = (w \o i) \o v
  BY <1>1, <1>2, <1>3 DEF RestCode, Unless
<1>5. PICK wi \in Seq(BitValues) : wi = w \o i
  BY JoinedBits
<1>6. Lies(d, M, q, wi \o v)
  BY <1>4, <1>5
<1>7. /\ Lies(d, M, q, wi) /\ Lies(d, M, q + Len(wi), v)
      /\ (q + Len(wi)) + Len(v) = q + Len(wi \o v)
  BY <1>6, LiesJoined
<1>8. Lies(d, M, q, w \o i)
  BY <1>5, <1>7
<1>9. /\ Lies(d, M, q, w) /\ Lies(d, M, q + Len(w), i)
      /\ (q + Len(w)) + Len(i) = q + Len(w \o i)
  BY <1>8, LiesJoined
<1>10. q + Len(wi) = (q + 1) + Len(i) /\ q + Len(w) = q + 1
  BY <1>1, <1>5, <1>9
<1>11. q + Len(RestCode(e)) = ((q + 1) + Len(i)) + Len(v)
  BY <1>4, <1>5, <1>7, <1>10
<1> QED
  BY <1>1, <1>2, <1>3, <1>7, <1>9, <1>10, <1>11 DEF RestLies

(* An entity's code lies in its parts.                                     *)
LEMMA EntityParted ==
    ASSUME NEW d, NEW M, NEW p, NEW base, NEW e, Follow(base, e),
           Lies(d, M, p, EntityCode(base, e))
    PROVE  EntityLies(d, M, p, base, e)
<1>0. IsEntity(e)
  BY DEF Follow
<1>1. PICK h \in Seq(BitValues), n \in Seq(BitValues), r \in Seq(BitValues) :
         h = HeadCode(base, e) /\ n = EnterCode(e) /\ r = RestCode(e)
  BY CodesTyped
<1>2. EntityCode(base, e) = (h \o n) \o r
  BY <1>0, <1>1, EntityCodeIs
<1>3. PICK c \in Seq(BitValues) : c = h \o n
  BY JoinedBits
<1>4. Lies(d, M, p, c \o r)
  BY <1>2, <1>3
<1>5. Lies(d, M, p, c) /\ Lies(d, M, p + Len(c), r) /\ (p + Len(c)) + Len(r) = p + Len(c \o r)
  BY <1>4, LiesJoined
<1>6. Lies(d, M, p, h \o n)
  BY <1>3, <1>5
<1>7. Lies(d, M, p, h) /\ Lies(d, M, p + Len(h), n) /\ (p + Len(h)) + Len(n) = p + Len(h \o n)
  BY <1>6, LiesJoined
<1>8. PHead(p, base, e) = p + Len(h) /\ PEnter(p, base, e) = p + Len(c)
  BY <1>1, <1>3, <1>7 DEF PHead, PEnter
<1>9. PEnd(p, base, e) = (p + Len(c)) + Len(r)
  BY <1>2, <1>3, <1>5 DEF PEnd
<1>z. Len(<< >>) = 0
  OBVIOUS
<1>p. p \in Nat
  BY DEF Lies
<1>10. ASSUME e.kind # "enter" PROVE PEnter(p, base, e) = PHead(p, base, e)
  <2>1. n = << >>
    BY <1>1, <1>10 DEF EnterCode, Unless
  <2>2. Len(n) = 0
    BY <1>z, <2>1
  <2> QED
    BY <1>1, <1>p, <2>2 DEF PEnter, PHead
<1>11. ASSUME e.kind = "leave" PROVE PEnd(p, base, e) = PHead(p, base, e)
  <2>1. r = << >>
    BY <1>1, <1>11 DEF RestCode, Unless
  <2>2. Len(r) = 0
    BY <1>z, <2>1
  <2>3. PEnd(p, base, e) = p + Len(c)
    BY <1>9, <1>p, <2>2
  <2> QED
    BY <1>8, <1>10, <1>11, <2>3
<1>12. ASSUME e.kind # "leave"
       PROVE  /\ Lies(d, M, PEnter(p, base, e), Flag(e.way))
              /\ Lies(d, M, PWay(p, base, e), IndexPart(e))
              /\ Lies(d, M, PIndices(p, base, e), Flat(ValueParts(e), Len(e.fields)))
              /\ PIndices(p, base, e) + Len(Flat(ValueParts(e), Len(e.fields))) = PEnd(p, base, e)
  <2>1. PICK q : q = PEnter(p, base, e)
    OBVIOUS
  <2>2. Lies(d, M, q, RestCode(e))
    BY <1>1, <1>5, <1>8, <2>1
  <2>3. RestLies(d, M, q, e)
    BY <1>0, <1>12, <2>2, RestParted
  <2>4. PEnd(p, base, e) = q + Len(RestCode(e))
    BY <1>1, <1>8, <1>9, <2>1
  <2> QED
    BY <2>1, <2>3, <2>4 DEF RestLies, PWay, PIndices
<1> QED
  BY <1>1, <1>7, <1>8, <1>10, <1>11, <1>12 DEF EntityLies

(* The indices: one that is written, or the end marker.                    *)
PIndex(p, base, e, j) == PWay(p, base, e) + Len(Flat(IndexParts(e), j))
PValue(p, base, e, j) == PIndices(p, base, e) + Len(Flat(ValueParts(e), j))

(* Each index and each value lies behind the ones before it.               *)
LEMMA FieldsParted ==
    ASSUME NEW d, NEW M, NEW p, NEW base, NEW e, Follow(base, e), e.kind # "leave",
           EntityLies(d, M, p, base, e)
    PROVE  /\ PIndex(p, base, e, 0) = PWay(p, base, e)
           /\ PValue(p, base, e, 0) = PIndices(p, base, e)
           /\ PValue(p, base, e, Len(e.fields)) = PEnd(p, base, e)
           /\ Lies(d, M, PIndex(p, base, e, Len(e.fields)), IndexCode(e.way, 4095))
           /\ PIndices(p, base, e)
                 = PIndex(p, base, e, Len(e.fields)) + Len(IndexCode(e.way, 4095))
           /\ \A n \in 0 .. Len(e.fields) : \A m \in 1 .. Len(e.fields) : m = n + 1 =>
                 /\ Lies(d, M, PIndex(p, base, e, n), IndexCode(e.way, Skips(e.fields, m)))
                 /\ PIndex(p, base, e, m)
                       = PIndex(p, base, e, n) + Len(IndexCode(e.way, Skips(e.fields, m)))
                 /\ Lies(d, M, PValue(p, base, e, n), PropCode(PropOf(e, m), e.fields[m].value))
                 /\ PValue(p, base, e, m)
                       = PValue(p, base, e, n) + Len(PropCode(PropOf(e, m), e.fields[m].value))
<1>0. IsEntity(e)
  BY DEF Follow
<1>1. PICK N \in Nat : /\ N = Len(e.fields) /\ Parts(IndexParts(e), N, BitValues)
                       /\ Parts(ValueParts(e), N, BitValues)
                       /\ IndexCode(e.way, 4095) \in Seq(BitValues)
  BY <1>0, PartsOfRest
<1>2. /\ Lies(d, M, PWay(p, base, e), IndexPart(e))
      /\ Lies(d, M, PIndices(p, base, e), Flat(ValueParts(e), N))
      /\ PIndices(p, base, e) + Len(Flat(ValueParts(e), N)) = PEnd(p, base, e)
  BY <1>1 DEF EntityLies
<1>3. PICK a, b : a = PWay(p, base, e) /\ b = PIndices(p, base, e)
  OBVIOUS
<1>4. a \in Nat /\ b \in Nat
  BY <1>2, <1>3 DEF Lies
<1>5. PICK s \in Seq(BitValues) : s = Flat(IndexParts(e), N)
  <2>1. N \in 0 .. N
    OBVIOUS
  <2> QED
    BY <1>1, <2>1, FlatTyped
<1>6. PICK t \in Seq(BitValues) : t = IndexCode(e.way, 4095)
  BY <1>1
<1>7. Lies(d, M, a, s \o t)
  BY <1>1, <1>2, <1>3, <1>5, <1>6 DEF IndexPart
<1>8. Lies(d, M, a, s) /\ Lies(d, M, a + Len(s), t) /\ (a + Len(s)) + Len(t) = a + Len(s \o t)
  BY <1>7, LiesJoined
<1>9. b = (a + Len(s)) + Len(t)
  BY <1>1, <1>3, <1>5, <1>6, <1>8 DEF PIndices, IndexPart
<1>10. Flat(IndexParts(e), 0) = << >> /\ Flat(ValueParts(e), 0) = << >> /\ Len(<< >>) = 0
  <2>1. Len(<< >>) = 0
    OBVIOUS
  <2> QED
    BY <2>1, FlatNothing
<1>11. PIndex(p, base, e, 0) = a /\ PValue(p, base, e, 0) = b
  <2>1. Len(Flat(IndexParts(e), 0)) = 0 /\ Len(Flat(ValueParts(e), 0)) = 0
    BY <1>10
  <2> QED
    BY <1>3, <1>4, <2>1 DEF PIndex, PValue
<1>12. \A n \in 0 .. N : \A m \in 1 .. N : m = n + 1 =>
          /\ Lies(d, M, a + Len(Flat(IndexParts(e), n)), IndexParts(e)[m])
          /\ a + Len(Flat(IndexParts(e), m))
                = (a + Len(Flat(IndexParts(e), n))) + Len(IndexParts(e)[m])
  <2>1. Lies(d, M, a, Flat(IndexParts(e), N))
    BY <1>5, <1>8
  <2> QED
    BY <1>1, <2>1, LiesPart
<1>13. \A n \in 0 .. N : \A m \in 1 .. N : m = n + 1 =>
          /\ Lies(d, M, b + Len(Flat(ValueParts(e), n)), ValueParts(e)[m])
          /\ b + Len(Flat(ValueParts(e), m))
                = (b + Len(Flat(ValueParts(e), n))) + Len(ValueParts(e)[m])
  <2>1. Lies(d, M, b, Flat(ValueParts(e), N))
    BY <1>2, <1>3
  <2> QED
    BY <1>1, <2>1, LiesPart
<1>14. \A m \in 1 .. N : /\ IndexParts(e)[m] = IndexCode(e.way, Skips(e.fields, m))
                         /\ ValueParts(e)[m] = PropCode(PropOf(e, m), e.fields[m].value)
  BY <1>1 DEF IndexParts, ValueParts
<1>15. \A n : /\ PIndex(p, base, e, n) = a + Len(Flat(IndexParts(e), n))
              /\ PValue(p, base, e, n) = b + Len(Flat(ValueParts(e), n))
  BY <1>3 DEF PIndex, PValue
<1>16. PValue(p, base, e, N) = PEnd(p, base, e)
  BY <1>2 DEF PValue
<1>17. Lies(d, M, PIndex(p, base, e, N), t) /\ b = PIndex(p, base, e, N) + Len(t)
  BY <1>5, <1>8, <1>9, <1>15
<1>18. ASSUME NEW n \in 0 .. N, NEW m \in 1 .. N, m = n + 1
       PROVE  /\ Lies(d, M, PIndex(p, base, e, n), IndexCode(e.way, Skips(e.fields, m)))
              /\ PIndex(p, base, e, m)
                    = PIndex(p, base, e, n) + Len(IndexCode(e.way, Skips(e.fields, m)))
              /\ Lies(d, M, PValue(p, base, e, n), PropCode(PropOf(e, m), e.fields[m].value))
              /\ PValue(p, base, e, m)
                    = PValue(p, base, e, n) + Len(PropCode(PropOf(e, m), e.fields[m].value))
  <2>1. /\ Lies(d, M, PIndex(p, base, e, n), IndexParts(e)[m])
        /\ PIndex(p, base, e, m) = PIndex(p, base, e, n) + Len(IndexParts(e)[m])
    BY <1>12, <1>15, <1>18
  <2>2. /\ Lies(d, M, PValue(p, base, e, n), ValueParts(e)[m])
        /\ PValue(p, base, e, m) = PValue(p, base, e, n) + Len(ValueParts(e)[m])
    BY <1>13, <1>15, <1>18
  <2> QED
    BY <1>14, <2>1, <2>2
<1> QED
  BY <1>1, <1>3, <1>6, <1>11, <1>16, <1>17, <1>18

(* A row that is continued.                                                *)
LEMMA RowContinued ==
    ASSUME NEW s, IsRow(s), NEW x
    PROVE  /\ IsRow(Append(s, x)) /\ Len(Append(s, x)) = Len(s) + 1
           /\ \A i \in 1 .. Len(s) : Append(s, x)[i] = s[i]
           /\ Append(s, x)[Len(s) + 1] = x
<1> DEFINE T == {s[i] : i \in 1 .. Len(s)} \union {x}
<1>1. PICK n \in Nat : n = Len(s) /\ s = [i \in 1 .. n |-> s[i]]
  BY DEF IsRow
<1>2. \A i \in 1 .. n : s[i] \in T
  BY <1>1
<1>3. x \in T
  OBVIOUS
<1> HIDE DEF T
<1>4. s \in Seq(T)
  <2>1. [i \in 1 .. n |-> s[i]] \in Seq(T)
    BY <1>2
  <2> QED
    BY <1>1, <2>1
<1>5. /\ Append(s, x) \in Seq(T) /\ Len(Append(s, x)) = Len(s) + 1
      /\ \A i \in 1 .. Len(s) : Append(s, x)[i] = s[i]
      /\ Append(s, x)[Len(s) + 1] = x
  BY <1>3, <1>4
<1>6. IsRow(Append(s, x))
  <2>1. PICK t \in Seq(T) : t = Append(s, x)
    BY <1>5
  <2>2. t = [i \in 1 .. Len(t) |-> t[i]] /\ Len(t) \in Nat
    OBVIOUS
  <2> QED
    BY <2>1, <2>2 DEF IsRow
<1> QED
  BY <1>5, <1>6

(* Where an entity of a message begins.                                    *)
MStart(m, k) == Len(Flat(EntityParts(m), k))
MBase(m, k) == IF k = 0 THEN -1 ELSE m[k].id

(* Each entity of a message lies behind the ones before it.                *)
LEMMA NextLies ==
    ASSUME NEW d \in Seq(BitValues), NEW m \in Messages, Shows(d, 0, MessageCode(m)),
           NEW k \in 0 .. Len(m), NEW n \in 1 .. Len(m), n = k + 1
    PROVE  /\ MStart(m, k) \in Nat /\ Follow(MBase(m, k), m[n])
           /\ EntityLies(d, Len(MessageCode(m)), MStart(m, k), MBase(m, k), m[n])
           /\ PEnd(MStart(m, k), MBase(m, k), m[n]) = MStart(m, n)
<1>1. PICK N \in Nat : N = Len(m) /\ MessageIs(m, N)
  BY IsTheMessage DEF MessageIs
<1>2. /\ Parts(EntityParts(m), N, BitValues) /\ MessageCode(m) = Flat(EntityParts(m), N)
      /\ \A i \in 1 .. N : Follow(BaseOf(m, i), m[i])
      /\ \A i \in 1 .. N : EntityParts(m)[i] = EntityCode(BaseOf(m, i), m[i])
  BY <1>1 DEF MessageIs
<1>3. BaseOf(m, n) = MBase(m, k)
  BY DEF BaseOf, MBase
<1>4. PICK M : M = Len(MessageCode(m))
  OBVIOUS
<1>5. Lies(d, M, 0, Flat(EntityParts(m), N))
  <2>1. N \in 0 .. N
    OBVIOUS
  <2>2. Flat(EntityParts(m), N) \in Seq(BitValues)
    BY <1>2, <2>1, FlatTyped
  <2>3. PICK c \in Seq(BitValues) : c = MessageCode(m)
    BY <1>2, <2>2
  <2>4. M \in Nat /\ 0 + Len(c) <= M
    BY <1>4, <2>3
  <2> QED
    BY <1>2, <2>3, <2>4 DEF Lies
<1>6. /\ Lies(d, M, 0 + Len(Flat(EntityParts(m), k)), EntityParts(m)[n])
      /\ 0 + Len(Flat(EntityParts(m), n)) = (0 + Len(Flat(EntityParts(m), k))) + Len(EntityParts(m)[n])
  <2>1. k \in 0 .. N /\ n \in 1 .. N
    BY <1>1
  <2> QED
    BY <1>2, <1>5, <2>1, LiesPart
<1>7. Flat(EntityParts(m), k) \in Seq(BitValues) /\ Flat(EntityParts(m), n) \in Seq(BitValues)
  <2>1. k \in 0 .. N /\ n \in 0 .. N
    BY <1>1
  <2> QED
    BY <1>2, <2>1, FlatTyped
<1>8. MStart(m, k) \in Nat /\ MStart(m, n) \in Nat
  BY <1>7 DEF MStart
<1>9. /\ Lies(d, M, MStart(m, k), EntityParts(m)[n])
      /\ MStart(m, n) = MStart(m, k) + Len(EntityParts(m)[n])
  BY <1>6, <1>8 DEF MStart
<1>10. EntityParts(m)[n] = EntityCode(MBase(m, k), m[n]) /\ Follow(MBase(m, k), m[n])
  BY <1>1, <1>2, <1>3
<1>11. EntityLies(d, M, MStart(m, k), MBase(m, k), m[n])
  BY <1>9, <1>10, EntityParted
<1> QED
  BY <1>4, <1>8, <1>9, <1>10, <1>11 DEF PEnd

(* The reader is behind a piece, or behind the data.                       *)
LEMMA Onward ==
    ASSUME NEW d, NEW M, NEW p, NEW c, NEW q, Lies(d, M, p, c), ReadTo(q, d, p, c)
    PROVE  /\ q \in Nat /\ q >= p
           /\ q <= Len(d) => p + Len(c) <= Len(d) /\ q = p + Len(c)
           /\ Len(d) >= M => q <= Len(d)
<1>1. d \in Seq(BitValues) /\ M \in Nat /\ p \in Nat /\ c \in Seq(BitValues) /\ p + Len(c) <= M
  BY DEF Lies
<1>2. PICK l \in Nat, k \in Nat : l = Len(d) /\ k = Len(c)
  BY <1>1
<1>3. /\ q \in Nat /\ q >= p /\ (p + k <= l => q = p + k) /\ (p + k > l => q > l)
  BY <1>2 DEF ReadTo
<1> QED
  BY <1>1, <1>2, <1>3

(***************************************************************************)
(* The steps.                                                              *)
(***************************************************************************)

(* The entity at hand, in a state.                                         *)
Left == Len(got) < Len(sent)
Place ==
    /\ Follow(Base, Whose) /\ EntityIsOne(Whose)
    /\ data \in Seq(BitValues) /\ Start \in Nat
    /\ EntityLies(data, Len(MessageCode(sent)), Start, Base, Whose)
    /\ PEnd(Start, Base, Whose) = MStart(sent, Len(got) + 1)

(* What may be said of the entity that is read next.                       *)
LEMMA PlaceKnown == Typed /\ Left => Place
<1> SUFFICES ASSUME Typed, Left PROVE Place
  OBVIOUS
<1>1. /\ sent \in Messages /\ data \in Seq(BitValues) /\ Shows(data, 0, MessageCode(sent))
      /\ Len(got) \in Nat
  BY DEF Typed, Written, IsRow
<1>2. PICK k \in Nat, n \in Nat : k = Len(got) /\ n = k + 1
  BY <1>1
<1>3. Len(sent) \in Nat
  BY <1>1, IsTheMessage DEF MessageIs
<1>4. k \in 0 .. Len(sent) /\ n \in 1 .. Len(sent)
  BY <1>2, <1>3 DEF Left
<1>5. /\ MStart(sent, k) \in Nat /\ Follow(MBase(sent, k), sent[n])
      /\ EntityLies(data, Len(MessageCode(sent)), MStart(sent, k), MBase(sent, k), sent[n])
      /\ PEnd(MStart(sent, k), MBase(sent, k), sent[n]) = MStart(sent, n)
  BY <1>1, <1>2, <1>4, NextLies
<1>6. Whose = sent[n] /\ Base = MBase(sent, k) /\ Start = MStart(sent, k) /\ Len(got) + 1 = n
  BY <1>2 DEF Whose, Base, Start, MBase, MStart
<1>7. EntityIsOne(Whose)
  BY <1>5, <1>6, EntityIs DEF Follow
<1> QED
  BY <1>1, <1>5, <1>6, <1>7 DEF Place

(* Where its parts lie.                                                    *)
LEMMA PlacesAre ==
    /\ AfterHead = PHead(Start, Base, Whose) /\ AfterEnter = PEnter(Start, Base, Whose)
    /\ AfterWay = PWay(Start, Base, Whose) /\ AfterIndices = PIndices(Start, Base, Whose)
  BY DEF AfterHead, AfterEnter, AfterWay, AfterIndices, PHead, PEnter, PWay, PIndices

(* What a step has to show, once the entity at hand is known.              *)
Step ==
    /\ Typed' /\ at' >= at
    /\ Reading' /\ InPlace /\ at <= Len(data) /\ at' <= Len(data) => InPlace'
    /\ InPlace /\ at <= Len(data) /\ AllThere => at' <= Len(data) /\ pc' # "abort"

(* A step that keeps what Step says keeps the invariant.                   *)
LEMMA StepKeeps ==
    ASSUME IInv, Reading, sent' = sent, data' = data, Step
    PROVE  IInv'
<1>1. /\ Typed /\ (at <= Len(data) => InPlace) /\ (AllThere => at <= Len(data))
  BY DEF IInv
<1>2. data \in Seq(BitValues) /\ at \in Nat /\ at' \in Nat
  BY <1>1 DEF Typed, Written, Step
<1>3. AllThere' <=> AllThere
  BY DEF AllThere
<1>4. PICK l \in Nat : l = Len(data)
  BY <1>2
<1>5. at' <= l => at <= l
  BY <1>2, <1>4 DEF Step
<1>6. Reading' /\ at' <= Len(data)' => InPlace'
  BY <1>1, <1>4, <1>5 DEF Step
<1>7. Reading' /\ AllThere' => at' <= Len(data)'
  BY <1>1, <1>3, <1>4 DEF Step
<1>8. pc' = "abort" => ~AllThere'
  BY <1>1, <1>3, <1>4 DEF Step
<1> QED
  BY <1>6, <1>7, <1>8 DEF IInv, Step

(* Reading the number and the kind keeps the invariant: ReadUBitVar, and   *)
(* the two bits that svc_PacketEntities tells the kind from.               *)
LEMMA HeaderStep ==
    ASSUME IInv, ReadHeader
    PROVE  IInv'
<1> DEFINE n == ReadUBitVar(data, at)
           leaves == OneBit(data, n.at) = 1
           second == OneBit(data, n.at + 1) = 1
           id == nHeaderBase + 1 + n.v
           kind == IF leaves THEN "leave" ELSE IF second THEN "enter" ELSE "delta"
<1>1. /\ pc = "header" /\ Left
      /\ pc' = IF ~UBitVarAsserted(data, at) THEN "abort"
               ELSE IF id > ENTITY_SENTINEL THEN "done" ELSE kind
      /\ nHeaderBase' = id
      /\ entity' = [NoEntity EXCEPT !.id = id, !.kind = kind, !.delete = leaves /\ second]
      /\ at' = n.at + 2
      /\ sent' = sent /\ data' = data /\ index' = index /\ fieldIndices' = fieldIndices
      /\ got' = got /\ table' = table
  BY DEF ReadHeader, Left
<1>2. Typed
  BY DEF IInv
<1>3. Place
  BY <1>1, <1>2, PlaceKnown
<1>4. n.at \in Nat /\ n.at >= at + 6 /\ n.v \in Nat /\ at \in Nat /\ data \in Seq(BitValues)
  BY <1>2, UBitVarTyped DEF Typed, Written
<1> HIDE DEF n
<1>5. kind \in {"leave", "enter", "delta"}
  OBVIOUS
<1>6. id \in Nat
  BY <1>2, <1>4 DEF Typed, Numbered
<1> HIDE DEF leaves, second, kind, id
<1>7. entity' = [id |-> id, kind |-> kind, delete |-> leaves /\ second, class |-> 0, serial |-> 0,
                 way |-> FALSE, fields |-> <<>>]
  BY <1>1 DEF NoEntity
<1>8. Reading
  BY <1>1 DEF Reading
<1>9. Typed'
  <2>1. Written'
    <3>1. pc' \in {"abort", "done", "leave", "enter", "delta"}
      BY <1>1, <1>5
    <3>2. at' \in Nat
      BY <1>1, <1>4
    <3> QED
      BY <1>1, <1>2, <3>1, <3>2 DEF Typed, Written, Left
  <2>2. Numbered'
    <3>1. pc' # "indices"
      BY <1>1, <1>5
    <3>2. nHeaderBase' \in Nat \union {-1}
      BY <1>1, <1>6
    <3> QED
      BY <1>1, <1>2, <3>1, <3>2 DEF Typed, Numbered
  <2>3. Formed'
    <3>1. 0 \in Classes
      BY ClassesAssumption
    <3>2. /\ entity'.id = id /\ entity'.kind = kind /\ entity'.delete = (leaves /\ second)
          /\ entity'.class = 0 /\ entity'.serial = 0 /\ entity'.way = FALSE /\ entity'.fields = <<>>
      BY <1>7
    <3> QED
      BY <1>1, <1>2, <1>7, <3>1, <3>2, NoRow DEF Typed, Formed
  <2> QED
    BY <2>1, <2>2, <2>3 DEF Typed
<1>10. ASSUME InPlace, at <= Len(data)
       PROVE  /\ Reading' /\ at' <= Len(data) => InPlace'
              /\ AllThere => at' <= Len(data) /\ pc' # "abort"
  <2>1. at = Start /\ nHeaderBase = Base /\ TableHas(Base) /\ GotAsSent
    BY <1>1, <1>10 DEF InPlace, AtHeader
  <2>2. Lies(data, Len(MessageCode(sent)), at, HeadCode(Base, Whose))
    BY <1>3, <2>1 DEF Place, EntityLies
  <2>3. HeadIsRead(data, at, Base, Whose, n)
    <3>1. IsPlace(data, at) /\ Shows(data, at, HeadCode(Base, Whose))
      BY <1>4, <2>2 DEF IsPlace, Lies
    <3> QED
      BY <1>3, <3>1, HeadRead DEF Place, n
  <2>4. ReadTo(at', data, at, HeadCode(Base, Whose))
    BY <1>1, <2>3 DEF HeadIsRead
  <2>5. /\ at' <= Len(data) => at + Len(HeadCode(Base, Whose)) <= Len(data)
                                /\ at' = at + Len(HeadCode(Base, Whose))
        /\ AllThere => at' <= Len(data)
    BY <2>2, <2>4, Onward DEF AllThere
  <2>6. Base \in Int /\ Whose.id \in Nat
    BY <1>3 DEF Place, Follow, EntityIsOne
  <2>7. ASSUME at' <= Len(data)
        PROVE  /\ id = Whose.id /\ UBitVarAsserted(data, at) /\ kind = Whose.kind
               /\ (leaves /\ second) = Whose.delete /\ at' = AfterHead
    <3>1. /\ n.v = Whose.id - Base - 1 /\ UBitVarAsserted(data, at)
          /\ leaves <=> Whose.kind = "leave"
          /\ Whose.kind = "leave" => (second <=> Whose.delete)
          /\ Whose.kind # "leave" => (second <=> Whose.kind = "enter")
      BY <2>3, <2>5, <2>7 DEF HeadIsRead, leaves, second
    <3>2. id = Whose.id
      BY <2>1, <2>6, <3>1 DEF id
    <3>3. /\ Whose.kind \in {"leave", "enter", "delta"} /\ Whose.delete \in BOOLEAN
          /\ Whose.kind # "leave" => Whose.delete = FALSE
      BY <1>3 DEF Place, EntityIsOne
    <3>4. kind = Whose.kind
      BY <3>1, <3>3 DEF kind
    <3>5. (leaves /\ second) = Whose.delete
      BY <3>1, <3>3 DEF leaves
    <3>6. at' = AfterHead
      BY <2>1, <2>5, <2>7 DEF AfterHead
    <3> QED
      BY <3>1, <3>2, <3>4, <3>5, <3>6
  <2>8. ASSUME Reading', at' <= Len(data) PROVE InPlace'
    <3>1. pc' = Whose.kind
      BY <1>1, <2>7, <2>8 DEF Reading
    <3>2. pc' \in {"leave", "enter", "delta"}
      BY <1>3, <3>1 DEF Place, EntityIsOne
    <3>3. Whose' = Whose /\ Base' = Base /\ AfterHead' = AfterHead /\ (GotAsSent' <=> GotAsSent)
      BY <1>1 DEF Whose, Base, AfterHead, Start, GotAsSent
    <3>4. AtKind'
      <4>1. entity' = [NoEntity EXCEPT !.id = Whose.id, !.kind = Whose.kind, !.delete = Whose.delete]
        BY <1>1, <2>7, <2>8
      <4>2. TableHas(Base)'
        BY <1>1, <2>1, <3>3 DEF TableHas
      <4> QED
        BY <2>7, <2>8, <3>1, <3>3, <4>1, <4>2 DEF AtKind
    <3>5. nHeaderBase' = Whose'.id
      BY <1>1, <2>7, <2>8, <3>3
    <3> QED
      BY <2>1, <3>2, <3>3, <3>4, <3>5 DEF InPlace, AtHeader, Within, AtWay, AtIndices, AtValues
  <2>9. AllThere => at' <= Len(data) /\ pc' # "abort"
    <3>1. AllThere => UBitVarAsserted(data, at)
      BY <2>5, <2>7
    <3>2. UBitVarAsserted(data, at) => pc' # "abort"
      BY <1>1, <1>5
    <3> QED
      BY <2>5, <3>1, <3>2
  <2> QED
    BY <2>8, <2>9
<1>11. at' >= at
  BY <1>1, <1>4
<1>12. Step
  BY <1>9, <1>10, <1>11 DEF Step
<1> QED
  BY <1>1, <1>8, <1>12, StepKeeps

(* So does reading the class and the serial number of an entity that       *)
(* enters.                                                                 *)
LEMMA EnterStep ==
    ASSUME IInv, EnterPVS
    PROVE  IInv'
<1> DEFINE class == UNat(data, at, ClassBits)
           serial == UNat(data, at + ClassBits, SerialBits)
<1>1. /\ pc = "enter" /\ pc' = "way"
      /\ entity' = [entity EXCEPT !.class = class, !.serial = serial]
      /\ at' = at + ClassBits + SerialBits
      /\ table' = [i \in DOMAIN table \union {entity.id} |->
                       IF i = entity.id THEN class ELSE table[i]]
      /\ sent' = sent /\ data' = data /\ nHeaderBase' = nHeaderBase /\ index' = index
      /\ fieldIndices' = fieldIndices /\ got' = got
  BY DEF EnterPVS, ClassBits, SerialBits
<1> HIDE DEF class, serial
<1>2. Typed
  BY DEF IInv
<1>3. Reading /\ Left
  BY <1>1, <1>2 DEF Reading, Left, Typed, Written
<1>4. Place
  BY <1>2, <1>3, PlaceKnown
<1>5. at \in Nat /\ data \in Seq(BitValues)
  BY <1>2 DEF Typed, Written
<1>6. PICK l \in Nat : l = Len(data)
  BY <1>5
<1>7. at' \in Nat /\ at' >= at
  <2>1. ClassBits \in Nat /\ SerialBits \in Nat
    BY BitsAre
  <2> QED
    BY <1>1, <1>5, <2>1
<1>8. at <= Len(data) => InPlace
  BY <1>3 DEF IInv
<1>9. ASSUME InPlace
      PROVE  /\ at = AfterHead /\ Whose.kind = "enter" /\ TableHas(Base) /\ GotAsSent
             /\ nHeaderBase = Whose.id
             /\ entity = [NoEntity EXCEPT !.id = Whose.id, !.kind = Whose.kind,
                              !.delete = Whose.delete]
             /\ Lies(data, Len(MessageCode(sent)), at, EnterCode(Whose))
             /\ EnterIsRead(data, at, Whose)
  <2>1. /\ at = AfterHead /\ Whose.kind = "enter" /\ TableHas(Base) /\ GotAsSent
        /\ nHeaderBase = Whose.id
        /\ entity = [NoEntity EXCEPT !.id = Whose.id, !.kind = Whose.kind,
                              !.delete = Whose.delete]
    BY <1>1, <1>9 DEF InPlace, AtKind
  <2>2. Lies(data, Len(MessageCode(sent)), at, EnterCode(Whose))
    BY <1>4, <2>1, PlacesAre DEF Place, EntityLies
  <2>3. EnterIsRead(data, at, Whose)
    <3>1. IsPlace(data, at) /\ Shows(data, at, EnterCode(Whose)) /\ IsEntity(Whose)
      BY <1>4, <1>5, <2>2 DEF IsPlace, Lies, Place, Follow
    <3> QED
      BY <2>1, <3>1, EnterRead
  <2> QED
    BY <2>1, <2>2, <2>3
<1>10. class \in Classes
  <2>1. CASE at <= Len(data)
    BY <1>8, <1>9, <2>1 DEF EnterIsRead, class
  <2>2. CASE ~(at <= Len(data))
    <3>1. at > Len(data)
      BY <1>5, <1>6, <2>2
    <3> QED
      BY <1>5, <3>1, ClassBehind DEF class
  <2> QED
    BY <2>1, <2>2
<1>11. Typed'
  <2>1. Written'
    BY <1>1, <1>2, <1>3, <1>7 DEF Typed, Written, Left
  <2>2. Numbered'
    BY <1>1, <1>2 DEF Typed, Numbered
  <2>3. Formed'
    <3>1. /\ \A i \in DOMAIN table : table[i] \in Classes
          /\ entity.way \in BOOLEAN /\ entity.fields = <<>>
      BY <1>1, <1>2 DEF Typed, Formed
    <3>2. entity = [id |-> entity.id, kind |-> entity.kind, delete |-> entity.delete,
                    class |-> entity.class, serial |-> entity.serial, way |-> entity.way,
                    fields |-> entity.fields]
      BY <1>2 DEF Typed, Formed
    <3>3. entity' = [id |-> entity.id, kind |-> entity.kind, delete |-> entity.delete,
                     class |-> class, serial |-> serial, way |-> entity.way,
                     fields |-> entity.fields]
      BY <1>1, <3>2
    <3>4. /\ entity'.id = entity.id /\ entity'.kind = entity.kind /\ entity'.delete = entity.delete
          /\ entity'.class = class /\ entity'.serial = serial /\ entity'.way = entity.way
          /\ entity'.fields = entity.fields
      BY <3>3
    <3>5. \A i \in DOMAIN table' : table'[i] \in Classes
      BY <1>1, <1>10, <3>1
    <3> QED
      BY <1>1, <3>1, <3>3, <3>4, <3>5, NoRow DEF Formed
  <2> QED
    BY <2>1, <2>2, <2>3 DEF Typed
<1>12. ASSUME InPlace, at <= Len(data)
       PROVE  /\ Reading' /\ at' <= Len(data) => InPlace'
              /\ AllThere => at' <= Len(data) /\ pc' # "abort"
  <2>1. ReadTo(at', data, at, EnterCode(Whose))
    BY <1>1, <1>9, <1>12 DEF EnterIsRead
  <2>2. /\ at' <= Len(data) => at + Len(EnterCode(Whose)) <= Len(data)
                                /\ at' = at + Len(EnterCode(Whose))
        /\ AllThere => at' <= Len(data)
    BY <1>9, <1>12, <2>1, Onward DEF AllThere
  <2>3. ASSUME at' <= Len(data) PROVE InPlace'
    <3>1. class = Whose.class /\ serial = Whose.serial /\ at' = AfterEnter
      BY <1>9, <1>12, <2>2, <2>3 DEF EnterIsRead, class, serial, AfterEnter
    <3>2. Whose' = Whose /\ Base' = Base /\ AfterEnter' = AfterEnter /\ (GotAsSent' <=> GotAsSent)
      BY <1>1 DEF Whose, Base, AfterEnter, AfterHead, Start, GotAsSent
    <3>3. entity' = Begun(Whose)
      BY <1>1, <1>9, <1>12, <3>1 DEF NoEntity, Begun
    <3>4. TableHas(Whose.id)'
      <4>1. entity.id = Whose.id
        BY <1>9, <1>12 DEF NoEntity
      <4>2. Whose.id \in Nat /\ Base \in Int /\ Base < Whose.id
        BY <1>4 DEF Place, Follow, EntityIsOne
      <4>3. ASSUME NEW i \in DOMAIN Present, i > Whose.id
            PROVE  i \in DOMAIN table' /\ table'[i] = Present[i]
        <5>1. i \in Nat
          BY ClassesAssumption
        <5>2. i > Base
          BY <4>2, <4>3, <5>1
        <5>3. i \in DOMAIN table /\ table[i] = Present[i] /\ i # Whose.id
          BY <1>9, <1>12, <4>2, <4>3, <5>2 DEF TableHas
        <5> QED
          BY <1>1, <4>1, <5>3
      <4> QED
        BY <3>2, <4>3 DEF TableHas
    <3>5. AtWay' /\ Within' /\ nHeaderBase' = Whose'.id
      BY <1>1, <1>9, <1>12, <3>1, <3>2, <3>3, <3>4 DEF AtWay, Within
    <3> QED
      BY <1>1, <1>9, <1>12, <3>2, <3>5 DEF InPlace, AtHeader, AtKind, AtIndices, AtValues
  <2> QED
    BY <1>1, <2>2, <2>3
<1>13. Step
  BY <1>7, <1>11, <1>12 DEF Step
<1> QED
  BY <1>1, <1>3, <1>13, StepKeeps

(* One more entity was read.                                               *)
LEMMA GotOneMore ==
    ASSUME Typed, Left, got' = Append(got, entity), sent' = sent
    PROVE  /\ IsRow(got') /\ Len(got') = Len(got) + 1 /\ Len(got') <= Len(sent)
           /\ Base' = Whose.id /\ Start' = MStart(sent, Len(got) + 1)
           /\ GotAsSent /\ Compared(entity) = Compared(Whose) => GotAsSent'
<1>1. IsRow(got) /\ Len(got) \in Nat /\ sent \in Messages
  BY DEF Typed, Written, IsRow
<1>2. Len(sent) \in Nat
  BY <1>1, IsTheMessage DEF MessageIs
<1>g. PICK g : g = Append(got, entity)
  OBVIOUS
<1>3. PICK k \in Nat, n \in Nat : k = Len(got) /\ n = k + 1
  BY <1>1
<1>4. /\ IsRow(g) /\ Len(g) = n /\ (\A i \in 1 .. k : g[i] = got[i]) /\ g[n] = entity
  BY <1>1, <1>3, <1>g, RowContinued
<1>5. got' = g
  BY <1>g
<1>6. Len(got') <= Len(sent)
  BY <1>2, <1>3, <1>4, <1>5 DEF Left
<1>7. Base' = Whose.id
  <2>1. n # 0
    BY <1>3
  <2> QED
    BY <1>3, <1>4, <1>5, <2>1 DEF Base, Whose
<1>8. Start' = MStart(sent, Len(got) + 1)
  BY <1>3, <1>4, <1>5 DEF Start, MStart
<1>9. ASSUME GotAsSent, Compared(entity) = Compared(Whose) PROVE GotAsSent'
  <2>1. ASSUME NEW i \in 1 .. n PROVE Compared(g[i]) = Compared(sent[i])
    <3>1. CASE i = n
      <4>1. Whose = sent[n]
        BY <1>3 DEF Whose
      <4> QED
        BY <1>4, <1>9, <3>1, <4>1
    <3>2. CASE i # n
      <4>1. i \in 1 .. k
        BY <1>3, <3>2
      <4>2. Compared(got[i]) = Compared(sent[i])
        BY <1>3, <1>9, <4>1 DEF GotAsSent
      <4> QED
        BY <1>4, <4>1, <4>2
    <3> QED
      BY <3>1, <3>2
  <2>2. sent' = sent /\ Len(got') = n
    BY <1>4, <1>5
  <2>3. \A i \in 1 .. Len(got') : Compared(got'[i]) = Compared(sent'[i])
    <3> SUFFICES ASSUME NEW i \in 1 .. Len(got') PROVE Compared(got'[i]) = Compared(sent'[i])
      OBVIOUS
    <3>1. i \in 1 .. n /\ got'[i] = g[i] /\ sent'[i] = sent[i]
      BY <1>5, <2>2
    <3> QED
      BY <2>1, <3>1
  <2> QED
    BY <2>3, ZenonT(30) DEF GotAsSent, Compared, IsNoScale
<1> QED
  BY <1>3, <1>4, <1>5, <1>6, <1>7, <1>8, <1>9

(* So does an entity that leaves, which has no fields.                     *)
LEMMA LeaveStep ==
    ASSUME IInv, LeavePVS
    PROVE  IInv'
<1>1. /\ pc = "leave" /\ pc' = "header"
      /\ table' = [i \in DOMAIN table \ {entity.id} |-> table[i]]
      /\ got' = Append(got, entity) /\ at' = at
      /\ sent' = sent /\ data' = data /\ nHeaderBase' = nHeaderBase /\ index' = index
      /\ fieldIndices' = fieldIndices /\ entity' = entity
  BY DEF LeavePVS
<1>2. Typed
  BY DEF IInv
<1>3. Reading /\ Left
  BY <1>1, <1>2 DEF Reading, Left, Typed, Written
<1>4. Place
  BY <1>2, <1>3, PlaceKnown
<1>5. /\ IsRow(got') /\ Len(got') = Len(got) + 1 /\ Len(got') <= Len(sent)
      /\ Base' = Whose.id /\ Start' = MStart(sent, Len(got) + 1)
      /\ GotAsSent /\ Compared(entity) = Compared(Whose) => GotAsSent'
  BY <1>1, <1>2, <1>3, GotOneMore
<1>6. Typed'
  <2>1. Written'
    BY <1>1, <1>2, <1>5 DEF Typed, Written
  <2>2. Numbered'
    BY <1>1, <1>2 DEF Typed, Numbered
  <2>3. Formed'
    <3>1. \A i \in DOMAIN table' : table'[i] \in Classes
      BY <1>1, <1>2 DEF Typed, Formed
    <3> QED
      BY <1>1, <1>2, <3>1 DEF Typed, Formed
  <2> QED
    BY <2>1, <2>2, <2>3 DEF Typed
<1>7. ASSUME InPlace PROVE InPlace'
  <2>1. /\ at = AfterHead /\ Whose.kind = "leave" /\ TableHas(Base) /\ GotAsSent
        /\ nHeaderBase = Whose.id
        /\ entity = [NoEntity EXCEPT !.id = Whose.id, !.kind = Whose.kind, !.delete = Whose.delete]
    BY <1>1, <1>7 DEF InPlace, AtKind
  <2>2. Whose = [NoEntity EXCEPT !.id = Whose.id, !.kind = Whose.kind, !.delete = Whose.delete]
    BY <1>4, <2>1 DEF Place, EntityIsOne
  <2>3. entity = Whose
    BY <2>1, <2>2
  <2>4. GotAsSent'
    BY <1>5, <2>1, <2>3
  <2>5. at = Start'
    BY <1>4, <1>5, <2>1, PlacesAre DEF Place, EntityLies
  <2>6. TableHas(Base)'
    <3>1. Whose.id \in Nat /\ Base \in Int /\ Base < Whose.id
      BY <1>4 DEF Place, Follow, EntityIsOne
    <3>2. ASSUME NEW i \in DOMAIN Present, i > Whose.id
          PROVE  i \in DOMAIN table' /\ table'[i] = Present[i]
      <4>1. i \in Nat
        BY ClassesAssumption
      <4>2. i > Base /\ i # Whose.id
        BY <3>1, <3>2, <4>1
      <4>3. i \in DOMAIN table /\ table[i] = Present[i]
        BY <2>1, <4>2 DEF TableHas
      <4> QED
        BY <1>1, <2>3, <4>2, <4>3
    <3> QED
      BY <1>5, <3>2 DEF TableHas
  <2> QED
    BY <1>1, <1>5, <2>1, <2>4, <2>5, <2>6
       DEF InPlace, AtHeader, AtKind, Within, AtWay, AtIndices, AtValues
<1>8. Step
  <2>1. at \in Nat
    BY <1>2 DEF Typed, Written
  <2> QED
    BY <1>1, <1>6, <1>7, <2>1 DEF Step
<1> QED
  BY <1>1, <1>3, <1>8, StepKeeps

(* So does looking up an entity that changes.                              *)
LEMMA DeltaStep ==
    ASSUME IInv, DeltaEnt
    PROVE  IInv'
<1>1. /\ pc = "delta" /\ at' = at
      /\ IF entity.id \in DOMAIN table
         THEN pc' = "way" /\ entity' = [entity EXCEPT !.class = table[entity.id]]
         ELSE pc' = "abort" /\ entity' = entity
      /\ sent' = sent /\ data' = data /\ nHeaderBase' = nHeaderBase /\ index' = index
      /\ fieldIndices' = fieldIndices /\ got' = got /\ table' = table
  BY DEF DeltaEnt
<1>2. Typed
  BY DEF IInv
<1>3. Reading /\ Left
  BY <1>1, <1>2 DEF Reading, Left, Typed, Written
<1>4. Place
  BY <1>2, <1>3, PlaceKnown
<1>5. Typed'
  <2>1. Written'
    BY <1>1, <1>2, <1>3 DEF Typed, Written, Left
  <2>2. Numbered'
    BY <1>1, <1>2 DEF Typed, Numbered
  <2>3. Formed'
    <3>1. CASE entity.id \in DOMAIN table
      <4>1. PICK c : c = table[entity.id] /\ c \in Classes
        BY <1>2, <3>1 DEF Typed, Formed
      <4>2. entity.way \in BOOLEAN /\ entity.fields = <<>>
        BY <1>1, <1>2 DEF Typed, Formed
      <4>3. entity = [id |-> entity.id, kind |-> entity.kind, delete |-> entity.delete,
                      class |-> entity.class, serial |-> entity.serial, way |-> entity.way,
                      fields |-> entity.fields]
        BY <1>2 DEF Typed, Formed
      <4>4. entity' = [id |-> entity.id, kind |-> entity.kind, delete |-> entity.delete,
                       class |-> c, serial |-> entity.serial, way |-> entity.way,
                       fields |-> entity.fields]
        BY <1>1, <3>1, <4>1, <4>3
      <4>5. /\ entity'.id = entity.id /\ entity'.kind = entity.kind
            /\ entity'.delete = entity.delete /\ entity'.class = c
            /\ entity'.serial = entity.serial /\ entity'.way = entity.way
            /\ entity'.fields = entity.fields
        BY <4>4
      <4>6. \A i \in DOMAIN table' : table'[i] \in Classes
        BY <1>1, <1>2 DEF Typed, Formed
      <4> QED
        BY <4>1, <4>2, <4>4, <4>5, <4>6, NoRow DEF Formed
    <3>2. CASE entity.id \notin DOMAIN table
      BY <1>1, <1>2, <3>2 DEF Typed, Formed
    <3> QED
      BY <3>1, <3>2
  <2> QED
    BY <2>1, <2>2, <2>3 DEF Typed
<1>6. ASSUME InPlace PROVE InPlace' /\ pc' = "way"
  <2>1. /\ at = AfterHead /\ Whose.kind = "delta" /\ TableHas(Base) /\ GotAsSent
        /\ nHeaderBase = Whose.id
        /\ entity = [NoEntity EXCEPT !.id = Whose.id, !.kind = Whose.kind, !.delete = Whose.delete]
    BY <1>1, <1>6 DEF InPlace, AtKind
  <2>2. /\ Whose.id \in DOMAIN Present /\ Whose.class = Present[Whose.id] /\ Whose.serial = 0
        /\ Whose.id \in Nat /\ Base \in Int /\ Base < Whose.id
    BY <1>4, <2>1 DEF Place, Follow, EntityIsOne
  <2>3. PICK c : c = table[Whose.id] /\ Whose.id \in DOMAIN table /\ c = Whose.class
    BY <2>1, <2>2 DEF TableHas
  <2>4. entity.id = Whose.id
    BY <2>1 DEF NoEntity
  <2>5. pc' = "way" /\ entity' = Begun(Whose)
    BY <1>1, <2>1, <2>2, <2>3, <2>4 DEF NoEntity, Begun
  <2>6. at = AfterEnter
    BY <1>4, <2>1, PlacesAre DEF Place, EntityLies
  <2>7. TableHas(Whose.id)
    <3>1. ASSUME NEW i \in DOMAIN Present, i > Whose.id PROVE i > Base
      <4>1. i \in Nat
        BY ClassesAssumption
      <4> QED
        BY <2>2, <3>1, <4>1
    <3> QED
      BY <2>1, <3>1 DEF TableHas
  <2>8. Whose' = Whose /\ Base' = Base /\ AfterEnter' = AfterEnter /\ (GotAsSent' <=> GotAsSent)
    BY <1>1 DEF Whose, Base, AfterEnter, AfterHead, Start, GotAsSent
  <2>9. TableHas(Whose.id)'
    BY <1>1, <2>7, <2>8 DEF TableHas
  <2> QED
    BY <1>1, <2>1, <2>5, <2>6, <2>8, <2>9
       DEF InPlace, AtHeader, AtKind, Within, AtWay, AtIndices, AtValues
<1>7. Step
  <2>1. at \in Nat
    BY <1>2 DEF Typed, Written
  <2>2. pc' = "way" => pc' # "abort"
    OBVIOUS
  <2> QED
    BY <1>1, <1>5, <1>6, <2>1, <2>2 DEF Step
<1> QED
  BY <1>1, <1>3, <1>7, StepKeeps

(* So does reading how the indices are written.                            *)
LEMMA WayStep ==
    ASSUME IInv, ReadWay
    PROVE  IInv'
<1>1. /\ pc = "way" /\ pc' = "indices"
      /\ entity' = [entity EXCEPT !.way = OneBit(data, at) = 1]
      /\ at' = at + 1 /\ index' = -1 /\ fieldIndices' = <<>>
      /\ sent' = sent /\ data' = data /\ nHeaderBase' = nHeaderBase /\ got' = got
      /\ table' = table
  BY DEF ReadWay
<1>2. Typed
  BY DEF IInv
<1>3. Reading /\ Left
  BY <1>1, <1>2 DEF Reading, Left, Typed, Written
<1>4. Place
  BY <1>2, <1>3, PlaceKnown
<1>5. at \in Nat /\ data \in Seq(BitValues)
  BY <1>2 DEF Typed, Written
<1>6. PICK w \in BOOLEAN : w = (OneBit(data, at) = 1)
  OBVIOUS
<1>7. /\ entity' = [id |-> entity.id, kind |-> entity.kind, delete |-> entity.delete,
                    class |-> entity.class, serial |-> entity.serial, way |-> w,
                    fields |-> entity.fields]
      /\ entity.fields = <<>>
  <2>1. entity = [id |-> entity.id, kind |-> entity.kind, delete |-> entity.delete,
                  class |-> entity.class, serial |-> entity.serial, way |-> entity.way,
                  fields |-> entity.fields]
    BY <1>2 DEF Typed, Formed
  <2> QED
    BY <1>1, <1>2, <1>6, <2>1 DEF Typed, Formed
<1>8. Typed'
  <2>1. Written'
    BY <1>1, <1>2, <1>3, <1>5 DEF Typed, Written, Left
  <2>2. Numbered'
    <3>1. <<>> \in Seq(Nat) /\ Len(<<>>) = 0
      OBVIOUS
    <3>2. nHeaderBase' \in Nat \union {-1}
      BY <1>1, <1>2 DEF Typed, Numbered
    <3>3. index' \in Nat \union {-1}
      BY <1>1
    <3>4. \A i \in 1 .. Len(fieldIndices') : FALSE
      BY <1>1, <3>1
    <3> QED
      BY <1>1, <3>1, <3>2, <3>3, <3>4 DEF Numbered
  <2>3. Formed'
    <3>1. /\ entity'.id = entity.id /\ entity'.kind = entity.kind
          /\ entity'.delete = entity.delete /\ entity'.class = entity.class
          /\ entity'.serial = entity.serial /\ entity'.way = w
          /\ entity'.fields = entity.fields
      BY <1>7
    <3>2. entity.class \in Classes /\ \A i \in DOMAIN table : table[i] \in Classes
      BY <1>2 DEF Typed, Formed
    <3> QED
      BY <1>1, <1>7, <3>1, <3>2, NoRow DEF Formed
  <2> QED
    BY <2>1, <2>2, <2>3 DEF Typed
<1>9. ASSUME InPlace, at <= Len(data)
      PROVE  /\ Reading' /\ at' <= Len(data) => InPlace'
             /\ AllThere => at' <= Len(data) /\ pc' # "abort"
  <2>1. /\ at = AfterEnter /\ entity = Begun(Whose) /\ Whose.kind # "leave" /\ TableHas(Whose.id)
        /\ GotAsSent /\ nHeaderBase = Whose.id
    BY <1>1, <1>9 DEF InPlace, AtWay, Within
  <2>2. PICK b \in BitValues : Flag(Whose.way) = <<b>> /\ (b = 1 <=> Whose.way)
    <3>1. Whose.way \in BOOLEAN
      BY <1>4 DEF Place, EntityIsOne
    <3> QED
      BY <3>1, FlagIs
  <2>3. PICK c \in Seq(BitValues) : c = <<b>> /\ Len(c) = 1
    <3>1. <<b>> \in Seq(BitValues) /\ Len(<<b>>) = 1
      OBVIOUS
    <3> QED
      BY <3>1
  <2>4. Lies(data, Len(MessageCode(sent)), at, c)
    BY <1>4, <2>1, <2>2, <2>3, PlacesAre DEF Place, EntityLies
  <2>5. ReadTo(at', data, at, c)
    <3>1. ReadTo(at + Len(c), data, at, c)
      BY <1>5, ReadToFixed
    <3>2. at' = at + Len(c)
      BY <1>1, <2>3
    <3> QED
      BY <3>1, <3>2
  <2>6. /\ at' <= Len(data) => at + Len(c) <= Len(data) /\ at' = at + Len(c)
        /\ AllThere => at' <= Len(data)
    BY <2>4, <2>5, Onward DEF AllThere
  <2>7. ASSUME at' <= Len(data) PROVE InPlace'
    <3>1. w = Whose.way
      <4>1. OneBit(data, at) = b
        <5>1. Shows(data, at, <<b>>) /\ at + 1 <= Len(data)
          BY <2>3, <2>4, <2>6, <2>7 DEF Lies
        <5> QED
          BY <1>5, <5>1, ShownBit
      <4>2. Whose.way \in BOOLEAN
        BY <1>4 DEF Place, EntityIsOne
      <4> QED
        BY <1>6, <2>2, <4>1, <4>2
    <3>2. entity' = WithFields(Whose, <<>>)
      BY <1>7, <2>1, <3>1 DEF Begun, WithFields
    <3>3. /\ Whose' = Whose /\ Base' = Base /\ AfterWay' = AfterWay /\ (GotAsSent' <=> GotAsSent)
      BY <1>1 DEF Whose, Base, AfterWay, AfterEnter, AfterHead, Start, GotAsSent
    <3>4. TableHas(Whose.id)'
      BY <1>1, <2>1, <3>3 DEF TableHas
    <3>5. AtIndices'
      <4>1. Len(fieldIndices') = 0
        BY <1>1
      <4>2. Flat(IndexParts(Whose), 0) = <<>> /\ Len(<<>>) = 0
        <5>1. Len(<<>>) = 0
          OBVIOUS
        <5> QED
          BY <5>1, FlatNothing
      <4>3. at' = AfterWay + Len(Flat(IndexParts(Whose), 0))
        BY <1>1, <1>5, <2>1, <4>2 DEF AfterWay
      <4>4. 0 <= Len(Whose.fields)
        BY <1>4 DEF Place, EntityIsOne, IsRow
      <4> QED
        BY <1>1, <3>2, <3>3, <4>1, <4>3, <4>4 DEF AtIndices
    <3> QED
      BY <1>1, <2>1, <3>3, <3>4, <3>5 DEF InPlace, AtHeader, AtKind, Within, AtWay, AtValues
  <2> QED
    BY <1>1, <2>6, <2>7
<1>10. Step
  <2>1. at' >= at
    BY <1>1, <1>5
  <2> QED
    BY <1>8, <1>9, <2>1 DEF Step
<1> QED
  BY <1>1, <1>3, <1>10, StepKeeps

(* How many indices the next one skips; all, at the end marker.            *)
Due ==
    IF Len(fieldIndices) < Len(Whose.fields) THEN Skips(Whose.fields, Len(fieldIndices) + 1)
    ELSE MaxSkipped
DueCode == IndexCode(entity.way, Due)
Coming == IndexOf(data, at, entity.way)

DueKnown ==
    /\ Due \in Nat /\ Due <= MaxSkipped
    /\ Len(fieldIndices) < Len(Whose.fields) => Due < MaxSkipped
    /\ IndexIsRead(data, at, entity.way, Due)
    /\ Lies(data, Len(MessageCode(sent)), at, DueCode)
    /\ \A m \in 1 .. Len(Whose.fields) : m = Len(fieldIndices) + 1 =>
          at + Len(DueCode) = AfterWay + Len(Flat(IndexParts(Whose), m))
    /\ Len(fieldIndices) = Len(Whose.fields) => at + Len(DueCode) = AfterIndices

(* The index that is due, by the fields that are left.                     *)
LEMMA DueIs ==
    ASSUME Typed, Left, pc = "indices", InPlace
    PROVE  DueKnown
<1>1. Place
  BY PlaceKnown
<1>2. /\ at \in Nat /\ data \in Seq(BitValues)
  BY DEF Typed, Written
<1>3. /\ Whose.kind # "leave" /\ entity = WithFields(Whose, <<>>)
      /\ Len(fieldIndices) <= Len(Whose.fields)
      /\ at = AfterWay + Len(Flat(IndexParts(Whose), Len(fieldIndices)))
  BY DEF InPlace, Within, AtIndices
<1>4. entity.way = Whose.way /\ Whose.way \in BOOLEAN
  BY <1>1, <1>3 DEF WithFields, Place, EntityIsOne
<1>5. PICK p, base, M : p = Start /\ base = Base /\ M = Len(MessageCode(sent))
  OBVIOUS
<1>6. Follow(base, Whose) /\ EntityLies(data, M, p, base, Whose) /\ IsEntity(Whose)
  BY <1>1, <1>5 DEF Place, Follow
<1>7. PICK j \in Nat, N \in Nat : j = Len(fieldIndices) /\ N = Len(Whose.fields) /\ j <= N
  <2>1. Len(fieldIndices) \in Nat
    BY DEF Typed, Numbered
  <2>2. Len(Whose.fields) \in Nat
    BY <1>1 DEF Place, EntityIsOne, IsRow
  <2> QED
    BY <1>3, <2>1, <2>2
<1>8. /\ Lies(data, M, PIndex(p, base, Whose, N), IndexCode(Whose.way, 4095))
      /\ PIndices(p, base, Whose) = PIndex(p, base, Whose, N) + Len(IndexCode(Whose.way, 4095))
      /\ \A n \in 0 .. N : \A m \in 1 .. N : m = n + 1 =>
            /\ Lies(data, M, PIndex(p, base, Whose, n), IndexCode(Whose.way, Skips(Whose.fields, m)))
            /\ PIndex(p, base, Whose, m)
                  = PIndex(p, base, Whose, n) + Len(IndexCode(Whose.way, Skips(Whose.fields, m)))
  BY <1>3, <1>6, <1>7, FieldsParted
<1>9. \A n : PIndex(p, base, Whose, n) = AfterWay + Len(Flat(IndexParts(Whose), n))
  BY <1>5, PlacesAre DEF PIndex
<1>10. at = PIndex(p, base, Whose, j) /\ AfterIndices = PIndices(p, base, Whose)
  BY <1>3, <1>5, <1>7, <1>9, PlacesAre
<1>m. MaxSkipped \in Nat /\ MaxSkipped = 4095
  BY DEF MaxSkipped
<1>11. CASE j < N
  <2>1. PICK n \in Nat : n = j + 1
    OBVIOUS
  <2>2. n \in 1 .. N /\ j \in 0 .. N /\ j # N
    BY <1>11, <2>1
  <2>3. Due = Skips(Whose.fields, n)
    BY <1>7, <1>11, <2>1 DEF Due
  <2>4. Due \in Nat /\ Due < MaxSkipped
    <3>1. FieldsAre(Whose)
      BY <1>3, <1>6, FieldsFit
    <3> QED
      BY <1>7, <2>2, <2>3, <3>1 DEF FieldsAre
  <2>5. Due <= MaxSkipped
    <3>1. PICK x \in Nat, y \in Nat : x = Due /\ y = MaxSkipped
      BY <1>m, <2>4
    <3> QED
      BY <2>4, <3>1
  <2>6. /\ Lies(data, M, at, IndexCode(Whose.way, Due))
        /\ PIndex(p, base, Whose, n) = at + Len(IndexCode(Whose.way, Due))
    BY <1>8, <1>10, <2>1, <2>2, <2>3
  <2>7. IndexIsRead(data, at, Whose.way, Due)
    <3>1. Shows(data, at, IndexCode(Whose.way, Due))
      BY <2>6 DEF Lies
    <3> QED
      BY <1>2, <1>4, <2>4, <2>5, <3>1, IndexRead
  <2>8. DueCode = IndexCode(Whose.way, Due)
    BY <1>4 DEF DueCode
  <2>9. \A m \in 1 .. N : m = j + 1 =>
          at + Len(DueCode) = AfterWay + Len(Flat(IndexParts(Whose), m))
    BY <1>9, <2>1, <2>6, <2>8
  <2> QED
    BY <1>4, <1>5, <1>7, <2>2, <2>4, <2>5, <2>6, <2>7, <2>8, <2>9 DEF DueKnown
<1>12. CASE j = N
  <2>1. PICK x : x = 4095
    OBVIOUS
  <2>2. Due = x /\ MaxSkipped = x
    <3>1. ~(j < N)
      BY <1>12
    <3> QED
      BY <1>7, <1>m, <2>1, <3>1 DEF Due
  <2>3. Due \in Nat /\ Due <= MaxSkipped
    BY <1>m, <2>2
  <2>4. /\ Lies(data, M, at, IndexCode(Whose.way, Due))
        /\ AfterIndices = at + Len(IndexCode(Whose.way, Due))
    BY <1>8, <1>10, <1>12, <2>1, <2>2
  <2>5. IndexIsRead(data, at, Whose.way, Due)
    <3>1. Shows(data, at, IndexCode(Whose.way, Due))
      BY <2>4 DEF Lies
    <3> QED
      BY <1>2, <1>4, <2>3, <3>1, IndexRead
  <2>6. DueCode = IndexCode(Whose.way, Due)
    BY <1>4 DEF DueCode
  <2>7. \A m \in 1 .. N : m # j + 1
    BY <1>12
  <2>8. ~(j < N)
    BY <1>12
  <2> QED
    BY <1>4, <1>5, <1>7, <2>3, <2>4, <2>5, <2>6, <2>7, <2>8 DEF DueKnown
<1> QED
  BY <1>7, <1>11, <1>12

(* What is read next is what is due, as far as the data goes.              *)
ComingKnown ==
    /\ Coming.v \in Nat /\ Coming.at \in Nat /\ Coming.at >= at
    /\ InPlace /\ at <= Len(data) => DueKnown /\ (AllThere => Coming.at <= Len(data))
    /\ InPlace /\ at <= Len(data) /\ Coming.at <= Len(data) =>
          /\ Coming.v = Due /\ Coming.at = at + Len(DueCode)
          /\ IsOneBit(data, at, entity.way) <=> entity.way /\ Due = 0
          /\ IsThreeBits(data, at, entity.way) <=> entity.way /\ Due # 0 /\ Due < 8
          /\ IsSized(data, at, entity.way) => SkippedAsserted(data, Sizing(at, entity.way))

(* What is read next is the index that is due.                             *)
LEMMA ComingIs ==
    ASSUME Typed, Left, pc = "indices"
    PROVE  ComingKnown
<1>1. at \in Nat /\ data \in Seq(BitValues) /\ entity.way \in BOOLEAN
  BY DEF Typed, Written, Formed
<1>2. Coming.v \in Nat /\ Coming.at \in Nat /\ Coming.at >= at
  BY <1>1, IndexTyped DEF Coming, GoesOn
<1>3. ASSUME InPlace PROVE DueKnown
  BY <1>3, DueIs
<1>4. ASSUME InPlace, at <= Len(data)
      PROVE  /\ AllThere => Coming.at <= Len(data)
             /\ Coming.at <= Len(data) => at + Len(DueCode) <= Len(data) /\ Coming.at = at + Len(DueCode)
  <2>1. Lies(data, Len(MessageCode(sent)), at, DueCode) /\ IndexIsRead(data, at, entity.way, Due)
    BY <1>3, <1>4 DEF DueKnown
  <2>2. ReadTo(Coming.at, data, at, DueCode)
    BY <2>1 DEF IndexIsRead, ReadsAs, Coming, DueCode
  <2> QED
    BY <2>1, <2>2, Onward DEF AllThere
<1>5. ASSUME InPlace, at <= Len(data), Coming.at <= Len(data)
      PROVE  /\ Coming.v = Due
             /\ IsOneBit(data, at, entity.way) <=> entity.way /\ Due = 0
             /\ IsThreeBits(data, at, entity.way) <=> entity.way /\ Due # 0 /\ Due < 8
             /\ IsSized(data, at, entity.way) => SkippedAsserted(data, Sizing(at, entity.way))
  <2>1. IndexIsRead(data, at, entity.way, Due)
    BY <1>3, <1>5 DEF DueKnown
  <2>2. at + Len(IndexCode(entity.way, Due)) <= Len(data)
    BY <1>4, <1>5 DEF DueCode
  <2> QED
    BY <2>1, <2>2 DEF IndexIsRead, ReadsAs, Coming
<1> QED
  BY <1>2, <1>3, <1>4, <1>5 DEF ComingKnown

(* An index that is not the end marker is the one of the next field:       *)
(* pushing it keeps the invariant.                                         *)
LEMMA PushStep ==
    ASSUME IInv, pc = "indices", PushIndex(Coming.v, Coming.at),
           InPlace /\ at <= Len(data) /\ Coming.at <= Len(data) => Due # MaxSkipped
    PROVE  IInv'
<1> DEFINE pushed == index + 1 + Coming.v
<1>1. /\ index' = pushed /\ fieldIndices' = Append(fieldIndices, pushed) /\ at' = Coming.at
      /\ sent' = sent /\ data' = data /\ pc' = pc /\ nHeaderBase' = nHeaderBase
      /\ entity' = entity /\ got' = got /\ table' = table
  BY DEF PushIndex, FieldIndex
<1>2. Typed
  BY DEF IInv
<1>3. Reading /\ Left
  BY <1>2 DEF Reading, Left, Typed, Written
<1>4. Place
  BY <1>2, <1>3, PlaceKnown
<1>5. /\ Coming.v \in Nat /\ Coming.at \in Nat /\ Coming.at >= at
      /\ InPlace /\ at <= Len(data) => DueKnown /\ (AllThere => Coming.at <= Len(data))
      /\ InPlace /\ at <= Len(data) /\ Coming.at <= Len(data) =>
            Coming.v = Due /\ Coming.at = at + Len(DueCode)
  BY <1>2, <1>3, ComingIs DEF ComingKnown
<1>6. PICK v \in Nat : v = Coming.v
  BY <1>5
<1>7. /\ index \in Nat \union {-1} /\ fieldIndices \in Seq(Nat)
      /\ \A i \in 1 .. Len(fieldIndices) : fieldIndices[i] <= index
  BY <1>2 DEF Typed, Numbered
<1>8. pushed \in Nat /\ pushed > index
  BY <1>6, <1>7
<1> HIDE DEF pushed
<1>9. PICK j \in Nat, n \in Nat : j = Len(fieldIndices) /\ n = j + 1
  BY <1>7
<1>10. PICK g \in Seq(Nat) : /\ g = fieldIndices' /\ Len(g) = n /\ g[n] = pushed
                             /\ \A i \in 1 .. j : g[i] = fieldIndices[i]
  <2>1. Append(fieldIndices, pushed) \in Seq(Nat) /\ Len(Append(fieldIndices, pushed)) = n
    BY <1>7, <1>8, <1>9
  <2>2. Append(fieldIndices, pushed)[n] = pushed
    BY <1>7, <1>8, <1>9
  <2>3. \A i \in 1 .. j : Append(fieldIndices, pushed)[i] = fieldIndices[i]
    BY <1>7, <1>8, <1>9
  <2> QED
    BY <1>1, <2>1, <2>2, <2>3
<1>11. Typed'
  <2>1. Written'
    BY <1>1, <1>2, <1>3, <1>5 DEF Typed, Written, Left
  <2>2. Numbered'
    <3>1. nHeaderBase' \in Nat \union {-1}
      BY <1>1, <1>2 DEF Typed, Numbered
    <3>2. \A i \in 1 .. j : g[i] < pushed
      <4>1. \A i \in 1 .. j : fieldIndices[i] \in Nat /\ fieldIndices[i] <= index
        BY <1>7, <1>9
      <4> QED
        BY <1>7, <1>8, <1>10, <4>1
    <3>3. ASSUME NEW i \in 1 .. n PROVE g[i] <= pushed
      <4>1. CASE i = n
        BY <1>8, <1>10, <4>1
      <4>2. CASE i # n
        <5>1. i \in 1 .. j
          BY <1>9, <4>2
        <5>2. g[i] \in Nat
          BY <1>10
        <5> QED
          BY <1>8, <3>2, <5>1, <5>2
      <4> QED
        BY <4>1, <4>2
    <3>4. ASSUME NEW a \in 1 .. n, NEW b \in 1 .. n, a < b PROVE g[a] < g[b]
      <4>1. a \in 1 .. j
        BY <1>9, <3>4
      <4>2. CASE b = n
        BY <1>10, <3>2, <4>1, <4>2
      <4>3. CASE b # n
        <5>1. b \in 1 .. j
          BY <1>9, <4>3
        <5>2. fieldIndices[a] < fieldIndices[b]
          BY <1>2, <1>9, <3>4, <4>1, <5>1 DEF Typed, Numbered
        <5> QED
          BY <1>10, <4>1, <5>1, <5>2
      <4> QED
        BY <4>2, <4>3
    <3>5. index' = pushed /\ index' \in Nat
      BY <1>1, <1>8
    <3> QED
      BY <1>10, <3>1, <3>3, <3>4, <3>5 DEF Numbered
  <2>3. Formed'
    BY <1>1, <1>2 DEF Typed, Formed
  <2> QED
    BY <2>1, <2>2, <2>3 DEF Typed
<1>12. ASSUME InPlace, at <= Len(data), at' <= Len(data) PROVE InPlace'
  <2>1. /\ DueKnown /\ v = Due /\ at' = at + Len(DueCode) /\ Due # MaxSkipped
    BY <1>1, <1>5, <1>6, <1>12
  <2>2. /\ GotAsSent /\ nHeaderBase = Whose.id /\ Whose.kind # "leave" /\ TableHas(Whose.id)
        /\ entity = WithFields(Whose, <<>>) /\ j <= Len(Whose.fields)
        /\ index = IF j = 0 THEN -1 ELSE Whose.fields[j].index
        /\ \A i \in 1 .. j : fieldIndices[i] = Whose.fields[i].index
    BY <1>9, <1>12 DEF InPlace, Within, AtIndices
  <2>3. PICK N \in Nat : N = Len(Whose.fields)
    BY <1>4 DEF Place, EntityIsOne, IsRow
  <2>4. j < N /\ n \in 1 .. N
    <3>1. j < N
      BY <1>9, <2>1, <2>3 DEF Due
    <3> QED
      BY <1>9, <2>3, <3>1
  <2>5. pushed = Whose.fields[n].index
    <3>1. Due = Skips(Whose.fields, n)
      BY <1>9, <2>3, <2>4 DEF Due
    <3>2. Whose.fields[n].index = (IF n = 1 THEN -1 ELSE Whose.fields[n - 1].index) + 1 + Due
      <4>1. FieldsAre(Whose)
        BY <1>4, <2>2, FieldsFit DEF Place, Follow
      <4> QED
        BY <2>3, <2>4, <3>1, <4>1 DEF FieldsAre
    <3>3. index = IF n = 1 THEN -1 ELSE Whose.fields[n - 1].index
      BY <1>9, <2>2
    <3> QED
      BY <1>6, <2>1, <3>2, <3>3 DEF pushed
  <2>6. /\ Whose' = Whose /\ Base' = Base /\ AfterWay' = AfterWay /\ (GotAsSent' <=> GotAsSent)
    BY <1>1 DEF Whose, Base, AfterWay, AfterEnter, AfterHead, Start, GotAsSent
  <2>7. TableHas(Whose.id)'
    BY <1>1, <2>2, <2>6 DEF TableHas
  <2>8. AtIndices'
    <3>1. at' = AfterWay + Len(Flat(IndexParts(Whose), n))
      BY <1>9, <2>1, <2>3, <2>4 DEF DueKnown
    <3>2. n <= N /\ n # 0
      BY <1>9, <2>4
    <3>3. ASSUME NEW i \in 1 .. n PROVE g[i] = Whose.fields[i].index
      <4>1. CASE i = n
        BY <1>10, <2>5, <4>1
      <4>2. CASE i # n
        <5>1. i \in 1 .. j
          BY <1>9, <4>2
        <5> QED
          BY <1>10, <2>2, <5>1
      <4> QED
        BY <4>1, <4>2
    <3> QED
      BY <1>1, <1>10, <2>2, <2>3, <2>5, <2>6, <3>1, <3>2, <3>3 DEF AtIndices
  <2> QED
    BY <1>1, <2>2, <2>6, <2>7, <2>8 DEF InPlace, AtHeader, AtKind, Within, AtWay, AtValues
<1>13. Step
  <2>1. at' >= at /\ pc' # "abort"
    BY <1>1, <1>5
  <2> QED
    BY <1>1, <1>5, <1>11, <1>12, <2>1 DEF Step
<1> QED
  BY <1>1, <1>3, <1>13, StepKeeps

(* The three ways an index is written.                                     *)
LEMMA IndexSteps ==
    ASSUME IInv, ReadNextIndex \/ ReadShortIndex \/ ReadLongIndex
    PROVE  IInv'
<1>1. pc = "indices"
  BY DEF ReadNextIndex, ReadShortIndex, ReadLongIndex, ReadingIndices
<1>2. Typed
  BY DEF IInv
<1>3. Left
  BY <1>1, <1>2 DEF Reading, Left, Typed, Written
<1>4. InPlace /\ at <= Len(data) /\ Coming.at <= Len(data) =>
          /\ Coming.v = Due /\ Due \in Nat
          /\ IsOneBit(data, at, entity.way) <=> entity.way /\ Due = 0
          /\ IsThreeBits(data, at, entity.way) <=> entity.way /\ Due # 0 /\ Due < 8
  BY <1>1, <1>2, <1>3, ComingIs DEF ComingKnown, DueKnown
<1>5. /\ IsNextIndex <=> IsOneBit(data, at, entity.way)
      /\ IsShort <=> IsThreeBits(data, at, entity.way)
      /\ AtSkipped = Sizing(at, entity.way)
  BY DEF IsNextIndex, IsShort, AtSkipped, IsOneBit, IsThreeBits, Sizing
<1>m. MaxSkipped \in Nat /\ MaxSkipped > 8 /\ MaxSkipped = 4095
  BY DEF MaxSkipped
<1>6. CASE ReadNextIndex
  <2>1. IsOneBit(data, at, entity.way) /\ PushIndex(0, at + 1)
    BY <1>5, <1>6 DEF ReadNextIndex
  <2>2. Coming = Result(0, at + 1)
    BY <2>1 DEF Coming, IndexOf
  <2>3. PushIndex(Coming.v, Coming.at)
    BY <2>1, <2>2, ResultIs
  <2>4. InPlace /\ at <= Len(data) /\ Coming.at <= Len(data) => Due = 0
    BY <1>4, <2>1
  <2>5. InPlace /\ at <= Len(data) /\ Coming.at <= Len(data) => Due # MaxSkipped
    BY <1>m, <2>4
  <2> QED
    BY <1>1, <2>3, <2>5, PushStep
<1>7. CASE ReadShortIndex
  <2>1. IsThreeBits(data, at, entity.way) /\ PushIndex(UNat(data, at + 2, 3), at + 5)
    BY <1>5, <1>7 DEF ReadShortIndex
  <2>2. Coming = Result(UNat(data, at + 2, 3), at + 5)
    BY <2>1 DEF Coming, IndexOf, IsOneBit, IsThreeBits
  <2>3. PushIndex(Coming.v, Coming.at)
    BY <2>1, <2>2, ResultIs
  <2>4. InPlace /\ at <= Len(data) /\ Coming.at <= Len(data) => Due < 8 /\ Due \in Nat
    BY <1>4, <2>1
  <2>5. InPlace /\ at <= Len(data) /\ Coming.at <= Len(data) => Due # MaxSkipped
    BY <1>m, <2>4
  <2> QED
    BY <1>1, <2>3, <2>5, PushStep
<1>8. CASE ReadLongIndex
  <2>1. PICK q : q = AtSkipped
    OBVIOUS
  <2>2. /\ ~IsOneBit(data, at, entity.way) /\ ~IsThreeBits(data, at, entity.way)
        /\ ~EndMarker(ReadSkipped(data, q).v) /\ PushIndex(ReadSkipped(data, q).v, ReadSkipped(data, q).at)
    BY <1>5, <1>8, <2>1 DEF ReadLongIndex
  <2>3. Coming = ReadSkipped(data, q)
    BY <1>5, <2>1, <2>2 DEF Coming, IndexOf
  <2>4. Coming.v # MaxSkipped
    BY <1>m, <2>2, <2>3 DEF EndMarker
  <2>5. InPlace /\ at <= Len(data) /\ Coming.at <= Len(data) => Due # MaxSkipped
    BY <1>4, <2>4
  <2> QED
    BY <1>1, <2>2, <2>3, <2>5, PushStep
<1> QED
  BY <1>6, <1>7, <1>8

(* The assertion on an index fails only behind the end of the data, so the *)
(* invariant is kept.                                                      *)
LEMMA FailStep ==
    ASSUME IInv, FailIndexAssertion
    PROVE  IInv'
<1>1. /\ pc = "indices" /\ ~IsNextIndex /\ ~IsShort /\ ~SkippedAsserted(data, AtSkipped)
      /\ pc' = "abort" /\ at' = at
      /\ sent' = sent /\ data' = data /\ nHeaderBase' = nHeaderBase /\ index' = index
      /\ fieldIndices' = fieldIndices /\ entity' = entity /\ got' = got /\ table' = table
  BY DEF FailIndexAssertion, ReadingIndices
<1>2. Typed
  BY DEF IInv
<1>3. Reading /\ Left
  BY <1>1, <1>2 DEF Reading, Left, Typed, Written
<1>4. Typed'
  <2>1. Written'
    BY <1>1, <1>2 DEF Typed, Written, Reading
  <2>2. Numbered'
    BY <1>1, <1>2 DEF Typed, Numbered
  <2>3. Formed'
    BY <1>1, <1>2 DEF Typed, Formed
  <2> QED
    BY <2>1, <2>2, <2>3 DEF Typed
<1>5. IsSized(data, at, entity.way) /\ ~SkippedAsserted(data, Sizing(at, entity.way))
  BY <1>1 DEF IsNextIndex, IsShort, AtSkipped, IsOneBit, IsThreeBits, IsSized, Sizing
<1>6. ~(InPlace /\ at <= Len(data) /\ AllThere)
  BY <1>1, <1>2, <1>3, <1>5, ComingIs DEF ComingKnown
<1>7. Step
  <2>1. at \in Nat
    BY <1>2 DEF Typed, Written
  <2> QED
    BY <1>1, <1>4, <1>6, <2>1 DEF Step, Reading
<1> QED
  BY <1>1, <1>3, <1>7, StepKeeps

(* The end marker comes when all indices were read, and not before.        *)
LEMMA EndStep ==
    ASSUME IInv, EndIndices
    PROVE  IInv'
<1>0. PICK q : q = AtSkipped
  OBVIOUS
<1>1. /\ pc = "indices" /\ ~IsNextIndex /\ ~IsShort /\ EndMarker(ReadSkipped(data, q).v)
      /\ pc' = "values" /\ at' = ReadSkipped(data, q).at /\ index' = -1
      /\ sent' = sent /\ data' = data /\ nHeaderBase' = nHeaderBase
      /\ fieldIndices' = fieldIndices /\ entity' = entity /\ got' = got /\ table' = table
  BY <1>0 DEF EndIndices, ReadingIndices
<1>2. Typed
  BY DEF IInv
<1>3. Reading /\ Left
  BY <1>1, <1>2 DEF Reading, Left, Typed, Written
<1>4. Place
  BY <1>2, <1>3, PlaceKnown
<1>5. Coming = ReadSkipped(data, q)
  BY <1>0, <1>1 DEF Coming, IndexOf, IsNextIndex, IsShort, AtSkipped, IsOneBit, IsThreeBits, Sizing
<1>m. MaxSkipped = 4095
  BY DEF MaxSkipped
<1>6. Coming.v = MaxSkipped /\ at' = Coming.at
  BY <1>1, <1>5, <1>m DEF EndMarker
<1>7. /\ Coming.v \in Nat /\ Coming.at \in Nat /\ Coming.at >= at
      /\ InPlace /\ at <= Len(data) => DueKnown /\ (AllThere => Coming.at <= Len(data))
      /\ InPlace /\ at <= Len(data) /\ Coming.at <= Len(data) =>
            Coming.v = Due /\ Coming.at = at + Len(DueCode)
  BY <1>1, <1>2, <1>3, ComingIs DEF ComingKnown
<1>8. Typed'
  <2>1. Written'
    BY <1>1, <1>2, <1>3, <1>6, <1>7 DEF Typed, Written, Left
  <2>2. Numbered'
    <3>1. index' \in Nat \union {-1}
      BY <1>1
    <3> QED
      BY <1>1, <1>2, <3>1 DEF Typed, Numbered
  <2>3. Formed'
    BY <1>1, <1>2 DEF Typed, Formed
  <2> QED
    BY <2>1, <2>2, <2>3 DEF Typed
<1>9. ASSUME InPlace, at <= Len(data), at' <= Len(data) PROVE InPlace'
  <2>1. DueKnown /\ Due = MaxSkipped /\ at' = at + Len(DueCode)
    BY <1>6, <1>7, <1>9
  <2>2. /\ GotAsSent /\ nHeaderBase = Whose.id /\ Whose.kind # "leave" /\ TableHas(Whose.id)
        /\ entity = WithFields(Whose, <<>>) /\ Len(fieldIndices) <= Len(Whose.fields)
        /\ \A i \in 1 .. Len(fieldIndices) : fieldIndices[i] = Whose.fields[i].index
    BY <1>1, <1>9 DEF InPlace, Within, AtIndices
  <2>3. PICK j \in Nat, N \in Nat : j = Len(fieldIndices) /\ N = Len(Whose.fields)
    <3>1. Len(fieldIndices) \in Nat
      BY <1>2 DEF Typed, Numbered
    <3>2. Len(Whose.fields) \in Nat
      BY <1>4 DEF Place, EntityIsOne, IsRow
    <3> QED
      BY <3>1, <3>2
  <2>4. j = N
    <3>1. ~(Due < MaxSkipped)
      <4>1. PICK x \in Nat : x = MaxSkipped
        BY <1>m
      <4> QED
        BY <2>1, <4>1
    <3>2. ~(j < N)
      BY <2>1, <2>3, <3>1 DEF DueKnown
    <3> QED
      BY <2>2, <2>3, <3>2
  <2>5. at' = AfterIndices
    BY <2>1, <2>3, <2>4 DEF DueKnown
  <2>6. AfterIndices \in Nat
    BY <1>6, <1>7, <2>5
  <2>7. entity.fields = <<>> /\ Len(entity.fields) = 0
    <3>1. entity.fields = <<>>
      BY <2>2 DEF WithFields
    <3>2. Len(<<>>) = 0
      OBVIOUS
    <3> QED
      BY <3>1, <3>2
  <2>8. /\ Whose' = Whose /\ Base' = Base /\ AfterIndices' = AfterIndices
        /\ (GotAsSent' <=> GotAsSent)
    BY <1>1 DEF Whose, Base, AfterIndices, AfterWay, AfterEnter, AfterHead, Start, GotAsSent
  <2>9. TableHas(Whose.id)'
    BY <1>1, <2>2, <2>8 DEF TableHas
  <2>10. AtValues'
    <3>1. Flat(ValueParts(Whose), 0) = <<>> /\ Len(<<>>) = 0
      <4>1. Len(<<>>) = 0
        OBVIOUS
      <4> QED
        BY <4>1, FlatNothing
    <3>2. at' = AfterIndices + Len(Flat(ValueParts(Whose), 0))
      BY <2>5, <2>6, <3>1
    <3>3. 0 + Len(fieldIndices) = Len(Whose.fields)
      BY <2>3, <2>4
    <3>4. \A i \in 1 .. Len(fieldIndices) : fieldIndices[i] = Whose.fields[0 + i].index
      BY <2>2, <2>3
    <3>5. entity = WithFields(Whose, entity.fields)
      BY <2>2, <2>7
    <3>6. \A i \in 1 .. 0 : SameField(Whose.class, entity.fields[i], Whose.fields[i])
      OBVIOUS
    <3>7. PICK f, n : f = entity.fields /\ n = Len(f) /\ n = 0
      BY <2>7
    <3> QED
      BY <1>1, <2>8, <3>2, <3>3, <3>4, <3>5, <3>6, <3>7 DEF AtValues
  <2> QED
    BY <1>1, <2>2, <2>8, <2>9, <2>10 DEF InPlace, AtHeader, AtKind, Within, AtWay, AtIndices
<1>10. Step
  <2>1. at' >= at /\ pc' # "abort"
    BY <1>1, <1>6, <1>7
  <2> QED
    BY <1>6, <1>7, <1>8, <1>9, <2>1 DEF Step
<1> QED
  BY <1>1, <1>3, <1>10, StepKeeps

(* A field is its index and its value.                                     *)
LEMMA FieldIs == \A i, v : Field(i, v).index = i /\ Field(i, v).value = v
  BY DEF Field

(* The value that is read next is the one that was written, as far as the  *)
(* data goes.                                                              *)
DueValue(m) == PropCode(PropOf(Whose, m), Whose.fields[m].value)
ValueKnown(m) ==
    /\ Lies(data, Len(MessageCode(sent)), at, DueValue(m))
    /\ ReadsIf(~NotScaled(PropOf(Whose, m)), DecodeProp(data, at, PropOf(Whose, m)), data, at,
               DueValue(m), Whose.fields[m].value)
    /\ at + Len(DueValue(m)) = AfterIndices + Len(Flat(ValueParts(Whose), m))

(* The value that is due is read as written, by the codec lemmas.          *)
LEMMA ValueDue ==
    ASSUME Place, Whose.kind # "leave", at \in Nat, NEW N, N = Len(Whose.fields),
           NEW k \in 0 .. N, NEW m \in 1 .. N, m = k + 1,
           at = AfterIndices + Len(Flat(ValueParts(Whose), k))
    PROVE  ValueKnown(m)
<1>1. PICK p, base, M : p = Start /\ base = Base /\ M = Len(MessageCode(sent))
  OBVIOUS
<1>2. Follow(base, Whose) /\ EntityLies(data, M, p, base, Whose) /\ IsEntity(Whose)
  BY <1>1 DEF Place, Follow
<1>3. \A n \in 0 .. N : \A i \in 1 .. N : i = n + 1 =>
         /\ Lies(data, M, PValue(p, base, Whose, n), PropCode(PropOf(Whose, i), Whose.fields[i].value))
         /\ PValue(p, base, Whose, i)
               = PValue(p, base, Whose, n) + Len(PropCode(PropOf(Whose, i), Whose.fields[i].value))
  BY <1>2, FieldsParted
<1>4. \A n : PValue(p, base, Whose, n) = AfterIndices + Len(Flat(ValueParts(Whose), n))
  BY <1>1, PlacesAre DEF PValue
<1>5. /\ Lies(data, M, at, DueValue(m))
      /\ AfterIndices + Len(Flat(ValueParts(Whose), m)) = at + Len(DueValue(m))
  <2>1. at = PValue(p, base, Whose, k)
    BY <1>4
  <2>2. /\ Lies(data, M, at, DueValue(m))
        /\ PValue(p, base, Whose, m) = at + Len(DueValue(m))
    BY <1>3, <2>1 DEF DueValue
  <2> QED
    BY <1>4, <2>2
<1>6. IsProp(PropOf(Whose, m)) /\ PropHas(PropOf(Whose, m), Whose.fields[m].value)
  <2>1. FieldsAre(Whose)
    BY <1>2, FieldsFit
  <2> QED
    BY <2>1 DEF FieldsAre
<1>7. ReadsIf(~NotScaled(PropOf(Whose, m)), DecodeProp(data, at, PropOf(Whose, m)), data, at,
              DueValue(m), Whose.fields[m].value)
  <2>1. data \in Seq(BitValues) /\ Shows(data, at, PropCode(PropOf(Whose, m), Whose.fields[m].value))
    BY <1>5 DEF Lies, DueValue
  <2> QED
    BY <1>6, <2>1, PropRead DEF DueValue
<1> QED
  BY <1>1, <1>5, <1>7 DEF ValueKnown

(* The indices that are left after the first.                              *)
LEMMA TailIs ==
    ASSUME NEW s \in Seq(Nat), NEW j \in Nat, Len(s) = j + 1
    PROVE  /\ Tail(s) \in Seq(Nat) /\ Len(Tail(s)) = j
           /\ Head(s) = s[1] /\ s[1] \in Nat
           /\ \A i \in 1 .. j : i + 1 \in 1 .. j + 1 /\ Tail(s)[i] = s[i + 1]
<1>1. s # <<>>
  OBVIOUS
<1>2. Tail(s) \in Seq(Nat) /\ Len(Tail(s)) = j
  BY <1>1
<1>3. Head(s) = s[1] /\ s[1] \in Nat
  <2>1. 1 \in 1 .. Len(s)
    OBVIOUS
  <2> QED
    BY <1>1, <2>1
<1>4. ASSUME NEW i \in 1 .. j PROVE i + 1 \in 1 .. j + 1 /\ Tail(s)[i] = s[i + 1]
  BY <1>1, <1>2
<1> QED
  BY <1>2, <1>3, <1>4

(* One more value was read, and one is left fewer.                         *)
LEMMA Onwards ==
    ASSUME NEW j \in Nat, NEW k \in Nat, NEW m \in Nat, NEW N \in Nat, m = k + 1, k + (j + 1) = N
    PROVE  /\ m \in 1 .. N /\ k \in 0 .. N /\ m + j = N
           /\ \A i \in 1 .. j : k + (i + 1) = m + i
  OBVIOUS

(* Decoding a field by the prop of its index keeps the invariant: values   *)
(* are read in the order of the indices, each by the prop it was written   *)
(* by.                                                                     *)
LEMMA DecodeStep ==
    ASSUME IInv, DecodeField
    PROVE  IInv'
<1> DEFINE h == Head(fieldIndices)
           prop == flattenedProps[entity.class][h]
           decoded == DecodeProp(data, at, prop)
           field == Field(h, decoded.v)
<1>1. /\ pc = "values" /\ fieldIndices # <<>>
      /\ IF h \in DOMAIN flattenedProps[entity.class]
         THEN /\ entity' = [entity EXCEPT !.fields = Append(@, field)]
              /\ at' = decoded.at /\ fieldIndices' = Tail(fieldIndices) /\ pc' = pc
         ELSE pc' = "done" /\ at' = at /\ fieldIndices' = fieldIndices /\ entity' = entity
      /\ sent' = sent /\ data' = data /\ nHeaderBase' = nHeaderBase /\ index' = index
      /\ got' = got /\ table' = table
  BY DEF DecodeField
<1> HIDE DEF h, prop, decoded, field
<1>2. Typed
  BY DEF IInv
<1>3. Reading /\ Left
  BY <1>1, <1>2 DEF Reading, Left, Typed, Written
<1>4. Place
  BY <1>2, <1>3, PlaceKnown
<1>5. at \in Nat /\ data \in Seq(BitValues)
  BY <1>2 DEF Typed, Written
<1>6. fieldIndices \in Seq(Nat)
  BY <1>2 DEF Typed, Numbered
<1>7. PICK j \in Nat, r \in Seq(Nat) :
         /\ Len(fieldIndices) = j + 1 /\ r = Tail(fieldIndices) /\ Len(r) = j
         /\ h = fieldIndices[1] /\ h \in Nat
         /\ \A i \in 1 .. j : i + 1 \in 1 .. j + 1 /\ r[i] = fieldIndices[i + 1]
  <2>1. PICK n \in Nat : n = Len(fieldIndices) /\ n # 0
    BY <1>1, <1>6
  <2>2. PICK j \in Nat : n = j + 1
    <3>1. n - 1 \in Nat
      BY <2>1
    <3> QED
      BY <2>1, <3>1
  <2>3. Len(fieldIndices) = j + 1
    BY <2>1, <2>2
  <2> QED
    BY <1>6, <2>3, TailIs DEF h
<1>8. CASE h \notin DOMAIN flattenedProps[entity.class]
  <2>1. Typed'
    <3>1. Written'
      BY <1>1, <1>2, <1>8 DEF Typed, Written, Reading
    <3>2. Numbered'
      BY <1>1, <1>2, <1>8 DEF Typed, Numbered
    <3>3. Formed'
      BY <1>1, <1>2, <1>8 DEF Typed, Formed
    <3> QED
      BY <3>1, <3>2, <3>3 DEF Typed
  <2>2. Step
    <3>1. at' >= at /\ pc' = "done" /\ at' = at
      BY <1>1, <1>5, <1>8
    <3> QED
      BY <2>1, <3>1 DEF Step, Reading
  <2> QED
    BY <1>1, <1>3, <2>2, StepKeeps
<1>9. CASE h \in DOMAIN flattenedProps[entity.class]
  <2>1. /\ entity' = [entity EXCEPT !.fields = Append(@, field)]
        /\ at' = decoded.at /\ fieldIndices' = r /\ pc' = pc
    BY <1>1, <1>7, <1>9
  <2>2. PICK fs : /\ fs = Append(entity.fields, field) /\ IsRow(fs)
                  /\ Len(fs) = Len(entity.fields) + 1
                  /\ \A i \in 1 .. Len(entity.fields) : fs[i] = entity.fields[i]
                  /\ fs[Len(entity.fields) + 1] = field
    <3>1. IsRow(entity.fields)
      BY <1>2 DEF Typed, Formed
    <3> QED
      BY <3>1, RowContinued
  <2>3. entity' = WithFields(entity, fs)
    <3>1. entity = [id |-> entity.id, kind |-> entity.kind, delete |-> entity.delete,
                    class |-> entity.class, serial |-> entity.serial, way |-> entity.way,
                    fields |-> entity.fields]
      BY <1>2 DEF Typed, Formed
    <3>2. entity' = [id |-> entity.id, kind |-> entity.kind, delete |-> entity.delete,
                     class |-> entity.class, serial |-> entity.serial, way |-> entity.way,
                     fields |-> fs]
      BY <2>1, <2>2, <3>1
    <3> QED
      BY <3>2 DEF WithFields
  <2>4. /\ entity'.id = entity.id /\ entity'.kind = entity.kind
        /\ entity'.delete = entity.delete /\ entity'.class = entity.class
        /\ entity'.serial = entity.serial /\ entity'.way = entity.way
        /\ entity'.fields = fs
    BY <2>3 DEF WithFields
  <2>5. GoesOn(decoded, at)
    <3>1. entity.class \in Classes
      BY <1>2 DEF Typed, Formed
    <3>2. IsProp(prop)
      BY <1>9, <3>1, ClassesAssumption DEF prop
    <3> QED
      BY <1>5, <3>2, PropTyped DEF decoded
  <2>6. at' \in Nat /\ at' >= at
    BY <2>1, <2>5 DEF GoesOn
  <2>7. Typed'
    <3>1. Written'
      BY <1>1, <1>2, <1>3, <2>1, <2>6 DEF Typed, Written, Left
    <3>2. Numbered'
      <4>1. ASSUME NEW a \in 1 .. j, NEW b \in 1 .. j, a < b PROVE r[a] < r[b]
        <5>1. a + 1 \in 1 .. j + 1 /\ b + 1 \in 1 .. j + 1 /\ a + 1 < b + 1
          BY <4>1
        <5>2. fieldIndices[a + 1] < fieldIndices[b + 1]
          BY <1>2, <1>7, <5>1 DEF Typed, Numbered
        <5> QED
          BY <1>7, <5>2
      <4>2. pc' # "indices"
        BY <1>1, <2>1
      <4> QED
        BY <1>1, <1>2, <1>7, <2>1, <4>1, <4>2 DEF Typed, Numbered
    <3>3. Formed'
      <4>1. /\ entity.class \in Classes /\ entity.way \in BOOLEAN
            /\ \A i \in DOMAIN table : table[i] \in Classes
        BY <1>2 DEF Typed, Formed
      <4>2. pc' = "values"
        BY <1>1, <2>1
      <4>3. entity' = [id |-> entity'.id, kind |-> entity'.kind, delete |-> entity'.delete,
                       class |-> entity'.class, serial |-> entity'.serial, way |-> entity'.way,
                       fields |-> entity'.fields]
        BY <2>3, <2>4 DEF WithFields
      <4> QED
        BY <1>1, <2>2, <2>4, <4>1, <4>2, <4>3 DEF Formed
    <3> QED
      BY <3>1, <3>2, <3>3 DEF Typed
  <2>8. ASSUME InPlace, at <= Len(data)
        PROVE  /\ Reading' /\ at' <= Len(data) => InPlace'
               /\ AllThere => at' <= Len(data) /\ pc' # "abort"
    <3>1. /\ GotAsSent /\ nHeaderBase = Whose.id /\ Whose.kind # "leave" /\ TableHas(Whose.id)
          /\ entity = WithFields(Whose, entity.fields)
          /\ Len(entity.fields) + Len(fieldIndices) = Len(Whose.fields)
          /\ at = AfterIndices + Len(Flat(ValueParts(Whose), Len(entity.fields)))
          /\ \A i \in 1 .. Len(fieldIndices) :
                fieldIndices[i] = Whose.fields[Len(entity.fields) + i].index
          /\ \A i \in 1 .. Len(entity.fields) :
                SameField(Whose.class, entity.fields[i], Whose.fields[i])
      BY <1>1, <2>8 DEF InPlace, Within, AtValues
    <3>2. PICK k \in Nat, m \in Nat : k = Len(entity.fields) /\ m = k + 1
      <4>1. Len(entity.fields) \in Nat
        BY <1>2 DEF Typed, Formed, IsRow
      <4> QED
        BY <4>1
    <3>3. PICK N \in Nat : N = Len(Whose.fields) /\ k + (j + 1) = N
      <4>1. Len(Whose.fields) \in Nat
        BY <1>4 DEF Place, EntityIsOne, IsRow
      <4> QED
        BY <1>7, <3>1, <3>2, <4>1
    <3>a. m = k + 1 /\ k + (j + 1) = N
      BY <3>2, <3>3
    <3>4. /\ m \in 1 .. N /\ k \in 0 .. N /\ m + j = N
          /\ \A i \in 1 .. j : k + (i + 1) = m + i
      BY <3>a, Onwards
    <3>5. entity.class = Whose.class
      BY <3>1 DEF WithFields
    <3>6. h = Whose.fields[m].index
      <4>1. 1 \in 1 .. j + 1
        OBVIOUS
      <4> QED
        BY <1>7, <3>1, <3>2, <4>1
    <3>7. prop = PropOf(Whose, m)
      BY <3>5, <3>6 DEF prop, PropOf
    <3>8. ValueKnown(m)
      BY <1>4, <1>5, <3>1, <3>2, <3>3, <3>4, ValueDue
    <3>9. ReadTo(at', data, at, DueValue(m))
      BY <2>1, <3>7, <3>8 DEF ValueKnown, ReadsIf, decoded
    <3>10. /\ at' <= Len(data) => at + Len(DueValue(m)) <= Len(data) /\ at' = at + Len(DueValue(m))
           /\ AllThere => at' <= Len(data)
      BY <3>8, <3>9, Onward DEF AllThere, ValueKnown
    <3>11. ASSUME at' <= Len(data) PROVE InPlace'
      <4>1. ~NotScaled(PropOf(Whose, m)) => decoded.v = Whose.fields[m].value
        BY <3>7, <3>8, <3>10, <3>11 DEF ValueKnown, ReadsIf, decoded
      <4>2. SameField(Whose.class, field, Whose.fields[m])
        <5>1. field.index = h /\ field.value = decoded.v /\ field = Field(h, decoded.v)
          BY FieldIs DEF field
        <5>2. field = Field(Whose.fields[m].index, field.value)
          BY <3>6, <5>1
        <5>3. NotScaled(flattenedProps[Whose.class][Whose.fields[m].index])
              \/ field.value = Whose.fields[m].value
          BY <4>1, <5>1 DEF PropOf
        <5> QED
          BY <5>2, <5>3 DEF SameField
      <4>3. /\ Whose' = Whose /\ Base' = Base /\ AfterIndices' = AfterIndices
            /\ (GotAsSent' <=> GotAsSent)
        BY <1>1 DEF Whose, Base, AfterIndices, AfterWay, AfterEnter, AfterHead, Start, GotAsSent
      <4>4. TableHas(Whose.id)'
        BY <1>1, <3>1, <4>3 DEF TableHas
      <4>5. AtValues'
        <5>1. Len(fs) = m /\ Len(r) = j /\ m + j = N
          BY <1>7, <2>2, <3>2, <3>4
        <5>2. at' = AfterIndices + Len(Flat(ValueParts(Whose), m))
          BY <3>8, <3>10, <3>11 DEF ValueKnown
        <5>3. ASSUME NEW i \in 1 .. j PROVE r[i] = Whose.fields[m + i].index
          <6>1. i + 1 \in 1 .. j + 1 /\ r[i] = fieldIndices[i + 1]
            BY <1>7
          <6>2. fieldIndices[i + 1] = Whose.fields[k + (i + 1)].index
            BY <1>7, <3>1, <3>2, <6>1
          <6>3. k + (i + 1) = m + i
            BY <3>4
          <6> QED
            BY <6>1, <6>2, <6>3
        <5>4. ASSUME NEW i \in 1 .. m PROVE SameField(Whose.class, fs[i], Whose.fields[i])
          <6>1. CASE i = m
            BY <2>2, <3>2, <4>2, <6>1
          <6>2. CASE i # m
            <7>1. i \in 1 .. k
              BY <3>2, <6>2
            <7> QED
              BY <2>2, <3>1, <3>2, <7>1
          <6> QED
            BY <6>1, <6>2
        <5>5. entity' = WithFields(Whose, fs)
          BY <2>3, <3>1 DEF WithFields
        <5> QED
          BY <2>1, <2>4, <3>3, <4>3, <5>1, <5>2, <5>3, <5>4, <5>5 DEF AtValues
      <4> QED
        BY <1>1, <2>1, <3>1, <4>3, <4>4, <4>5 DEF InPlace, AtHeader, AtKind, Within, AtWay, AtIndices
    <3>12. pc' # "abort"
      BY <1>1, <2>1
    <3> QED
      BY <3>10, <3>11, <3>12
  <2>9. Step
    BY <2>6, <2>7, <2>8 DEF Step
  <2> QED
    BY <1>1, <1>3, <2>9, StepKeeps
<1> QED
  BY <1>8, <1>9

(* What of an entity is compared.                                          *)
ComparedField(class, f) ==
    IF IsNoScale(class, f) THEN [f EXCEPT !.value = Zeros(32)] ELSE f
ComparedFields(class, fields) == [i \in DOMAIN fields |-> ComparedField(class, fields[i])]

(* A field with another value.                                             *)
LEMMA FieldChanged ==
    ASSUME NEW i, NEW v, NEW w
    PROVE  [Field(i, v) EXCEPT !.value = w] = Field(i, w)
  BY DEF Field

(* Fields of the same index and the same value, or one that is not         *)
(* compared, compare as the same.                                          *)
LEMMA FieldCompared ==
    ASSUME NEW class, NEW f, NEW g, SameField(class, f, g), g = Field(g.index, g.value)
    PROVE  ComparedField(class, f) = ComparedField(class, g)
<1>1. PICK i, v, w, z : i = g.index /\ v = f.value /\ w = g.value /\ z = Zeros(32)
  OBVIOUS
<1>2. /\ f = Field(i, v) /\ g = Field(i, w)
      /\ NotScaled(flattenedProps[class][i]) \/ v = w
  BY <1>1 DEF SameField
<1>3. /\ IsNoScale(class, f) <=> NotScaled(flattenedProps[class][i])
      /\ IsNoScale(class, g) <=> NotScaled(flattenedProps[class][i])
  BY <1>2, FieldIs DEF IsNoScale
<1>4. CASE NotScaled(flattenedProps[class][i])
  <2>1. ComparedField(class, f) = [f EXCEPT !.value = z]
    BY <1>1, <1>3, <1>4 DEF ComparedField
  <2>2. ComparedField(class, g) = [g EXCEPT !.value = z]
    BY <1>1, <1>3, <1>4 DEF ComparedField
  <2>3. [f EXCEPT !.value = z] = Field(i, z) /\ [g EXCEPT !.value = z] = Field(i, z)
    BY <1>2, FieldChanged
  <2> QED
    BY <2>1, <2>2, <2>3
<1>5. CASE ~NotScaled(flattenedProps[class][i])
  BY <1>2, <1>3, <1>5 DEF ComparedField
<1> QED
  BY <1>4, <1>5

(* An entity with other fields.                                            *)
LEMMA RecordChanged ==
    ASSUME NEW i, NEW k, NEW x, NEW c, NEW s, NEW w, NEW f, NEW g
    PROVE  [[id |-> i, kind |-> k, delete |-> x, class |-> c, serial |-> s, way |-> w, fields |-> f]
               EXCEPT !.fields = g]
           = [id |-> i, kind |-> k, delete |-> x, class |-> c, serial |-> s, way |-> w, fields |-> g]
  OBVIOUS

(* What is compared of an entity is it with its compared fields.           *)
LEMMA ComparedIs ==
    ASSUME NEW e, NEW fields
    PROVE  Compared(WithFields(e, fields)) = WithFields(e, ComparedFields(e.class, fields))
<1>a. PICK r : r = WithFields(e, fields)
  OBVIOUS
<1>1. r = WithFields(e, fields) /\ r.class = e.class /\ r.fields = fields
  BY <1>a DEF WithFields
<1>2. PICK g : g = ComparedFields(e.class, fields)
  OBVIOUS
<1>3. g = [i \in DOMAIN fields |->
             IF IsNoScale(r.class, fields[i]) THEN [fields[i] EXCEPT !.value = Zeros(32)] ELSE fields[i]]
  BY <1>1, <1>2 DEF ComparedFields, ComparedField
<1>4. Compared(r) = [r EXCEPT !.fields = g]
  BY <1>1, <1>3 DEF Compared
<1>5. [r EXCEPT !.fields = g] = WithFields(e, g)
  BY <1>1, RecordChanged DEF WithFields
<1> QED
  BY <1>1, <1>2, <1>4, <1>5

(* So do rows of fields.                                                   *)
LEMMA RowsCompared ==
    ASSUME NEW class, NEW r, NEW s, IsRow(r), IsRow(s), Len(r) = Len(s),
           \A i \in 1 .. Len(s) : SameField(class, r[i], s[i]) /\ s[i] = Field(s[i].index, s[i].value)
    PROVE  ComparedFields(class, r) = ComparedFields(class, s)
<1>1. DOMAIN r = 1 .. Len(s) /\ DOMAIN s = 1 .. Len(s)
  BY DEF IsRow
<1>2. \A i \in 1 .. Len(s) : ComparedField(class, r[i]) = ComparedField(class, s[i])
  BY FieldCompared
<1> QED
  BY <1>1, <1>2 DEF ComparedFields

(* An entity whose fields were all read joins the ones that were, and      *)
(* compares as the one that was sent.                                      *)
LEMMA EndEntityStep ==
    ASSUME IInv, EndEntity
    PROVE  IInv'
<1>1. /\ pc = "values" /\ fieldIndices = <<>> /\ pc' = "header"
      /\ got' = Append(got, entity) /\ at' = at
      /\ sent' = sent /\ data' = data /\ nHeaderBase' = nHeaderBase /\ index' = index
      /\ fieldIndices' = fieldIndices /\ entity' = entity /\ table' = table
  BY DEF EndEntity
<1>2. Typed
  BY DEF IInv
<1>3. Reading /\ Left
  BY <1>1, <1>2 DEF Reading, Left, Typed, Written
<1>4. Place
  BY <1>2, <1>3, PlaceKnown
<1>5. /\ IsRow(got') /\ Len(got') = Len(got) + 1 /\ Len(got') <= Len(sent)
      /\ Base' = Whose.id /\ Start' = MStart(sent, Len(got) + 1)
      /\ GotAsSent /\ Compared(entity) = Compared(Whose) => GotAsSent'
  BY <1>1, <1>2, <1>3, GotOneMore
<1>6. Typed'
  <2>1. Written'
    BY <1>1, <1>2, <1>5 DEF Typed, Written
  <2>2. Numbered'
    BY <1>1, <1>2 DEF Typed, Numbered
  <2>3. Formed'
    BY <1>1, <1>2 DEF Typed, Formed
  <2> QED
    BY <2>1, <2>2, <2>3 DEF Typed
<1>7. ASSUME InPlace PROVE InPlace'
  <2>1. /\ GotAsSent /\ nHeaderBase = Whose.id /\ Whose.kind # "leave" /\ TableHas(Whose.id)
        /\ entity = WithFields(Whose, entity.fields)
        /\ Len(entity.fields) + Len(fieldIndices) = Len(Whose.fields)
        /\ at = AfterIndices + Len(Flat(ValueParts(Whose), Len(entity.fields)))
        /\ \A i \in 1 .. Len(entity.fields) :
              SameField(Whose.class, entity.fields[i], Whose.fields[i])
    BY <1>1, <1>7 DEF InPlace, Within, AtValues
  <2>2. Len(entity.fields) = Len(Whose.fields)
    <3>1. Len(fieldIndices) = 0 /\ Len(entity.fields) \in Nat
      BY <1>1, <1>2 DEF Typed, Formed, IsRow
    <3> QED
      BY <2>1, <3>1
  <2>3. Compared(entity) = Compared(Whose)
    <3>1. PICK r : r = entity.fields /\ IsRow(r)
      BY <1>2 DEF Typed, Formed
    <3>2. PICK s : s = Whose.fields /\ IsRow(s)
      BY <1>4 DEF Place, EntityIsOne
    <3>3. \A i \in 1 .. Len(s) : s[i] = Field(s[i].index, s[i].value)
      <4>1. FieldsAre(Whose)
        BY <1>4, <2>1, FieldsFit DEF Place, Follow
      <4> QED
        BY <3>2, <4>1 DEF FieldsAre
    <3>4. \A i \in 1 .. Len(s) : SameField(Whose.class, r[i], s[i])
      BY <2>1, <2>2, <3>1, <3>2
    <3>5. ComparedFields(Whose.class, r) = ComparedFields(Whose.class, s)
      BY <2>2, <3>1, <3>2, <3>3, <3>4, RowsCompared
    <3>6. entity = WithFields(Whose, r)
      BY <2>1, <3>1
    <3>7. Whose = WithFields(Whose, s)
      BY <1>4, <3>2 DEF Place, EntityIsOne, WithFields
    <3>8. Compared(WithFields(Whose, r)) = Compared(WithFields(Whose, s))
      BY <3>5, ComparedIs
    <3> QED
      BY <3>6, <3>7, <3>8
  <2>4. GotAsSent'
    BY <1>5, <2>1, <2>3
  <2>5. at = Start'
    <3>1. PICK p, base, M : p = Start /\ base = Base /\ M = Len(MessageCode(sent))
      OBVIOUS
    <3>2. Follow(base, Whose) /\ EntityLies(data, M, p, base, Whose)
      BY <1>4, <3>1 DEF Place
    <3>3. PValue(p, base, Whose, Len(Whose.fields)) = PEnd(p, base, Whose)
      BY <2>1, <3>2, FieldsParted
    <3>4. PValue(p, base, Whose, Len(Whose.fields)) = at
      BY <2>1, <2>2, <3>1, PlacesAre DEF PValue
    <3> QED
      BY <1>4, <1>5, <3>1, <3>3, <3>4 DEF Place
  <2>6. TableHas(Base)'
    BY <1>1, <1>5, <2>1 DEF TableHas
  <2> QED
    BY <1>1, <1>5, <2>1, <2>4, <2>5, <2>6
       DEF InPlace, AtHeader, AtKind, Within, AtWay, AtIndices, AtValues
<1>8. Step
  <2>1. at \in Nat
    BY <1>2 DEF Typed, Written
  <2> QED
    BY <1>1, <1>6, <1>7, <2>1 DEF Step
<1> QED
  BY <1>1, <1>3, <1>8, StepKeeps

(* When no entity is left the message was read.                            *)
LEMMA FinishedStep ==
    ASSUME IInv, Finished
    PROVE  IInv'
<1>1. /\ pc = "header" /\ pc' = "done" /\ at' = at
      /\ sent' = sent /\ data' = data /\ nHeaderBase' = nHeaderBase /\ index' = index
      /\ fieldIndices' = fieldIndices /\ entity' = entity /\ got' = got /\ table' = table
  BY DEF Finished
<1>2. Typed
  BY DEF IInv
<1>3. Typed'
  <2>1. Written'
    BY <1>1, <1>2 DEF Typed, Written, Reading
  <2>2. Numbered'
    BY <1>1, <1>2 DEF Typed, Numbered
  <2>3. Formed'
    BY <1>1, <1>2 DEF Typed, Formed
  <2> QED
    BY <2>1, <2>2, <2>3 DEF Typed
<1>4. Step
  <2>1. at \in Nat
    BY <1>2 DEF Typed, Written
  <2> QED
    BY <1>1, <1>3, <2>1 DEF Step, Reading
<1>5. Reading
  BY <1>1 DEF Reading
<1> QED
  BY <1>1, <1>4, <1>5, StepKeeps

(* A step in which nothing changes keeps the invariant.                    *)
LEMMA NothingChanges ==
    ASSUME IInv, UNCHANGED vars
    PROVE  IInv'
<1>1. /\ at' = at /\ pc' = pc
      /\ sent' = sent /\ data' = data /\ nHeaderBase' = nHeaderBase /\ index' = index
      /\ fieldIndices' = fieldIndices /\ entity' = entity /\ got' = got /\ table' = table
  BY DEF vars
<1>2. Typed' <=> Typed
  BY <1>1 DEF Typed, Written, Numbered, Formed, Reading
<1>3. /\ Whose' = Whose /\ Base' = Base /\ Start' = Start /\ AfterHead' = AfterHead
      /\ AfterEnter' = AfterEnter /\ AfterWay' = AfterWay /\ AfterIndices' = AfterIndices
  BY <1>1 DEF Whose, Base, AfterIndices, AfterWay, AfterEnter, AfterHead, Start
<1>4. /\ GotAsSent' <=> GotAsSent
      /\ \A base : TableHas(base)' <=> TableHas(base)
  BY <1>1 DEF GotAsSent, TableHas
<1>5. InPlace' <=> InPlace
  BY <1>1, <1>3, <1>4 DEF InPlace, AtHeader, AtKind, Within, AtWay, AtIndices, AtValues, TableHas
<1>6. AllThere' <=> AllThere
  BY <1>1 DEF AllThere
<1> QED
  BY <1>1, <1>2, <1>5, <1>6 DEF IInv, Reading

(***************************************************************************)
(* The beginning, and what follows from the invariant.                     *)
(***************************************************************************)

(* Filling the last byte with zeros keeps the bits.                        *)
LEMMA BytesAre ==
    ASSUME NEW code \in Seq(BitValues)
    PROVE  /\ Bytes(code) \in Seq(BitValues)
           /\ \A i \in 1 .. Len(code) : i \in 1 .. Len(Bytes(code)) /\ Bytes(code)[i] = code[i]
<1>1. PICK l \in Nat, w \in Nat : l = Len(code) /\ w = 8 * ((l + 7) \div 8) /\ l <= w
  <2>1. Len(code) \in Nat
    OBVIOUS
  <2>2. PICK l \in Nat : l = Len(code)
    BY <2>1
  <2>3. (l + 7) \div 8 \in Nat /\ l <= 8 * ((l + 7) \div 8)
    OBVIOUS
  <2> QED
    BY <2>2, <2>3
<1>2. PICK whole \in Seq(BitValues) : /\ whole = Bytes(code)
                                      /\ \A i \in 1 .. l : i \in 1 .. Len(whole) /\ whole[i] = code[i]
  <2>1. Bytes(code) = Extend(code, w, 0)
    BY <1>1 DEF Bytes
  <2>2. CASE w <= l
    <3>1. w = l
      BY <1>1, <2>2
    <3>2. Bytes(code) = SubSeq(code, 1, l)
      BY <1>1, <2>1, <3>1 DEF Extend
    <3>3. SubSeq(code, 1, l) = code
      BY <1>1
    <3> QED
      BY <1>1, <3>2, <3>3
  <2>3. CASE ~(w <= l)
    <3>1. PICK m \in Nat : m = w - l
      <4>1. w - l \in Nat
        BY <2>3
      <4> QED
        BY <4>1
    <3>2. PICK z \in BitValues : z = 0
      BY DEF BitValues
    <3>3. PICK pad \in Seq(BitValues) : pad = [k \in 1 .. m |-> z]
      <4>1. [k \in 1 .. m |-> z] \in Seq(BitValues)
        OBVIOUS
      <4> QED
        BY <4>1
    <3>4. Bytes(code) = code \o pad
      BY <1>1, <2>1, <2>3, <3>1, <3>2, <3>3 DEF Extend
    <3>5. /\ code \o pad \in Seq(BitValues)
          /\ \A i \in 1 .. l : i \in 1 .. Len(code \o pad) /\ (code \o pad)[i] = code[i]
      BY <1>1
    <3> QED
      BY <3>4, <3>5
  <2> QED
    BY <2>2, <2>3
<1> QED
  BY <1>1, <1>2

(* Data that were cut show the code as far as they go.                     *)
LEMMA BytesShow ==
    ASSUME NEW code \in Seq(BitValues), NEW n \in Nat, n <= Len(Bytes(code))
    PROVE  SubSeq(Bytes(code), 1, n) \in Seq(BitValues) /\ Shows(SubSeq(Bytes(code), 1, n), 0, code)
<1>1. PICK l \in Nat : l = Len(code)
  OBVIOUS
<1>2. PICK whole \in Seq(BitValues) : /\ whole = Bytes(code)
                                      /\ \A i \in 1 .. l : i \in 1 .. Len(whole) /\ whole[i] = code[i]
  BY <1>1, BytesAre
<1>3. PICK d : d = SubSeq(whole, 1, n)
  OBVIOUS
<1>4. n <= Len(whole)
  BY <1>2
<1>5. d \in Seq(BitValues) /\ Len(d) = n /\ \A i \in 1 .. n : d[i] = whole[i]
  <2>1. \A i \in 1 .. n : i \in 1 .. Len(whole)
    BY <1>4
  <2> QED
    BY <1>3, <1>4, <2>1
<1>6. ASSUME NEW k \in 1 .. Len(code), 0 + k <= Len(d) PROVE d[0 + k] = code[k]
  <2>1. k \in 1 .. n /\ 0 + k = k /\ k \in 1 .. l
    BY <1>1, <1>5, <1>6
  <2> QED
    BY <1>2, <1>5, <2>1
<1> QED
  BY <1>2, <1>3, <1>5, <1>6 DEF Shows

(* The invariant holds of every message, whole or cut off anywhere.        *)
LEMMA InitHolds == Init => IInv
<1> SUFFICES ASSUME Init PROVE IInv
  OBVIOUS
<1>1. /\ sent \in Messages /\ at = 0 /\ pc = "header" /\ nHeaderBase = -1
      /\ index = -1 /\ fieldIndices = <<>> /\ entity = NoEntity /\ got = <<>> /\ table = Present
  BY DEF Init
<1>2. PICK code : code = MessageCode(sent)
  OBVIOUS
<1>3. /\ code \in Seq(BitValues) /\ Len(sent) \in Nat /\ Flat(EntityParts(sent), 0) = <<>>
  <2>1. PICK N \in Nat : N = Len(sent) /\ MessageIs(sent, N)
    BY <1>1, IsTheMessage DEF MessageIs
  <2>2. N \in 0 .. N /\ Parts(EntityParts(sent), N, BitValues) /\ code = Flat(EntityParts(sent), N)
    BY <1>2, <2>1 DEF MessageIs
  <2>3. code \in Seq(BitValues)
    BY <2>2, FlatTyped
  <2> QED
    BY <2>1, <2>3, FlatNothing
<1>4. data \in Seq(BitValues) /\ Shows(data, 0, code)
  <2>1. PICK cut \in Cuts : LET whole == Bytes(MessageCode(sent))
                            IN  8 * cut < Len(whole) /\ data = SubSeq(whole, 1, Len(whole) - 8 * cut)
    BY DEF Init
  <2>2. cut \in Nat
    BY CutsAssumption
  <2>3. PICK l : l = Len(Bytes(code))
    OBVIOUS
  <2>4. 8 * cut < l /\ data = SubSeq(Bytes(code), 1, l - 8 * cut)
    BY <1>2, <2>1, <2>3
  <2>5. l \in Nat
    <3>1. PICK whole \in Seq(BitValues) : whole = Bytes(code)
      BY <1>3, BytesAre
    <3> QED
      BY <2>3, <3>1
  <2>6. PICK n \in Nat : n = l - 8 * cut /\ n <= l
    <3>1. l - 8 * cut \in Nat /\ l - 8 * cut <= l
      BY <2>2, <2>4, <2>5
    <3> QED
      BY <3>1
  <2> QED
    BY <1>3, <2>3, <2>4, <2>6, BytesShow
<1>5. Len(got) = 0 /\ Len(fieldIndices) = 0 /\ IsRow(got) /\ <<>> \in Seq(Nat)
  <2>1. Len(<<>>) = 0 /\ <<>> \in Seq(Nat)
    OBVIOUS
  <2> QED
    BY <1>1, <2>1, NoRow
<1>6. Written
  BY <1>1, <1>2, <1>3, <1>4, <1>5 DEF Written
<1>7. Numbered
  BY <1>1, <1>5 DEF Numbered
<1>8. Formed
  <2>1. /\ 0 \in Classes /\ \A i \in DOMAIN Present : Present[i] \in Classes
    BY ClassesAssumption
  <2> QED
    BY <1>1, <2>1, NoRow DEF Formed, NoEntity
<1>9. InPlace
  <2>1. Start = 0 /\ Base = -1
    <3>1. Len(<<>>) = 0
      OBVIOUS
    <3> QED
      BY <1>3, <1>5, <3>1 DEF Start, Base
  <2>2. TableHas(Base)
    BY <1>1 DEF TableHas
  <2> QED
    BY <1>1, <1>5, <2>1, <2>2
       DEF InPlace, GotAsSent, AtHeader, AtKind, Within, AtWay, AtIndices, AtValues
<1>10. at <= Len(data) /\ pc # "abort"
  <2>1. Len(data) \in Nat
    BY <1>4
  <2> QED
    BY <1>1, <2>1
<1> QED
  BY <1>6, <1>7, <1>8, <1>9, <1>10 DEF IInv, Typed

(* Every step keeps it.                                                    *)
LEMMA StepHolds == IInv /\ [Next]_vars => IInv'
<1> SUFFICES ASSUME IInv, [Next]_vars PROVE IInv'
  OBVIOUS
<1>1. CASE ReadHeader
  BY <1>1, HeaderStep
<1>2. CASE EnterPVS
  BY <1>2, EnterStep
<1>3. CASE LeavePVS
  BY <1>3, LeaveStep
<1>4. CASE DeltaEnt
  BY <1>4, DeltaStep
<1>5. CASE ReadWay
  BY <1>5, WayStep
<1>6. CASE ReadNextIndex \/ ReadShortIndex \/ ReadLongIndex
  BY <1>6, IndexSteps
<1>7. CASE FailIndexAssertion
  BY <1>7, FailStep
<1>8. CASE EndIndices
  BY <1>8, EndStep
<1>9. CASE DecodeField
  BY <1>9, DecodeStep
<1>10. CASE EndEntity
  BY <1>10, EndEntityStep
<1>11. CASE Finished
  BY <1>11, FinishedStep
<1>12. CASE KeepReadingIndices \/ Ended \/ UNCHANGED vars
  BY <1>12, NothingChanges DEF KeepReadingIndices, Ended
<1> QED
  BY <1>1, <1>2, <1>3, <1>4, <1>5, <1>6, <1>7, <1>8, <1>9, <1>10, <1>11, <1>12 DEF Next

(* In every state the reader is where the parts of the message lie, as     *)
(* long as its position is within the data, and what it has read is what   *)
(* was sent. This is the inductive invariant of the reading of             *)
(* svc_PacketEntities, for every message, every place where the data are   *)
(* cut off, and all classes and props.                                     *)
THEOREM Invariant == Spec => []IInv
  BY InitHolds, StepHolds, PTL DEF Spec

(* The invariant implies that the variables are typed,                     *)
LEMMA TypesFollow == IInv => TypeOK
<1> SUFFICES ASSUME IInv PROVE TypeOK
  OBVIOUS
<1>1. Written /\ Numbered /\ Formed
  BY DEF IInv, Typed
<1>2. DOMAIN fieldIndices = 1 .. Len(fieldIndices)
  BY <1>1 DEF Numbered
<1> QED
  BY <1>1, <1>2 DEF TypeOK, Written, Numbered, Formed

(* that the entities that were read within the data are those that were    *)
(* sent,                                                                   *)
LEMMA ReadAsSentFollows == IInv => ReadAsSent
<1> SUFFICES ASSUME IInv, pc = "header", at <= Len(data), NEW i \in DOMAIN got
             PROVE  Compared(got[i]) = Compared(sent[i])
  BY DEF ReadAsSent
<1>1. GotAsSent /\ IsRow(got)
  BY DEF IInv, InPlace, Reading, Typed, Written
<1>2. i \in 1 .. Len(got)
  BY <1>1 DEF IsRow
<1> QED
  BY <1>1, <1>2 DEF GotAsSent

(* that the reader is in step with the message,                            *)
LEMMA InStepFollows == IInv => InStep
<1> SUFFICES ASSUME IInv, pc = "header", at <= Len(data)
             PROVE  at = Len(MessageCode(AsSent(Len(got))))
  BY DEF InStep
<1>1. at = Start /\ IsRow(got) /\ sent \in Messages /\ Len(got) <= Len(sent)
  BY DEF IInv, InPlace, AtHeader, Reading, Typed, Written
<1>2. PICK N \in Nat : N = Len(sent) /\ MessageIs(sent, N)
  BY <1>1, IsTheMessage DEF MessageIs
<1>3. PICK k \in Nat : k = Len(got) /\ k \in 0 .. N
  <2>1. Len(got) \in Nat
    BY <1>1 DEF IsRow
  <2> QED
    BY <1>1, <1>2, <2>1
<1>4. MessageCode(SubSeq(sent, 1, k)) = Flat(EntityParts(sent), k)
  BY <1>2, <1>3 DEF MessageIs
<1> QED
  BY <1>1, <1>3, <1>4 DEF Start, AsSent

(* that no assertion fails on data that were not cut off,                  *)
LEMMA AssertionsFollow == IInv => AssertionsHold
  BY DEF IInv, AssertionsHold

(* and, of a step, that the end marker is read within the data.            *)
LEMMA EndIsReadFollows ==
    ASSUME IInv, [Next]_vars
    PROVE  [pc = "indices" /\ pc' = "values" => at' <= Len(data)]_vars
<1> SUFFICES ASSUME pc = "indices", pc' = "values" PROVE at' <= Len(data)
  OBVIOUS
<1>1. EndIndices
  BY DEF Next, ReadHeader, EnterPVS, LeavePVS, DeltaEnt, ReadWay, ReadNextIndex, ReadShortIndex,
         ReadLongIndex, FailIndexAssertion, KeepReadingIndices, DecodeField, EndEntity, Finished,
         Ended, PushIndex, ReadingIndices, vars
<1>2. at \in Nat /\ data \in Seq(BitValues) /\ entity.way \in BOOLEAN
  BY DEF IInv, Typed, Written, Formed
<1>3. PICK q \in Nat : q = AtSkipped
  <2>1. Sizing(at, entity.way) \in Nat
    BY <1>2, SizingTyped
  <2> QED
    BY <2>1 DEF AtSkipped, Sizing
<1>4. at' = ReadSkipped(data, q).at /\ EndMarker(ReadSkipped(data, q).v)
  BY <1>1, <1>3 DEF EndIndices
<1>5. ASSUME ReadSkipped(data, q).at > Len(data) PROVE FALSE
  <2>1. ReadSkipped(data, q).v <= 31
    BY <1>2, <1>3, <1>5, SkippedBehind
  <2>2. ReadSkipped(data, q).v = 4095
    BY <1>4 DEF EndMarker
  <2> QED
    BY <2>1, <2>2
<1>6. ReadSkipped(data, q).at \in Nat
  BY <1>2, <1>3, SkippedTyped
<1>7. PICK x \in Nat, l \in Nat : x = ReadSkipped(data, q).at /\ l = Len(data)
  <2>1. Len(data) \in Nat
    BY <1>2
  <2> QED
    BY <1>6, <2>1
<1>8. ~(x > l)
  BY <1>5, <1>7
<1>9. x <= l
  BY <1>8
<1> QED
  BY <1>4, <1>7, <1>9

(* The state of the reader is typed, whatever it reads behind the end of   *)
(* the data.                                                               *)
THEOREM TypeCorrect == Spec => []TypeOK
  BY Invariant, TypesFollow, PTL

(* The entities that ReadNewEntity and Decode_Prop have made of a message  *)
(* are those that were sent, field by field and value by value, for every  *)
(* message, class, coding and width.                                       *)
THEOREM ReadAsSentHolds == Spec => []ReadAsSent
  BY Invariant, ReadAsSentFollows, PTL

(* The reader never loses its place: while its position is within the      *)
(* data, it is at the beginning of the part that it reads next.            *)
THEOREM InStepHolds == Spec => []InStep
  BY Invariant, InStepFollows, PTL

(* The assertions of svc_PacketEntities, ReadNewEntity and ReadFieldIndex  *)
(* do not fail on a message that was not cut off.                          *)
THEOREM AssertionsAlwaysHold == Spec => []AssertionsHold
  BY Invariant, AssertionsFollow, PTL

(* Fields are decoded only after the end marker was read within the data.  *)
THEOREM EndAlwaysRead == Spec => EndIsRead
  BY Invariant, EndIsReadFollows, PTL DEF Spec, EndIsRead
===============================================================================
