---------------------------- MODULE MCEntityData ----------------------------
(***************************************************************************)
(* EntityData with a prop of each type and coding and values around what   *)
(* the codes can hold, with field indices and entity numbers around the    *)
(* limits of theirs, and with data that is up to three bytes too short.    *)
(***************************************************************************)
EXTENDS EntityData

Prop(type, coding, unsigned, num_bits) ==
    [type |-> type, coding |-> coding, unsigned |-> unsigned, num_bits |-> num_bits]
Plain(type, unsigned, num_bits) == Prop(type, "plain", unsigned, num_bits)
VarInt(type, unsigned) == Prop(type, "varint", unsigned, 0)
Coded(type, coding, num_bits) == Prop(type, coding, FALSE, num_bits)
ArrayOf(max, element) == [type |-> "Array", num_elements |-> max, element |-> element]

Number(i, n) == IF i < 0 THEN Negated(ToBits(-i, n)) ELSE ToBits(i, n)
Numbers(is, n) == {Number(i, n) : i \in is}
Bit(k, n) == [Zeros(n) EXCEPT ![k] = 1]
Ones(n) == Complement(Zeros(n))

Sample(prop, values) == [prop |-> prop, values |-> values]
OfOne == Number(1065353216, 32)
Letters(n) == [i \in 1 .. n |-> 65]

Samples == <<
    Sample(VarInt("Int", TRUE),
        Numbers({0, 127, 128, 16383, 16384, 2097151, 2097152, 268435455, 268435456}, 32)
            \union {Bit(32, 32), Ones(32)}),
    Sample(VarInt("Int", FALSE),
        Numbers({0, 1, -1, 63, 64, -64, -65, 2147483647}, 32) \union {Bit(32, 32)}),
    Sample(Plain("Int", TRUE, 7), Numbers({0, 1, 127}, 32)),
    Sample(Plain("Int", TRUE, 32), {Zeros(32), Bit(32, 32), Ones(32)}),
    Sample(Plain("Int", FALSE, 12), Numbers({0, -1, 2047, -2048}, 32)),
    Sample(VarInt("Int64", TRUE),
        Numbers({0, 128, 268435456}, 64) \union {Bit(36, 64), Bit(63, 64), Bit(64, 64), Ones(64)}),
    Sample(VarInt("Int64", FALSE), Numbers({0, -1, 64}, 64) \union {Bit(33, 64), Bit(64, 64)}),
    Sample(Plain("Int64", TRUE, 64), {Zeros(64), Bit(33, 64), Ones(64)}),
    Sample(Plain("Int64", FALSE, 40),
        Numbers({0, 5, -5, -1}, 64) \union {Bit(39, 64), Negated(Bit(33, 64))}),
    Sample(Coded("Float", "coord", 0),
        {0, 1, -1, 31, 32, -32, 33, 64, -524288, 524288 + 31}),
    Sample(Coded("Float", "coord_mp", 0), {0, 1, -31, 32, 65535, -65536, 524288 + 31}),
    Sample(Coded("Float", "coord_mp_lowprecision", 0), {0, 7, -8, 16383, 16384, -131072}),
    Sample(Coded("Float", "coord_mp_integral", 0), {0, 1, -1, 2047, 2048, -16384}),
    Sample(Coded("Float", "cell_coord", 9), {0, 31, 32, 16383}),
    Sample(Coded("Float", "cell_coord_lowprecision", 9), {0, 7, 8, 4095}),
    Sample(Coded("Float", "cell_coord_integral", 9), {0, 1, 511}),
    Sample(Coded("Float", "scaled", 5), {0, 31}),
    Sample(Coded("Float", "noscale", 0), {Zeros(32), OfOne}),
    Sample(Coded("Vector", "coord", 0), {<<0, 33, -1>>, <<32, 0, 0>>}),
    Sample(Coded("Vector", "normal", 0), {<<0, 0, 0>>, <<2047, -1, 1>>}),
    Sample(Coded("VectorXY", "coord_mp_integral", 0), {<<0, 5>>, <<-1, 0>>}),
    Sample(Plain("String", FALSE, 0), {<<>>, <<255, 1>>, Letters(256)}),
    Sample(ArrayOf(3, Plain("Int", TRUE, 7)),
        {<<>>, <<Number(5, 32)>>, <<Number(5, 32), Zeros(32), Number(127, 32)>>}),
    Sample(ArrayOf(4, Plain("String", FALSE, 0)), {<<>>, <<Letters(1), <<>>, Letters(2), <<>>>>}),
    Sample(ArrayOf(2, Coded("Vector", "normal", 0)), {<<<<0, -5, 1>>, <<7, 0, 0>>>>})>>

(* Class 0 has the samples, class 1 as many bits as indices may skip.      *)
LastSkip == 4094
MCflattenedProps ==
    0 :> [i \in 0 .. Len(Samples) - 1 |-> Samples[i + 1].prop]
        @@ 1 :> [i \in 0 .. LastSkip |-> Plain("Int", TRUE, 1)]
-----------------------------------------------------------------------------
Entity(id, kind) == [NoEntity EXCEPT !.id = id, !.kind = kind]
Enter(id, class, way, fields) ==
    [Entity(id, "enter") EXCEPT !.class = class, !.serial = 1023, !.way = way, !.fields = fields]
Delta(id, class, way, fields) ==
    [Entity(id, "delta") EXCEPT !.class = class, !.way = way, !.fields = fields]
Leave(id, delete) == [Entity(id, "leave") EXCEPT !.delete = delete]

Limits == {0, 1, 7, 8, 31, 32, 127, 128, 511, 512, LastSkip}
Ids == {0, 15, 16, 255, 256, 4095, 4096, ENTITY_SENTINEL}
MCPresent == [id \in Ids |-> 1]
One == Number(1, 32)

OfValues ==
    UNION {{<<Enter(2, 0, TRUE, <<Field(k - 1, v)>>), Leave(5, TRUE)>> : v \in Samples[k].values} :
        k \in DOMAIN Samples}
OfIndices ==
    {<<Delta(0, 1, way, <<Field(i, One), Field(j, One)>>), Delta(15, 1, way, <<Field(i, One)>>)>> :
        way \in BOOLEAN, <<i, j>> \in {p \in Limits \X Limits : p[1] < p[2]}}
OfIds ==
    UNION {{<<first, second>> :
            first \in {Leave(p[1], FALSE), Delta(p[1], 1, FALSE, <<>>)},
            second \in {Leave(p[2], TRUE), Enter(p[2], 1, FALSE, <<Field(3, One)>>)}} :
        p \in {q \in Ids \X Ids : q[1] < q[2]}}

MCMessages == OfValues \union OfIndices \union OfIds
OfNoScale == {<<Enter(2, 0, TRUE, <<Field(17, v)>>)>> : v \in {Zeros(32), OfOne}}
=============================================================================
