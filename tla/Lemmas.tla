------------------------------- MODULE Lemmas -------------------------------
(***************************************************************************)
(* Facts that the proofs of several components rest on: about numbers and  *)
(* FlattenSeq, whose inductions are over a set of numbers and not over a   *)
(* formula (they follow from counting); and about the codings of Encoding  *)
(* and the decoders of Codec, that a decoder reads what was written, and   *)
(* to its end, for every coding, width and value, as far as the data go.   *)
(***************************************************************************)
EXTENDS Encoding, FiniteSetTheorems, TLAPS

(* A set that has 0, and with a number the next, has every number: else    *)
(* k + 1 would map its numbers below the one it lacks into themselves, one *)
(* to one, and leave out 0.                                                *)
THEOREM NatSet ==
    ASSUME NEW S, 0 \in S, \A n \in Nat : n \in S => n + 1 \in S
    PROVE  \A n \in Nat : n \in S
<1> SUFFICES ASSUME NEW n \in Nat, n \notin S PROVE FALSE
  OBVIOUS
<1> DEFINE T == {k \in 0 .. n : k \in S}
           f == [k \in T |-> k + 1]
<1>1. IsFiniteSet(0 .. n)
  BY FS_Interval
<1>2. IsFiniteSet(T)
  BY <1>1, FS_Subset
<1>3. 0 \in T
  OBVIOUS
<1>4. IsFiniteSet(T \ {0}) /\ Cardinality(T \ {0}) = Cardinality(T) - 1
  BY <1>2, <1>3, FS_RemoveElement
<1>5. \A k \in T : k + 1 \in T \ {0}
  OBVIOUS
<1>6. f \in Injection(T, T \ {0})
  BY <1>5 DEF Injection, IsInjective
<1>7. Cardinality(T) <= Cardinality(T \ {0})
  BY <1>4, <1>6, FS_Injection
<1>8. Cardinality(T) \in Nat
  BY <1>2, FS_CardinalityType
<1> QED
  BY <1>4, <1>7, <1>8

(* An element of a sequence is one of its type.                            *)
LEMMA SeqMember ==
    ASSUME NEW T, NEW s \in Seq(T), NEW k \in 1 .. Len(s)
    PROVE  s[k] \in T
  OBVIOUS

(* A joined sequence has the elements of both.                             *)
LEMMA Joined ==
    ASSUME NEW T, NEW s \in Seq(T), NEW t \in Seq(T)
    PROVE  /\ s \o t \in Seq(T)
           /\ Len(s \o t) = Len(s) + Len(t)
           /\ \A k \in 1 .. Len(s) : (s \o t)[k] = s[k]
           /\ \A k \in 1 .. Len(t) : (s \o t)[Len(s) + k] = t[k]
<1>1. s \o t \in Seq(T)
  OBVIOUS
<1>2. Len(s \o t) = Len(s) + Len(t)
  OBVIOUS
<1>3. \A k \in 1 .. Len(s) : (s \o t)[k] = s[k]
  OBVIOUS
<1>4. \A k \in 1 .. Len(t) : (s \o t)[Len(s) + k] = t[k]
  OBVIOUS
<1> QED
  BY <1>1, <1>2, <1>3, <1>4

(* Appending is joining a sequence of one.                                 *)
LEMMA AppendIsJoin ==
    ASSUME NEW T, NEW s \in Seq(T), NEW e
    PROVE  Append(s, e) = s \o <<e>>
  OBVIOUS

(* Sequences of one length and with the same elements are the same.        *)
LEMMA SameElements ==
    ASSUME NEW T, NEW s \in Seq(T), NEW t \in Seq(T),
           Len(s) = Len(t), \A k \in 1 .. Len(s) : s[k] = t[k]
    PROVE  s = t
<1>1. s = [k \in 1 .. Len(s) |-> s[k]] /\ t = [k \in 1 .. Len(t) |-> t[k]]
  OBVIOUS
<1> QED
  BY <1>1, Zenon

(* Three sequences are joined in either order.                             *)
LEMMA JoinAssociates ==
    ASSUME NEW T, NEW q \in Seq(T), NEW s \in Seq(T), NEW t \in Seq(T)
    PROVE  (q \o s) \o t = q \o (s \o t)
<1>1. Len(q) \in Nat /\ Len(s) \in Nat /\ Len(t) \in Nat
  OBVIOUS
<1> DEFINE l == (q \o s) \o t
           r == q \o (s \o t)
<1>2. l \in Seq(T) /\ r \in Seq(T) /\ Len(l) = Len(r)
  BY <1>1
<1>3. \A k \in 1 .. Len(l) : l[k] = r[k]
  BY <1>1
<1> HIDE DEF l, r
<1>4. l = r
  BY <1>2, <1>3, SameElements
<1> QED
  BY <1>4 DEF l, r

(* The part of t that lies behind p and equals s.                          *)
LEMMA CutOut ==
    ASSUME NEW T, NEW s \in Seq(T), NEW t \in Seq(T), NEW p \in Nat,
           p + Len(s) <= Len(t), \A k \in 1 .. Len(s) : t[p + k] = s[k]
    PROVE  SubSeq(t, p + 1, p + Len(s)) = s
<1> DEFINE u == SubSeq(t, p + 1, p + Len(s))
<1>1. Len(s) \in Nat /\ Len(t) \in Nat
  OBVIOUS
<1>2. u \in Seq(T) /\ Len(u) = Len(s)
  BY <1>1
<1>3. \A k \in 1 .. Len(s) : u[k] = s[k]
  <2> TAKE k \in 1 .. Len(s)
  <2>1. u[k] = t[p + 1 + k - 1]
    BY <1>1
  <2>2. p + 1 + k - 1 = p + k
    BY <1>1
  <2> QED
    BY <2>1, <2>2
<1> HIDE DEF u
<1>4. u = s
  BY <1>2, <1>3, SameElements
<1> QED
  BY <1>4 DEF u

(* How far a sequence of L goes before the first of the set bad.           *)
LEMMA FirstIn ==
    ASSUME NEW L \in Nat, NEW bad
    PROVE  \E n \in 0 .. L : (\A i \in 1 .. n : i \notin bad) /\ (n = L \/ n + 1 \in bad)
<1> SUFFICES ASSUME \A n \in 0 .. L : (\A i \in 1 .. n : i \notin bad) => n # L /\ n + 1 \notin bad
             PROVE  FALSE
  OBVIOUS
<1> DEFINE S == {n \in Nat : n <= L => \A i \in 1 .. n : i \notin bad}
<1>1. 0 \in S
  OBVIOUS
<1>2. ASSUME NEW n \in Nat, n \in S PROVE n + 1 \in S
  <2>1. SUFFICES ASSUME n + 1 <= L, NEW i \in 1 .. n + 1 PROVE i \notin bad
    OBVIOUS
  <2>2. \A k \in 1 .. n : k \notin bad
    BY <1>2, <2>1
  <2>3. n \in 0 .. L
    BY <2>1
  <2>4. n + 1 \notin bad
    BY <2>2, <2>3
  <2> QED
    BY <2>2, <2>4
<1>3. \A n \in Nat : n \in S
  BY <1>1, <1>2, NatSet
<1>4. L \in S /\ L \in 0 .. L
  BY <1>3
<1> QED
  BY <1>4
-----------------------------------------------------------------------------
(* The function that FlattenSeq defines by recursion, up to n.             *)
Flattening(g, seqs, n) == g = [i \in 1 .. n |-> IF i = 1 THEN seqs[i] ELSE g[i - 1] \o seqs[i]]

(* There is a flattening of every number of sequences.                     *)
LEMMA FlatteningExists ==
    ASSUME NEW seqs
    PROVE  \A n \in Nat : \E g : Flattening(g, seqs, n)
<1> DEFINE S == {n \in Nat : \E g : Flattening(g, seqs, n)}
<1>1. 0 \in S
  <2>1. Flattening([i \in 1 .. 0 |-> IF i = 1 THEN seqs[i] ELSE <<>>], seqs, 0)
    BY DEF Flattening
  <2> QED
    BY <2>1
<1>2. ASSUME NEW n \in Nat, n \in S PROVE n + 1 \in S
  <2>1. PICK g : Flattening(g, seqs, n)
    BY <1>2
  <2> DEFINE last == IF n = 0 THEN seqs[1] ELSE g[n] \o seqs[n + 1]
             h == [i \in 1 .. n + 1 |-> IF i = n + 1 THEN last ELSE g[i]]
  <2>2. \A i \in 1 .. n : g[i] = IF i = 1 THEN seqs[i] ELSE g[i - 1] \o seqs[i]
    BY <2>1 DEF Flattening
  <2>3. ASSUME NEW i \in 1 .. n + 1
        PROVE  h[i] = IF i = 1 THEN seqs[i] ELSE h[i - 1] \o seqs[i]
    <3>1. CASE i = n + 1
      BY <3>1
    <3>2. CASE i # n + 1
      <4>1. i \in 1 .. n /\ h[i] = g[i] /\ (i # 1 => h[i - 1] = g[i - 1])
        BY <3>2
      <4> QED
        BY <2>2, <4>1
    <3> QED
      BY <3>1, <3>2
  <2>4. h = [i \in 1 .. n + 1 |-> IF i = 1 THEN seqs[i] ELSE h[i - 1] \o seqs[i]]
    BY <2>3
  <2>5. Flattening(h, seqs, n + 1)
    BY <2>4 DEF Flattening
  <2> QED
    BY <2>5
<1>3. \A n \in Nat : n \in S
  BY <1>1, <1>2, NatSet
<1> QED
  BY <1>3

(* Two of them agree where both are defined, and seqs is the same.         *)
LEMMA FlatteningsAgree ==
    ASSUME NEW s, NEW t, NEW g, NEW h, NEW n \in Nat, NEW m \in Nat, n <= m,
           Flattening(g, s, n), Flattening(h, t, m), \A i \in 1 .. n : s[i] = t[i]
    PROVE  \A i \in 1 .. n : g[i] = h[i]
<1> DEFINE S == {k \in Nat : k \in 1 .. n => g[k] = h[k]}
<1>0. /\ \A i \in 1 .. n : g[i] = IF i = 1 THEN s[i] ELSE g[i - 1] \o s[i]
      /\ \A i \in 1 .. m : h[i] = IF i = 1 THEN t[i] ELSE h[i - 1] \o t[i]
  BY DEF Flattening
<1>1. 0 \in S
  OBVIOUS
<1>2. ASSUME NEW k \in Nat, k \in S PROVE k + 1 \in S
  BY <1>0, <1>2
<1>3. \A k \in Nat : k \in S
  BY <1>1, <1>2, NatSet
<1> QED
  BY <1>3

(* FlattenSeq is the end of it.                                            *)
LEMMA FlattenedIs ==
    ASSUME NEW seqs, Len(seqs) \in Nat, Len(seqs) # 0
    PROVE  \E g : Flattening(g, seqs, Len(seqs)) /\ FlattenSeq(seqs) = g[Len(seqs)]
<1> DEFINE g == CHOOSE g : g = [i \in 1 .. Len(seqs) |->
                                  IF i = 1 THEN seqs[i] ELSE g[i - 1] \o seqs[i]]
<1>1. \E f : Flattening(f, seqs, Len(seqs))
  BY FlatteningExists
<1>2. Flattening(g, seqs, Len(seqs))
  BY <1>1 DEF Flattening
<1>3. FlattenSeq(seqs) = g[Len(seqs)]
  BY DEF FlattenSeq
<1> QED
  BY <1>2, <1>3

(* The first n sequences of F, put together.                               *)
Flat(F, n) == FlattenSeq([i \in 1 .. n |-> F[i]])

(* Of nothing, nothing.                                                    *)
LEMMA FlatNothing ==
    ASSUME NEW F
    PROVE  Flat(F, 0) = <<>>
  BY DEF FlattenSeq, Flat

(* The last step of a flattening joins the last sequence.                  *)
LEMMA FlatteningLast ==
    ASSUME NEW n \in Nat, NEW m \in Nat, m = n + 1
    PROVE  \A g, seqs : Flattening(g, seqs, m) => (n # 0 => g[m] = g[n] \o seqs[m])
<1> SUFFICES ASSUME NEW g, NEW seqs, Flattening(g, seqs, m)
             PROVE  n # 0 => g[m] = g[n] \o seqs[m]
  OBVIOUS
<1>1. \A i \in 1 .. m : g[i] = IF i = 1 THEN seqs[i] ELSE g[i - 1] \o seqs[i]
  BY DEF Flattening
<1>2. m \in 1 .. m
  OBVIOUS
<1>3. g[m] = IF m = 1 THEN seqs[m] ELSE g[m - 1] \o seqs[m]
  BY <1>1, <1>2
<1>4. n # 0 => m # 1
  OBVIOUS
<1>5. m - 1 = n
  OBVIOUS
<1> QED
  BY <1>3, <1>4, <1>5

(* One more.                                                               *)
LEMMA FlatOneMore ==
    ASSUME NEW n \in Nat, NEW m \in Nat, m = n + 1, NEW T, NEW F, F[m] \in Seq(T)
    PROVE  Flat(F, m) = Flat(F, n) \o F[m]
<1> DEFINE s == [i \in 1 .. n |-> F[i]]
           t == [i \in 1 .. m |-> F[i]]
<1>1. Len(s) = n /\ Len(t) = m /\ m # 0
  OBVIOUS
<1>2. \A i \in 1 .. n : s[i] = t[i]
  OBVIOUS
<1>3. t[m] = F[m] /\ (n = 0 => t[1] = F[m])
  OBVIOUS
<1>4. FlattenSeq(s) = Flat(F, n) /\ FlattenSeq(t) = Flat(F, m)
  BY DEF Flat
<1> HIDE DEF s, t
<1>5. PICK h : Flattening(h, t, m) /\ FlattenSeq(t) = h[m]
  BY <1>1, FlattenedIs
<1>6. CASE n = 0
  <2>1. Flat(F, n) = <<>>
    BY <1>6, FlatNothing
  <2>2. F[m] = <<>> \o F[m]
    OBVIOUS
  <2>3. h[m] = t[1]
    BY <1>5, <1>6 DEF Flattening
  <2> QED
    BY <1>3, <1>4, <1>5, <1>6, <2>1, <2>2, <2>3
<1>7. CASE n # 0
  <2>1. PICK g : Flattening(g, s, n) /\ FlattenSeq(s) = g[n]
    BY <1>1, <1>7, FlattenedIs
  <2>2. n <= m /\ n \in 1 .. n
    BY <1>7
  <2>3. \A i \in 1 .. n : g[i] = h[i]
    BY <1>2, <1>5, <2>1, <2>2, FlatteningsAgree
  <2>4. g[n] = h[n]
    BY <2>2, <2>3
  <2>5. h[m] = h[n] \o t[m]
    <3>1. \A f, q : Flattening(f, q, m) => (n # 0 => f[m] = f[n] \o q[m])
      BY FlatteningLast
    <3>2. n # 0 => h[m] = h[n] \o t[m]
      BY <1>5, <3>1, Zenon
    <3> QED
      BY <1>7, <3>2
  <2> QED
    BY <1>3, <1>4, <1>5, <2>1, <2>4, <2>5
<1> QED
  BY <1>6, <1>7

(* F is N sequences of members of T.                                       *)
Parts(F, N, T) == N \in Nat /\ \A i \in 1 .. N : F[i] \in Seq(T)

(* What is flattened from typed parts is typed.                            *)
LEMMA FlatTyped ==
    ASSUME NEW N, NEW T, NEW F, Parts(F, N, T)
    PROVE  \A n \in 0 .. N : Flat(F, n) \in Seq(T)
<1> DEFINE S == {n \in Nat : \A m \in 0 .. N : m = n => Flat(F, m) \in Seq(T)}
<1> USE DEF Parts
<1>1. 0 \in S
  <2>1. Flat(F, 0) = <<>>
    BY FlatNothing
  <2>2. <<>> \in Seq(T)
    OBVIOUS
  <2>3. Flat(F, 0) \in Seq(T)
    BY <2>1, <2>2, Zenon
  <2>4. \A m \in 0 .. N : m = 0 => Flat(F, m) \in Seq(T)
    BY <2>3
  <2> QED
    BY <2>4
<1>2. ASSUME NEW n \in Nat, n \in S PROVE n + 1 \in S
  <2>1. SUFFICES ASSUME NEW m \in 0 .. N, m = n + 1 PROVE Flat(F, m) \in Seq(T)
    OBVIOUS
  <2>2. m \in Nat /\ F[m] \in Seq(T) /\ Flat(F, n) \in Seq(T)
    BY <1>2, <2>1
  <2>3. Flat(F, m) = Flat(F, n) \o F[m]
    BY <2>1, <2>2, FlatOneMore
  <2> QED
    BY <2>2, <2>3
<1>3. \A n \in Nat : n \in S
  BY <1>1, <1>2, NatSet
<1> QED
  BY <1>3

(* One more part is joined at the end.                                     *)
LEMMA FlatMore ==
    ASSUME NEW N, NEW T, NEW F, Parts(F, N, T)
    PROVE  \A n \in 0 .. N : \A m \in 1 .. N :
              m = n + 1 => Flat(F, m) = Flat(F, n) \o F[m]
<1> SUFFICES ASSUME NEW n \in 0 .. N, NEW m \in 1 .. N, m = n + 1
             PROVE  Flat(F, m) = Flat(F, n) \o F[m]
  OBVIOUS
<1>1. F[m] \in Seq(T) /\ n \in Nat /\ m \in Nat
  BY DEF Parts
<1> QED
  BY <1>1, FlatOneMore

(* So the lengths add, and the elements of that part follow.               *)
LEMMA FlatNext ==
    ASSUME NEW N, NEW T, NEW F, Parts(F, N, T)
    PROVE  \A n \in 0 .. N : \A m \in 1 .. N : m = n + 1 =>
              /\ Len(Flat(F, m)) = Len(Flat(F, n)) + Len(F[m])
              /\ \A k \in 1 .. Len(F[m]) : Flat(F, m)[Len(Flat(F, n)) + k] = F[m][k]
<1> SUFFICES ASSUME NEW n \in 0 .. N, NEW m \in 1 .. N, m = n + 1
             PROVE  /\ Len(Flat(F, m)) = Len(Flat(F, n)) + Len(F[m])
                    /\ \A k \in 1 .. Len(F[m]) : Flat(F, m)[Len(Flat(F, n)) + k] = F[m][k]
  OBVIOUS
<1>1. Flat(F, n) \in Seq(T)
  BY FlatTyped
<1>2. F[m] \in Seq(T) /\ n \in Nat /\ m \in Nat
  BY DEF Parts
<1>3. Flat(F, m) = Flat(F, n) \o F[m]
  BY FlatMore
<1>4. Len(Flat(F, m)) = Len(Flat(F, n)) + Len(F[m])
  BY <1>1, <1>2, <1>3
<1>5. \A k \in 1 .. Len(F[m]) : Flat(F, m)[Len(Flat(F, n)) + k] = F[m][k]
  BY <1>1, <1>2, <1>3
<1> QED
  BY <1>4, <1>5

(* t starts with s.                                                        *)
StartsWith(t, s) == Len(s) <= Len(t) /\ \A k \in 1 .. Len(s) : t[k] = s[k]

(* Fewer parts are the beginning of more.                                  *)
LEMMA FlatPrefix ==
    ASSUME NEW N, NEW T, NEW F, Parts(F, N, T)
    PROVE  \A n \in 0 .. N : \A m \in n .. N : StartsWith(Flat(F, m), Flat(F, n))
<1> SUFFICES ASSUME NEW n \in 0 .. N PROVE \A m \in n .. N : StartsWith(Flat(F, m), Flat(F, n))
  OBVIOUS
<1>0. N \in Nat
  BY DEF Parts
<1>t. \A m \in 0 .. N : Flat(F, m) \in Seq(T)
  BY FlatTyped
<1>n. \A l \in 0 .. N : \A m \in 1 .. N : m = l + 1 => Flat(F, m) = Flat(F, l) \o F[m]
  BY FlatMore
<1> DEFINE S == {d \in Nat : \A m \in n .. N : m = n + d => StartsWith(Flat(F, m), Flat(F, n))}
<1>1. 0 \in S
  BY <1>t DEF StartsWith
<1>2. ASSUME NEW d \in Nat, d \in S PROVE d + 1 \in S
  <2>1. SUFFICES ASSUME NEW m \in n .. N, m = n + (d + 1)
                 PROVE  StartsWith(Flat(F, m), Flat(F, n))
    OBVIOUS
  <2>2. PICK l \in n .. N : l = n + d
    BY <1>0, <2>1
  <2>3. StartsWith(Flat(F, l), Flat(F, n))
    BY <1>2, <2>2
  <2>4. l \in 0 .. N /\ m \in 1 .. N /\ m \in 0 .. N /\ m = l + 1
    BY <1>0, <2>1, <2>2
  <2>5. Flat(F, m) = Flat(F, l) \o F[m] /\ F[m] \in Seq(T)
    BY <1>n, <2>4 DEF Parts
  <2>6. Flat(F, l) \in Seq(T) /\ Flat(F, n) \in Seq(T)
    BY <1>t, <2>4
  <2> QED
    BY <2>3, <2>5, <2>6 DEF StartsWith
<1>3. \A d \in Nat : d \in S
  BY <1>1, <1>2, NatSet
<1> QED
  <2> TAKE m \in n .. N
  <2>1. m - n \in Nat /\ m = n + (m - n)
    BY <1>0
  <2> QED
    BY <1>3, <2>1

(* A beginning remains one behind the same sequence.                       *)
LEMMA StartsBehind ==
    ASSUME NEW T, NEW q \in Seq(T), NEW s \in Seq(T), NEW t \in Seq(T), StartsWith(t, s)
    PROVE  StartsWith(q \o t, q \o s)
<1>1. Len(s) \in Nat /\ Len(t) \in Nat /\ Len(q) \in Nat
  OBVIOUS
<1>2. Len(q \o s) = Len(q) + Len(s) /\ Len(q \o t) = Len(q) + Len(t)
  OBVIOUS
<1>3. ASSUME NEW k \in 1 .. Len(q) + Len(s) PROVE (q \o t)[k] = (q \o s)[k]
  <2>1. CASE k <= Len(q)
    BY <1>1, <2>1
  <2>0. k \in Nat
    BY <1>1
  <2>2. CASE k > Len(q)
    <3>1. k - Len(q) \in 1 .. Len(s)
      BY <1>1, <2>2
    <3>2. t[k - Len(q)] = s[k - Len(q)]
      BY <3>1 DEF StartsWith
    <3>3. (q \o t)[k] = t[k - Len(q)] /\ (q \o s)[k] = s[k - Len(q)]
      BY <1>1, <2>2 DEF StartsWith
    <3> QED
      BY <3>2, <3>3
  <2> QED
    <3>1. k <= Len(q) \/ k > Len(q)
      BY <1>1, <2>0
    <3> QED
      BY <2>1, <2>2, <3>1
<1> QED
  BY <1>1, <1>2, <1>3 DEF StartsWith

(* A beginning of a beginning is one.                                      *)
LEMMA StartsWithAll ==
    ASSUME NEW T, NEW q \in Seq(T), NEW s \in Seq(T), NEW t \in Seq(T),
           StartsWith(t, s), StartsWith(s, q)
    PROVE  StartsWith(t, q)
<1>1. Len(s) \in Nat /\ Len(t) \in Nat /\ Len(q) \in Nat
  OBVIOUS
<1> QED
  BY <1>1 DEF StartsWith

(* Where the parts of a flattened sequence lie.                            *)
LEMMA FlatParts ==
    ASSUME NEW N, NEW T, NEW F, Parts(F, N, T)
    PROVE  \A n \in 0 .. N : \A m \in 1 .. N : m = n + 1 =>
              /\ Len(Flat(F, n)) + Len(F[m]) <= Len(Flat(F, N))
              /\ \A k \in 1 .. Len(F[m]) : Flat(F, N)[Len(Flat(F, n)) + k] = F[m][k]
<1> SUFFICES ASSUME NEW n \in 0 .. N, NEW m \in 1 .. N, m = n + 1
             PROVE  /\ Len(Flat(F, n)) + Len(F[m]) <= Len(Flat(F, N))
                    /\ \A k \in 1 .. Len(F[m]) : Flat(F, N)[Len(Flat(F, n)) + k] = F[m][k]
  OBVIOUS
<1>1. StartsWith(Flat(F, N), Flat(F, m))
  <2>1. N \in m .. N /\ m \in 0 .. N
    BY DEF Parts
  <2> QED
    BY <2>1, FlatPrefix
<1>2. /\ Len(Flat(F, m)) = Len(Flat(F, n)) + Len(F[m])
      /\ \A k \in 1 .. Len(F[m]) : Flat(F, m)[Len(Flat(F, n)) + k] = F[m][k]
  BY FlatNext
<1>3. Flat(F, n) \in Seq(T) /\ F[m] \in Seq(T)
  BY FlatTyped DEF Parts
<1>4. Len(F[m]) \in Nat /\ Len(Flat(F, n)) \in Nat
  BY <1>3
<1> QED
  BY <1>1, <1>2, <1>4 DEF StartsWith

(* What is the same up to n is the same flattened up to n.                 *)
LEMMA FlatSame ==
    ASSUME NEW n, NEW F, NEW G, \A i \in 1 .. n : F[i] = G[i]
    PROVE  Flat(F, n) = Flat(G, n)
<1>1. [i \in 1 .. n |-> F[i]] = [i \in 1 .. n |-> G[i]]
  OBVIOUS
<1> QED
  BY <1>1 DEF Flat

(* All parts flattened are the FlattenSeq of the function.                 *)
LEMMA FlatWhole ==
    ASSUME NEW n, NEW F, F = [i \in 1 .. n |-> F[i]]
    PROVE  FlattenSeq(F) = Flat(F, n)
  BY DEF Flat
-----------------------------------------------------------------------------
(***************************************************************************)
(* What data have, and how numbers are read from them.                     *)
(***************************************************************************)

(* The data have that code behind the first p bits.                        *)
Has(d, p, code) ==
    /\ p + Len(code) <= Len(d)
    /\ \A k \in 1 .. Len(code) : d[p + k] = code[k]

(* Data that have a joined code have its two pieces in a row.              *)
LEMMA HasJoined ==
    ASSUME NEW T, NEW d \in Seq(T), NEW s \in Seq(T), NEW t \in Seq(T), NEW p \in Nat,
           Has(d, p, s \o t)
    PROVE  /\ Has(d, p, s) /\ Has(d, p + Len(s), t)
           /\ Len(s \o t) = Len(s) + Len(t) /\ p + Len(s) \in Nat
<1>1. /\ Len(s \o t) = Len(s) + Len(t)
      /\ \A k \in 1 .. Len(s) : (s \o t)[k] = s[k]
      /\ \A k \in 1 .. Len(t) : (s \o t)[Len(s) + k] = t[k]
  BY Joined
<1>2. Len(s) \in Nat /\ Len(t) \in Nat /\ Len(d) \in Nat
  OBVIOUS
<1> HIDE DEF Has
<1>3. /\ p + (Len(s) + Len(t)) <= Len(d)
      /\ \A k \in 1 .. Len(s) + Len(t) : d[p + k] = (s \o t)[k]
  BY <1>1 DEF Has
<1>4. Has(d, p, s)
  <2>1. p + Len(s) <= Len(d)
    BY <1>2, <1>3
  <2>2. ASSUME NEW k \in 1 .. Len(s) PROVE d[p + k] = s[k]
    <3>1. k \in 1 .. Len(s) + Len(t)
      BY <1>2
    <3> QED
      BY <1>1, <1>3, <3>1
  <2> QED
    BY <2>1, <2>2 DEF Has
<1>5. Has(d, p + Len(s), t)
  <2>1. p + Len(s) + Len(t) <= Len(d)
    BY <1>2, <1>3
  <2>2. ASSUME NEW k \in 1 .. Len(t) PROVE d[p + Len(s) + k] = t[k]
    <3>1. Len(s) + k \in 1 .. Len(s) + Len(t)
      BY <1>2
    <3>2. d[p + (Len(s) + k)] = (s \o t)[Len(s) + k]
      BY <1>3, <3>1
    <3>3. p + (Len(s) + k) = p + Len(s) + k
      BY <1>2
    <3> QED
      BY <1>1, <3>2, <3>3
  <2> QED
    BY <2>1, <2>2 DEF Has
<1> QED
  BY <1>1, <1>2, <1>4, <1>5

(* Data that have a flattened code have each part behind the ones before   *)
(* it.                                                                     *)
LEMMA HasPart ==
    ASSUME NEW N, NEW T, NEW F, Parts(F, N, T), NEW d \in Seq(T), NEW p \in Nat,
           Has(d, p, Flat(F, N))
    PROVE  \A n \in 0 .. N : \A m \in 1 .. N : m = n + 1 =>
              /\ Has(d, p + Len(Flat(F, n)), F[m])
              /\ Len(Flat(F, m)) = Len(Flat(F, n)) + Len(F[m])
              /\ p + Len(Flat(F, n)) \in Nat /\ p + Len(Flat(F, m)) \in Nat
<1> SUFFICES ASSUME NEW n \in 0 .. N, NEW m \in 1 .. N, m = n + 1
             PROVE  /\ Has(d, p + Len(Flat(F, n)), F[m])
                    /\ Len(Flat(F, m)) = Len(Flat(F, n)) + Len(F[m])
                    /\ p + Len(Flat(F, n)) \in Nat /\ p + Len(Flat(F, m)) \in Nat
  OBVIOUS
<1>1. /\ Len(Flat(F, n)) + Len(F[m]) <= Len(Flat(F, N))
      /\ \A k \in 1 .. Len(F[m]) : Flat(F, N)[Len(Flat(F, n)) + k] = F[m][k]
  BY FlatParts
<1>2. Len(Flat(F, m)) = Len(Flat(F, n)) + Len(F[m])
  BY FlatNext
<1>3. N \in Nat /\ N \in 0 .. N /\ m \in 0 .. N /\ F[m] \in Seq(T)
  BY DEF Parts
<1>4. Flat(F, n) \in Seq(T) /\ Flat(F, m) \in Seq(T) /\ Flat(F, N) \in Seq(T)
  BY <1>3, FlatTyped
<1>5. /\ Len(Flat(F, n)) \in Nat /\ Len(Flat(F, m)) \in Nat /\ Len(Flat(F, N)) \in Nat
      /\ Len(F[m]) \in Nat /\ Len(d) \in Nat
  BY <1>3, <1>4
<1>6. /\ p + Len(Flat(F, N)) <= Len(d)
      /\ \A k \in 1 .. Len(Flat(F, N)) : d[p + k] = Flat(F, N)[k]
  BY DEF Has
<1> DEFINE l == Len(Flat(F, n))
           part == F[m]
           whole == Flat(F, N)
<1> HIDE DEF l, part, whole
<1>7. p + l + Len(part) <= Len(d)
  <2>1. l + Len(part) <= Len(whole) /\ p + Len(whole) <= Len(d)
    BY <1>1, <1>6 DEF l, part, whole
  <2>2. l \in Nat /\ Len(part) \in Nat /\ Len(whole) \in Nat /\ Len(d) \in Nat
    BY <1>5 DEF l, part, whole
  <2> QED
    BY <2>1, <2>2
<1>8. ASSUME NEW k \in 1 .. Len(part) PROVE d[p + l + k] = part[k]
  <2>1. l + k \in 1 .. Len(whole)
    BY <1>1, <1>5 DEF l, part, whole
  <2>2. d[p + (l + k)] = whole[l + k]
    BY <1>6, <2>1 DEF whole
  <2>3. whole[l + k] = part[k]
    BY <1>1 DEF l, part, whole
  <2>4. p + (l + k) = p + l + k
    BY <1>5 DEF l, part
  <2> QED
    BY <2>2, <2>3, <2>4
<1>9. Has(d, p + l, part)
  BY <1>7, <1>8 DEF Has
<1> QED
  BY <1>2, <1>5, <1>9 DEF l, part
-----------------------------------------------------------------------------
(* Numbers of up to thirty bits.                                           *)
LEMMA Powers ==
    \A n \in 0 .. 29 : /\ 2^n \in Nat \ {0}
                       /\ \A m \in 1 .. 30 : m = n + 1 => 2^m = 2 * 2^n
<1> SUFFICES ASSUME NEW n \in 0 .. 29, NEW m \in 1 .. 30, m = n + 1
             PROVE  2^n \in Nat \ {0} /\ 2^m = 2 * 2^n
  <2>1. ASSUME NEW n \in 0 .. 29 PROVE n + 1 \in 1 .. 30
    OBVIOUS
  <2> QED
    BY <2>1
<1> DEFINE Doubles == 2^n \in Nat \ {0} /\ 2^m = 2 * 2^n
<1>1. n = 0 => Doubles
  <2>1. ASSUME n = 0 PROVE 2^n = 1 /\ 2^m = 2
    BY <2>1, SMT
  <2> QED
    BY <2>1, SMT
<1>2. n = 1 => Doubles
  <2>1. ASSUME n = 1 PROVE 2^n = 2 /\ 2^m = 4
    BY <2>1, SMT
  <2> QED
    BY <2>1, SMT
<1>3. n = 2 => Doubles
  <2>1. ASSUME n = 2 PROVE 2^n = 4 /\ 2^m = 8
    BY <2>1, SMT
  <2> QED
    BY <2>1, SMT
<1>4. n = 3 => Doubles
  <2>1. ASSUME n = 3 PROVE 2^n = 8 /\ 2^m = 16
    BY <2>1, SMT
  <2> QED
    BY <2>1, SMT
<1>5. n = 4 => Doubles
  <2>1. ASSUME n = 4 PROVE 2^n = 16 /\ 2^m = 32
    BY <2>1, SMT
  <2> QED
    BY <2>1, SMT
<1>6. n = 5 => Doubles
  <2>1. ASSUME n = 5 PROVE 2^n = 32 /\ 2^m = 64
    BY <2>1, SMT
  <2> QED
    BY <2>1, SMT
<1>7. n = 6 => Doubles
  <2>1. ASSUME n = 6 PROVE 2^n = 64 /\ 2^m = 128
    BY <2>1, SMT
  <2> QED
    BY <2>1, SMT
<1>8. n = 7 => Doubles
  <2>1. ASSUME n = 7 PROVE 2^n = 128 /\ 2^m = 256
    BY <2>1, SMT
  <2> QED
    BY <2>1, SMT
<1>9. n = 8 => Doubles
  <2>1. ASSUME n = 8 PROVE 2^n = 256 /\ 2^m = 512
    BY <2>1, SMT
  <2> QED
    BY <2>1, SMT
<1>10. n = 9 => Doubles
  <2>1. ASSUME n = 9 PROVE 2^n = 512 /\ 2^m = 1024
    BY <2>1, SMT
  <2> QED
    BY <2>1, SMT
<1>11. n = 10 => Doubles
  <2>1. ASSUME n = 10 PROVE 2^n = 1024 /\ 2^m = 2048
    BY <2>1, SMT
  <2> QED
    BY <2>1, SMT
<1>12. n = 11 => Doubles
  <2>1. ASSUME n = 11 PROVE 2^n = 2048 /\ 2^m = 4096
    BY <2>1, SMT
  <2> QED
    BY <2>1, SMT
<1>13. n = 12 => Doubles
  <2>1. ASSUME n = 12 PROVE 2^n = 4096 /\ 2^m = 8192
    BY <2>1, SMT
  <2> QED
    BY <2>1, SMT
<1>14. n = 13 => Doubles
  <2>1. ASSUME n = 13 PROVE 2^n = 8192 /\ 2^m = 16384
    BY <2>1, SMT
  <2> QED
    BY <2>1, SMT
<1>15. n = 14 => Doubles
  <2>1. ASSUME n = 14 PROVE 2^n = 16384 /\ 2^m = 32768
    BY <2>1, SMT
  <2> QED
    BY <2>1, SMT
<1>16. n = 15 => Doubles
  <2>1. ASSUME n = 15 PROVE 2^n = 32768 /\ 2^m = 65536
    BY <2>1, SMT
  <2> QED
    BY <2>1, SMT
<1>17. n = 16 => Doubles
  <2>1. ASSUME n = 16 PROVE 2^n = 65536 /\ 2^m = 131072
    BY <2>1, SMT
  <2> QED
    BY <2>1, SMT
<1>18. n = 17 => Doubles
  <2>1. ASSUME n = 17 PROVE 2^n = 131072 /\ 2^m = 262144
    BY <2>1, SMT
  <2> QED
    BY <2>1, SMT
<1>19. n = 18 => Doubles
  <2>1. ASSUME n = 18 PROVE 2^n = 262144 /\ 2^m = 524288
    BY <2>1, SMT
  <2> QED
    BY <2>1, SMT
<1>20. n = 19 => Doubles
  <2>1. ASSUME n = 19 PROVE 2^n = 524288 /\ 2^m = 1048576
    BY <2>1, SMT
  <2> QED
    BY <2>1, SMT
<1>21. n = 20 => Doubles
  <2>1. ASSUME n = 20 PROVE 2^n = 1048576 /\ 2^m = 2097152
    BY <2>1, SMT
  <2> QED
    BY <2>1, SMT
<1>22. n = 21 => Doubles
  <2>1. ASSUME n = 21 PROVE 2^n = 2097152 /\ 2^m = 4194304
    BY <2>1, SMT
  <2> QED
    BY <2>1, SMT
<1>23. n = 22 => Doubles
  <2>1. ASSUME n = 22 PROVE 2^n = 4194304 /\ 2^m = 8388608
    BY <2>1, SMT
  <2> QED
    BY <2>1, SMT
<1>24. n = 23 => Doubles
  <2>1. ASSUME n = 23 PROVE 2^n = 8388608 /\ 2^m = 16777216
    BY <2>1, SMT
  <2> QED
    BY <2>1, SMT
<1>25. n = 24 => Doubles
  <2>1. ASSUME n = 24 PROVE 2^n = 16777216 /\ 2^m = 33554432
    BY <2>1, SMT
  <2> QED
    BY <2>1, SMT
<1>26. n = 25 => Doubles
  <2>1. ASSUME n = 25 PROVE 2^n = 33554432 /\ 2^m = 67108864
    BY <2>1, SMT
  <2> QED
    BY <2>1, SMT
<1>27. n = 26 => Doubles
  <2>1. ASSUME n = 26 PROVE 2^n = 67108864 /\ 2^m = 134217728
    BY <2>1, SMT
  <2> QED
    BY <2>1, SMT
<1>28. n = 27 => Doubles
  <2>1. ASSUME n = 27 PROVE 2^n = 134217728 /\ 2^m = 268435456
    BY <2>1, SMT
  <2> QED
    BY <2>1, SMT
<1>29. n = 28 => Doubles
  <2>1. ASSUME n = 28 PROVE 2^n = 268435456 /\ 2^m = 536870912
    BY <2>1, SMT
  <2> QED
    BY <2>1, SMT
<1>30. n = 29 => Doubles
  <2>1. ASSUME n = 29 PROVE 2^n = 536870912 /\ 2^m = 1073741824
    BY <2>1, SMT
  <2> QED
    BY <2>1, SMT
<1> HIDE DEF Doubles
<1>31. n < 15 => Doubles
  BY <1>1, <1>2, <1>3, <1>4, <1>5, <1>6, <1>7, <1>8, <1>9, <1>10, <1>11, <1>12, <1>13, <1>14, <1>15
<1>32. n >= 15 => Doubles
  BY <1>16, <1>17, <1>18, <1>19, <1>20, <1>21, <1>22, <1>23, <1>24, <1>25, <1>26, <1>27, <1>28, <1>29, <1>30
<1>33. Doubles
  BY <1>31, <1>32
<1> QED
  BY <1>33 DEF Doubles

(* Dividing by the next power of two halves what the last one left.        *)
LEMMA Halves ==
    /\ \A i \in Nat : \A p \in Nat \ {0} : i \div (2 * p) = (i \div p) \div 2
    /\ \A i \in Nat : \A p \in Nat \ {0} : i \div p \in Nat
    /\ \A i \in Nat : (i % 2) + 2 * (i \div 2) = i
<1>1. \A i \in Nat : \A p \in Nat \ {0} : i \div (2 * p) = (i \div p) \div 2
  OBVIOUS
<1>2. \A i \in Nat : \A p \in Nat \ {0} : i \div p \in Nat
  OBVIOUS
<1>3. \A i \in Nat : (i % 2) + 2 * (i \div 2) = i
  OBVIOUS
<1> QED
  BY <1>1, <1>2, <1>3

IsValue(f, v) == f = [k \in 1 .. Len(v) + 1 |-> IF k > Len(v) THEN 0 ELSE v[k] + 2 * f[k + 1]]

(* What the bits from the k-th on are worth, for every k.                  *)
LEMMA ToNatIs ==
    ASSUME NEW L \in Nat, NEW v, Len(v) = L, NEW g, g[L + 1] = 0,
           \A k \in 1 .. L : g[k] = v[k] + 2 * g[k + 1]
    PROVE  ToNat(v) = g[1]
<1> DEFINE h == [k \in 1 .. L + 1 |-> g[k]]
<1>1. IsValue(h, v)
  <2>1. \A k \in 1 .. L + 1 : h[k] = IF k > L THEN 0 ELSE v[k] + 2 * h[k + 1]
    <3> SUFFICES ASSUME NEW k \in 1 .. L + 1
                 PROVE  h[k] = IF k > L THEN 0 ELSE v[k] + 2 * h[k + 1]
      OBVIOUS
    <3>1. CASE k > L
      <4>1. k = L + 1
        BY <3>1
      <4> QED
        BY <3>1, <4>1
    <3>2. CASE ~(k > L)
      <4>1. k \in 1 .. L /\ k + 1 \in 1 .. L + 1
        BY <3>2
      <4> QED
        BY <3>2, <4>1
    <3> QED
      BY <3>1, <3>2
  <2>2. h = [k \in 1 .. L + 1 |-> IF k > L THEN 0 ELSE v[k] + 2 * h[k + 1]]
    BY <2>1
  <2> QED
    BY <2>2 DEF IsValue
<1>2. \A f : IsValue(f, v) => f[1] = g[1]
  <2> SUFFICES ASSUME NEW f, IsValue(f, v) PROVE f[1] = g[1]
    OBVIOUS
  <2>1. \A k \in 1 .. L + 1 : f[k] = IF k > L THEN 0 ELSE v[k] + 2 * f[k + 1]
    BY Zenon DEF IsValue
  <2> DEFINE S == {n \in Nat : \A k \in 1 .. L + 1 : k + n = L + 1 => f[k] = g[k]}
  <2>2. 0 \in S
    BY <2>1
  <2>3. ASSUME NEW n \in Nat, n \in S PROVE n + 1 \in S
    <3> SUFFICES ASSUME NEW k \in 1 .. L + 1, k + (n + 1) = L + 1 PROVE f[k] = g[k]
      OBVIOUS
    <3>1. k \in 1 .. L /\ k + 1 \in 1 .. L + 1 /\ (k + 1) + n = L + 1 /\ ~(k > L)
      OBVIOUS
    <3>2. f[k + 1] = g[k + 1]
      BY <2>3, <3>1
    <3>3. f[k] = v[k] + 2 * f[k + 1]
      BY <2>1, <3>1
    <3> QED
      BY <3>1, <3>2, <3>3
  <2>4. \A n \in Nat : n \in S
    <3> HIDE DEF S
    <3> QED
      BY <2>2, <2>3, NatSet
  <2>5. L \in S /\ 1 \in 1 .. L + 1 /\ 1 + L = L + 1
    BY <2>4
  <2> QED
    BY <2>5
<1>3. ToNat(v) = (CHOOSE f : IsValue(f, v))[1]
  BY DEF ToNat, IsValue
<1> HIDE DEF h
<1> QED
  BY <1>1, <1>2, <1>3

(* A number is read as it was written.                                     *)
LEMMA NumberBack ==
    ASSUME NEW n \in 0 .. 30, NEW i \in Nat, i < 2^n
    PROVE  ToNat(ToBits(i, n)) = i
<1> DEFINE v == ToBits(i, n)
           g == [k \in 1 .. n + 1 |-> i \div 2^(k - 1)]
<1>1. Len(v) = n /\ \A k \in 1 .. n : v[k] = g[k] % 2
  <2>1. v = [k \in 1 .. n |-> IF k > 31 THEN 0 ELSE (i \div 2^(k - 1)) % 2]
    BY DEF ToBits
  <2>2. Len(v) = n
    BY <2>1
  <2>3. ASSUME NEW k \in 1 .. n PROVE v[k] = g[k] % 2
    <3>1. ~(k > 31) /\ k \in 1 .. n + 1
      OBVIOUS
    <3> QED
      BY <2>1, <3>1
  <2> QED
    BY <2>2, <2>3
<1>2. \A k \in 1 .. n : g[k] = v[k] + 2 * g[k + 1]
  <2> SUFFICES ASSUME NEW k \in 1 .. n PROVE g[k] = v[k] + 2 * g[k + 1]
    OBVIOUS
  <2>1. k - 1 \in 0 .. 29 /\ k \in 1 .. 30 /\ k = (k - 1) + 1
        /\ k \in 1 .. n + 1 /\ k + 1 \in 1 .. n + 1 /\ (k + 1) - 1 = k
    OBVIOUS
  <2> DEFINE p == 2^(k - 1)
  <2>2. p \in Nat \ {0} /\ 2^k = 2 * p
    BY <2>1, Powers
  <2>3. g[k] = i \div p /\ g[k + 1] = i \div 2^k
    BY <2>1
  <2> HIDE DEF p
  <2>4. g[k] \in Nat /\ g[k + 1] = g[k] \div 2
    BY <2>2, <2>3, Halves
  <2>5. v[k] = g[k] % 2
    BY <1>1
  <2> QED
    BY <2>4, <2>5, Halves
<1>3. g[n + 1] = 0
  <2>1. n + 1 \in 1 .. n + 1 /\ (n + 1) - 1 = n
    OBVIOUS
  <2>2. g[n + 1] = i \div 2^n
    BY <2>1
  <2>3. 2^n \in Nat \ {0}
    <3>1. CASE n \in 0 .. 29
      BY <3>1, Powers
    <3>2. CASE n = 30
      <4>1. 2^n = 1073741824
        BY <3>2, SMT
      <4> QED
        BY <4>1, SMT
    <3> QED
      BY <3>1, <3>2
  <2> QED
    BY <2>2, <2>3
<1>4. g[1] = i
  <2>1. 1 \in 1 .. n + 1 /\ 2^(1 - 1) = 1
    OBVIOUS
  <2>2. g[1] = i \div 1
    BY <2>1
  <2> QED
    BY <2>2
<1>5. n \in Nat
  OBVIOUS
<1> HIDE DEF g, v
<1> QED
  BY <1>1, <1>2, <1>3, <1>4, <1>5, ToNatIs DEF v

(* A number written in n bits has n bits.                                  *)
LEMMA ToBitsIs ==
    ASSUME NEW n \in Nat, NEW i \in Nat, n <= 30
    PROVE  ToBits(i, n) \in Seq(BitValues) /\ Len(ToBits(i, n)) = n
<1>1. \A k \in 1 .. n : 2^(k - 1) \in Nat \ {0} /\ ~(k > 31)
  <2> SUFFICES ASSUME NEW k \in 1 .. n PROVE 2^(k - 1) \in Nat \ {0} /\ ~(k > 31)
    OBVIOUS
  <2>1. k - 1 \in 0 .. 29 /\ ~(k > 31)
    OBVIOUS
  <2> QED
    BY <2>1, Powers
<1>2. \A j \in Nat : \A p \in Nat \ {0} : (j \div p) % 2 \in BitValues
  BY DEF BitValues
<1>3. \A k \in 1 .. n : (IF k > 31 THEN 0 ELSE (i \div 2^(k - 1)) % 2) \in BitValues
  BY <1>1, <1>2
<1> QED
  BY <1>3 DEF ToBits

(* A number is read as it was written.                                     *)
LEMMA NumberRead ==
    ASSUME NEW d \in Seq(BitValues), NEW p \in Nat, NEW n \in 0 .. 30,
           NEW i \in Nat, i < 2^n, Has(d, p, ToBits(i, n))
    PROVE  UNat(d, p, n) = i
<1>1. ToBits(i, n) \in Seq(BitValues) /\ Len(ToBits(i, n)) = n /\ n \in Nat
  BY ToBitsIs
<1>2. p + n <= Len(d) /\ \A k \in 1 .. n : d[p + k] = ToBits(i, n)[k]
  BY <1>1 DEF Has
<1>3. SubSeq(d, p + 1, p + n) = ToBits(i, n)
  BY <1>1, <1>2, CutOut
<1>4. UBits(d, p, n) = ToBits(i, n)
  BY <1>2, <1>3 DEF UBits
<1> QED
  BY <1>4, NumberBack DEF UNat

(* So is a bit.                                                            *)
LEMMA BitIsRead ==
    ASSUME NEW d \in Seq(BitValues), NEW p \in Nat, NEW b \in BitValues, Has(d, p, <<b>>)
    PROVE  OneBit(d, p) = b
<1>1. <<b>> \in Seq(BitValues) /\ Len(<<b>>) = 1 /\ <<b>>[1] = b
  OBVIOUS
<1>2. p + 1 <= Len(d) /\ \A k \in 1 .. 1 : d[p + k] = <<b>>[k]
  BY <1>1 DEF Has
<1>3. SubSeq(d, p + 1, p + 1) = <<b>>
  BY <1>1, <1>2, CutOut
<1> QED
  BY <1>1, <1>2, <1>3 DEF OneBit, UBits

(* Behind the data a byte is zero (m_bOverflow is set, and 0 returned).    *)
LEMMA ZerosBehind ==
    ASSUME NEW d \in Seq(BitValues), NEW p \in Nat, p >= Len(d)
    PROVE  UNat(d, p, 8) = 0
<1>1. UBits(d, p, 8) = Zeros(8)
  <2>1. Len(d) \in Nat
    OBVIOUS
  <2>2. ~(p + 8 <= Len(d))
    BY <2>1
  <2> QED
    BY <2>2 DEF UBits
<1>2. PICK L \in Nat : L = 8
  OBVIOUS
<1> DEFINE v == Zeros(L)
           g == [k \in 1 .. L + 1 |-> 0]
<1>3. v = [k \in 1 .. L |-> 0]
  BY DEF Zeros
<1>4. Len(v) = L /\ g[L + 1] = 0 /\ g[1] = 0
  BY <1>3
<1>5. \A k \in 1 .. L : g[k] = v[k] + 2 * g[k + 1]
  BY <1>3
<1> HIDE DEF g, v
<1>6. ToNat(v) = g[1]
  BY <1>4, <1>5, ToNatIs
<1> QED
  BY <1>1, <1>2, <1>4, <1>6 DEF v, UNat

(* A flag is one bit, 1 if it holds.                                       *)
LEMMA FlagIs ==
    ASSUME NEW condition \in BOOLEAN
    PROVE  /\ Flag(condition) \in Seq(BitValues) /\ Len(Flag(condition)) = 1
           /\ \E b \in BitValues : Flag(condition) = <<b>> /\ (b = 1 <=> condition)
<1>1. CASE condition
  BY <1>1 DEF Flag, BitValues
<1>2. CASE ~condition
  BY <1>2 DEF Flag, BitValues
<1> QED
  BY <1>1, <1>2

(* Bits that are not there are zeros; those that are, are the same in data *)
(* that start with these.                                                  *)
LEMMA UBitsIs ==
    ASSUME NEW d \in Seq(BitValues), NEW p \in Nat, NEW n \in Nat
    PROVE  /\ UBits(d, p, n) \in Seq(BitValues) /\ Len(UBits(d, p, n)) = n
           /\ p + n > Len(d) => UBits(d, p, n) = Zeros(n)
           /\ p + n <= Len(d) => /\ UBits(d, p, n) = SubSeq(d, p + 1, p + n)
                                 /\ \A k \in 1 .. n : UBits(d, p, n)[k] = d[p + k]
<1>0. Len(d) \in Nat
  OBVIOUS
<1>1. CASE p + n <= Len(d)
  <2>1. UBits(d, p, n) = SubSeq(d, p + 1, p + n)
    BY <1>1 DEF UBits
  <2>2. \A i \in p + 1 .. p + n : i \in 1 .. Len(d)
    BY <1>0, <1>1
  <2>3. SubSeq(d, p + 1, p + n) \in Seq(BitValues) /\ Len(SubSeq(d, p + 1, p + n)) = n
    BY <1>0, <1>1, <2>2
  <2>4. \A k \in 1 .. n : SubSeq(d, p + 1, p + n)[k] = d[p + k]
    <3> TAKE k \in 1 .. n
    <3>1. SubSeq(d, p + 1, p + n)[k] = d[p + 1 + k - 1] /\ p + 1 + k - 1 = p + k
      BY <1>0, <1>1
    <3> QED
      BY <3>1
  <2>5. UBits(d, p, n) \in Seq(BitValues) /\ Len(UBits(d, p, n)) = n
    BY <2>1, <2>3
  <2>6. \A k \in 1 .. n : UBits(d, p, n)[k] = d[p + k]
    BY <2>1, <2>4
  <2>7. ~(p + n > Len(d))
    BY <1>0, <1>1
  <2> QED
    BY <2>1, <2>5, <2>6, <2>7
<1>2. CASE ~(p + n <= Len(d))
  <2>1. UBits(d, p, n) = Zeros(n)
    BY <1>2 DEF UBits
  <2>2. Zeros(n) \in Seq(BitValues) /\ Len(Zeros(n)) = n
    BY DEF Zeros, BitValues
  <2> QED
    BY <1>2, <2>1, <2>2
<1> QED
  BY <1>1, <1>2

(***************************************************************************)
(* Data that may end before a code does: bits behind the end are zeros     *)
(* (CBitRead), and what is shown of the data is the code up to their end.  *)
(***************************************************************************)

(* Bits that are there are the same in all data that go on with them.      *)
LEMMA SameBits ==
    ASSUME NEW d \in Seq(BitValues), NEW w \in Seq(BitValues), StartsWith(w, d),
           NEW p \in Nat, NEW n \in Nat, p + n <= Len(d)
    PROVE  UBits(w, p, n) = UBits(d, p, n)
<1>1. Len(d) \in Nat /\ Len(w) \in Nat /\ Len(d) <= Len(w)
  BY DEF StartsWith
<1>2. p + n <= Len(w)
  BY <1>1
<1>3. /\ UBits(w, p, n) \in Seq(BitValues) /\ Len(UBits(w, p, n)) = n
      /\ UBits(d, p, n) \in Seq(BitValues) /\ Len(UBits(d, p, n)) = n
  BY UBitsIs
<1>4. ASSUME NEW k \in 1 .. n PROVE UBits(w, p, n)[k] = UBits(d, p, n)[k]
  <2>1. UBits(w, p, n)[k] = w[p + k]
    BY <1>2, UBitsIs
  <2>2. UBits(d, p, n)[k] = d[p + k]
    BY UBitsIs
  <2>3. p + k \in 1 .. Len(d)
    BY <1>1
  <2> QED
    BY <2>1, <2>2, <2>3 DEF StartsWith
<1> QED
  BY <1>3, <1>4, SameElements

(* So is the number they are.                                              *)
LEMMA SameNat ==
    ASSUME NEW d \in Seq(BitValues), NEW w \in Seq(BitValues), StartsWith(w, d),
           NEW p \in Nat, NEW n \in Nat, p + n <= Len(d)
    PROVE  UNat(w, p, n) = UNat(d, p, n)
  BY SameBits DEF UNat

(* A bit is the one in the data, or 0 behind their end.                    *)
LEMMA OneBitIs ==
    ASSUME NEW d \in Seq(BitValues), NEW p \in Nat
    PROVE  /\ OneBit(d, p) \in BitValues
           /\ p + 1 > Len(d) => OneBit(d, p) = 0
           /\ p + 1 <= Len(d) => OneBit(d, p) = d[p + 1]
<1>1. UBits(d, p, 1) \in Seq(BitValues) /\ Len(UBits(d, p, 1)) = 1
  <2>1. 1 \in Nat
    OBVIOUS
  <2> QED
    BY <2>1, UBitsIs
<1>2. UBits(d, p, 1)[1] \in BitValues
  BY <1>1
<1>3. p + 1 > Len(d) => UBits(d, p, 1)[1] = 0
  <2>1. Zeros(1)[1] = 0
    BY DEF Zeros
  <2> QED
    BY <2>1, UBitsIs
<1>4. p + 1 <= Len(d) => UBits(d, p, 1)[1] = d[p + 1]
  <2>1. 1 \in 1 .. 1
    OBVIOUS
  <2> QED
    BY <2>1, UBitsIs
<1> QED
  BY <1>2, <1>3, <1>4 DEF OneBit

(* A bit that is there is the same in all data that go on with it.         *)
LEMMA SameBit ==
    ASSUME NEW d \in Seq(BitValues), NEW w \in Seq(BitValues), StartsWith(w, d),
           NEW p \in Nat, p + 1 <= Len(d)
    PROVE  OneBit(w, p) = OneBit(d, p)
  BY SameBits DEF OneBit

(* Bits are a number.                                                      *)
LEMMA ToNatTyped ==
    ASSUME NEW v \in Seq(BitValues)
    PROVE  ToNat(v) \in Nat
<1> DEFINE L == Len(v)
           Up(g, j) == \A k \in 1 .. L : k > L - j => g[k] = v[k] + 2 * g[k + 1]
           S == {j \in Nat : j <= L => \E g \in [1 .. L + 1 -> Nat] : g[L + 1] = 0 /\ Up(g, j)}
<1>0. L \in Nat /\ \A k \in 1 .. L : v[k] \in Nat
  <2>1. \A k \in 1 .. L : v[k] \in BitValues
    BY SeqMember
  <2> QED
    BY <2>1 DEF BitValues
<1> HIDE DEF L
<1>1. 0 \in S
  <2>1. [k \in 1 .. L + 1 |-> 0] \in [1 .. L + 1 -> Nat]
    OBVIOUS
  <2>2. [k \in 1 .. L + 1 |-> 0][L + 1] = 0 /\ Up([k \in 1 .. L + 1 |-> 0], 0)
    BY <1>0
  <2> QED
    BY <2>1, <2>2
<1>2. ASSUME NEW j \in Nat, j \in S PROVE j + 1 \in S
  <2> SUFFICES ASSUME j + 1 <= L
               PROVE  \E g \in [1 .. L + 1 -> Nat] : g[L + 1] = 0 /\ Up(g, j + 1)
    OBVIOUS
  <2>1. PICK g \in [1 .. L + 1 -> Nat] : g[L + 1] = 0 /\ Up(g, j)
    BY <1>0, <1>2
  <2>2. PICK m \in 1 .. L : m = L - j
    BY <1>0
  <2> DEFINE h == [g EXCEPT ![m] = v[m] + 2 * g[m + 1]]
  <2>3. m + 1 \in 1 .. L + 1 /\ m # L + 1 /\ v[m] + 2 * g[m + 1] \in Nat
    BY <1>0
  <2>4. h \in [1 .. L + 1 -> Nat] /\ h[L + 1] = 0
    BY <1>0, <2>1, <2>3
  <2>5. ASSUME NEW k \in 1 .. L, k > L - (j + 1) PROVE h[k] = v[k] + 2 * h[k + 1]
    <3>1. k + 1 \in 1 .. L + 1 /\ k + 1 # m
      BY <1>0, <2>2, <2>5
    <3>2. h[k + 1] = g[k + 1]
      BY <3>1
    <3>3. CASE k = m
      <4>1. h[m] = v[m] + 2 * g[m + 1]
        <5>1. m \in 1 .. L + 1 /\ DOMAIN g = 1 .. L + 1
          BY <1>0
        <5> QED
          BY <5>1
      <4> QED
        BY <3>2, <3>3, <4>1
    <3>4. CASE k # m
      <4>1. k > L - j /\ h[k] = g[k]
        BY <1>0, <2>2, <2>5, <3>4
      <4> QED
        BY <2>1, <3>2, <4>1
    <3> QED
      BY <3>3, <3>4
  <2> HIDE DEF h
  <2> QED
    BY <2>4, <2>5
<1>3. \A j \in Nat : j \in S
  <2> HIDE DEF S
  <2> QED
    BY <1>1, <1>2, NatSet
<1>4. PICK g \in [1 .. L + 1 -> Nat] : g[L + 1] = 0 /\ Up(g, L)
  <2>1. L \in S /\ L <= L
    <3> HIDE DEF S
    <3> QED
      BY <1>0, <1>3
  <2> QED
    BY <2>1
<1>5. \A k \in 1 .. L : g[k] = v[k] + 2 * g[k + 1]
  BY <1>0, <1>4
<1>6. g[1] \in Nat
  BY <1>0
<1>7. Len(v) = L
  BY DEF L
<1> HIDE DEF Up, S
<1>8. ToNat(v) = g[1]
  <2>1. g[L + 1] = 0
    BY <1>4
  <2>2. L \in Nat
    BY <1>0
  <2>3. \A u : Len(u) = L => \A f : f[L + 1] = 0 /\ (\A k \in 1 .. L : f[k] = u[k] + 2 * f[k + 1])
                   => ToNat(u) = f[1]
    <3>1. \A m \in Nat : \A u : Len(u) = m
             => \A f : f[m + 1] = 0 /\ (\A k \in 1 .. m : f[k] = u[k] + 2 * f[k + 1])
                      => ToNat(u) = f[1]
      BY ToNatIs
    <3> QED
      BY <2>2, <3>1
  <2>4. \A f : f[L + 1] = 0 /\ (\A k \in 1 .. L : f[k] = v[k] + 2 * f[k + 1]) => ToNat(v) = f[1]
    BY <1>7, <2>3, Zenon
  <2> QED
    BY <1>5, <2>1, <2>4, Zenon
<1> QED
  BY <1>6, <1>8

(* So is what is read.                                                     *)
LEMMA UNatTyped ==
    ASSUME NEW d \in Seq(BitValues), NEW p \in Nat, NEW n \in Nat
    PROVE  UNat(d, p, n) \in Nat
<1>1. UBits(d, p, n) \in Seq(BitValues)
  BY UBitsIs
<1> QED
  BY <1>1, ToNatTyped DEF UNat

(* Zeros are the number 0.                                                 *)
LEMMA ZerosAreNothing ==
    ASSUME NEW n \in Nat
    PROVE  ToNat(Zeros(n)) = 0
<1> DEFINE v == Zeros(n)
           g == [k \in 1 .. n + 1 |-> 0]
<1>3. v = [k \in 1 .. n |-> 0]
  BY DEF Zeros
<1>4. Len(v) = n /\ g[n + 1] = 0 /\ g[1] = 0
  BY <1>3
<1>5. \A k \in 1 .. n : g[k] = v[k] + 2 * g[k + 1]
  BY <1>3
<1> HIDE DEF g, v
<1>6. ToNat(v) = g[1]
  BY <1>4, <1>5, ToNatIs
<1> QED
  BY <1>4, <1>6 DEF v

(* What reaches behind the end of the data is read as 0.                   *)
LEMMA NothingBehind ==
    ASSUME NEW d \in Seq(BitValues), NEW p \in Nat, NEW n \in Nat, p + n > Len(d)
    PROVE  UNat(d, p, n) = 0
  BY UBitsIs, ZerosAreNothing DEF UNat

(* Two bits are at most 3.                                                 *)
LEMMA TwoBits ==
    ASSUME NEW d \in Seq(BitValues), NEW p \in Nat
    PROVE  UNat(d, p, 2) \in 0 .. 3
<1> DEFINE v == UBits(d, p, 2)
           g == [k \in 1 .. 3 |-> IF k = 3 THEN 0 ELSE IF k = 2 THEN v[2] ELSE v[1] + 2 * v[2]]
<1>1. v \in Seq(BitValues) /\ Len(v) = 2
  <2>1. 2 \in Nat
    OBVIOUS
  <2> QED
    BY <2>1, UBitsIs
<1> HIDE DEF v
<1>2. v[1] \in {0, 1} /\ v[2] \in {0, 1}
  <2>1. 1 \in 1 .. Len(v) /\ 2 \in 1 .. Len(v)
    BY <1>1
  <2> QED
    BY <1>1, <2>1, SeqMember DEF BitValues
<1>3. g[3] = 0 /\ g[2] = v[2] /\ g[1] = v[1] + 2 * v[2]
  OBVIOUS
<1> HIDE DEF g
<1>4. PICK L \in Nat : L = 2
  OBVIOUS
<1>5. \A k \in 1 .. L : g[k] = v[k] + 2 * g[k + 1]
  <2> TAKE k \in 1 .. L
  <2>1. k = 1 \/ k = 2
    BY <1>4
  <2>2. CASE k = 1
    BY <1>2, <1>3, <2>2
  <2>3. CASE k = 2
    <3>1. k + 1 = 3
      BY <2>3
    <3> QED
      BY <1>2, <1>3, <2>3, <3>1
  <2> QED
    BY <2>1, <2>2, <2>3
<1>6. g[L + 1] = 0 /\ Len(v) = L
  BY <1>1, <1>3, <1>4
<1>7. ToNat(v) = g[1]
  BY <1>5, <1>6, ToNatIs
<1> QED
  BY <1>2, <1>3, <1>7 DEF UNat, v

(* The data have that code behind the first p bits, as far as they go.     *)
Shows(d, p, code) == \A k \in 1 .. Len(code) : p + k <= Len(d) => d[p + k] = code[k]

(* A reader that began behind p bits is behind the code now, or behind the *)
(* data if they lack a part of it.                                         *)
ReadTo(at, d, p, code) ==
    /\ at \in Nat /\ at >= p
    /\ p + Len(code) <= Len(d) => at = p + Len(code)
    /\ p + Len(code) > Len(d) => at > Len(d)

(* A code that the data show, and that is within them, is there.           *)
LEMMA ShowsWhole ==
    ASSUME NEW d \in Seq(BitValues), NEW p \in Nat, NEW code \in Seq(BitValues),
           Shows(d, p, code), p + Len(code) <= Len(d)
    PROVE  Has(d, p, code)
<1>1. Len(d) \in Nat /\ Len(code) \in Nat
  OBVIOUS
<1>2. ASSUME NEW k \in 1 .. Len(code) PROVE d[p + k] = code[k]
  <2>1. p + k <= Len(d)
    BY <1>1
  <2> QED
    BY <2>1 DEF Shows
<1> QED
  BY <1>2 DEF Has

(* Data that show a joined code show its two pieces in a row.              *)
LEMMA ShowsJoined ==
    ASSUME NEW d \in Seq(BitValues), NEW p \in Nat,
           NEW s \in Seq(BitValues), NEW t \in Seq(BitValues), Shows(d, p, s \o t)
    PROVE  /\ Shows(d, p, s) /\ Shows(d, p + Len(s), t)
           /\ s \o t \in Seq(BitValues) /\ Len(s \o t) = Len(s) + Len(t)
           /\ Len(s) \in Nat /\ Len(t) \in Nat /\ p + Len(s) \in Nat
<1>1. /\ Len(s \o t) = Len(s) + Len(t) /\ s \o t \in Seq(BitValues)
      /\ \A k \in 1 .. Len(s) : (s \o t)[k] = s[k]
      /\ \A k \in 1 .. Len(t) : (s \o t)[Len(s) + k] = t[k]
  BY Joined
<1>2. Len(s) \in Nat /\ Len(t) \in Nat /\ Len(d) \in Nat
  OBVIOUS
<1>3. \A k \in 1 .. Len(s) + Len(t) : p + k <= Len(d) => d[p + k] = (s \o t)[k]
  BY <1>1 DEF Shows
<1>4. ASSUME NEW k \in 1 .. Len(s), p + k <= Len(d) PROVE d[p + k] = s[k]
  <2>1. k \in 1 .. Len(s) + Len(t)
    BY <1>2
  <2> QED
    BY <1>1, <1>3, <1>4, <2>1
<1>5. ASSUME NEW k \in 1 .. Len(t), p + Len(s) + k <= Len(d) PROVE d[p + Len(s) + k] = t[k]
  <2>1. Len(s) + k \in 1 .. Len(s) + Len(t) /\ p + (Len(s) + k) = p + Len(s) + k
    BY <1>2
  <2>2. d[p + (Len(s) + k)] = (s \o t)[Len(s) + k]
    BY <1>3, <1>5, <2>1
  <2> QED
    BY <1>1, <2>1, <2>2
<1> QED
  BY <1>1, <1>2, <1>4, <1>5 DEF Shows

(* Data that show a flattened code show each part behind the ones before   *)
(* it.                                                                     *)
LEMMA ShowsPart ==
    ASSUME NEW N, NEW F, Parts(F, N, BitValues), NEW d \in Seq(BitValues), NEW p \in Nat,
           Shows(d, p, Flat(F, N))
    PROVE  \A n \in 0 .. N : \A m \in 1 .. N : m = n + 1 =>
              /\ Shows(d, p + Len(Flat(F, n)), F[m])
              /\ Len(Flat(F, m)) = Len(Flat(F, n)) + Len(F[m])
              /\ Len(Flat(F, n)) \in Nat /\ Len(Flat(F, m)) \in Nat /\ Len(F[m]) \in Nat
              /\ Len(Flat(F, m)) <= Len(Flat(F, N)) /\ Len(Flat(F, N)) \in Nat
<1> SUFFICES ASSUME NEW n \in 0 .. N, NEW m \in 1 .. N, m = n + 1
             PROVE  /\ Shows(d, p + Len(Flat(F, n)), F[m])
                    /\ Len(Flat(F, m)) = Len(Flat(F, n)) + Len(F[m])
                    /\ Len(Flat(F, n)) \in Nat /\ Len(Flat(F, m)) \in Nat /\ Len(F[m]) \in Nat
                    /\ Len(Flat(F, m)) <= Len(Flat(F, N)) /\ Len(Flat(F, N)) \in Nat
  OBVIOUS
<1>1. /\ Len(Flat(F, n)) + Len(F[m]) <= Len(Flat(F, N))
      /\ \A k \in 1 .. Len(F[m]) : Flat(F, N)[Len(Flat(F, n)) + k] = F[m][k]
  BY FlatParts
<1>2. Len(Flat(F, m)) = Len(Flat(F, n)) + Len(F[m])
  BY FlatNext
<1>3. N \in Nat /\ N \in 0 .. N /\ m \in 0 .. N /\ F[m] \in Seq(BitValues)
  BY DEF Parts
<1>4. Flat(F, n) \in Seq(BitValues) /\ Flat(F, m) \in Seq(BitValues) /\ Flat(F, N) \in Seq(BitValues)
  BY <1>3, FlatTyped
<1>5. /\ Len(Flat(F, n)) \in Nat /\ Len(Flat(F, m)) \in Nat /\ Len(Flat(F, N)) \in Nat
      /\ Len(F[m]) \in Nat /\ Len(d) \in Nat
  BY <1>3, <1>4
<1>6. \A k \in 1 .. Len(Flat(F, N)) : p + k <= Len(d) => d[p + k] = Flat(F, N)[k]
  BY DEF Shows
<1> DEFINE l == Len(Flat(F, n))
           part == F[m]
           whole == Flat(F, N)
<1> HIDE DEF l, part, whole
<1>7. ASSUME NEW k \in 1 .. Len(part), p + l + k <= Len(d) PROVE d[p + l + k] = part[k]
  <2>1. l + k \in 1 .. Len(whole) /\ p + (l + k) = p + l + k
    BY <1>1, <1>5 DEF l, part, whole
  <2>2. d[p + (l + k)] = whole[l + k]
    BY <1>6, <1>7, <2>1 DEF whole
  <2>3. whole[l + k] = part[k]
    BY <1>1 DEF l, part, whole
  <2> QED
    BY <2>1, <2>2, <2>3
<1>8. Shows(d, p + l, part)
  BY <1>7 DEF Shows
<1>9. Len(Flat(F, m)) <= Len(Flat(F, N))
  BY <1>1, <1>2
<1> QED
  BY <1>2, <1>5, <1>8, <1>9 DEF l, part

(* Reading two codes in a row reads their join.                            *)
LEMMA ReadToBoth ==
    ASSUME NEW d \in Seq(BitValues), NEW p \in Nat, NEW s \in Seq(BitValues),
           NEW t \in Seq(BitValues), NEW a \in Nat, NEW b \in Nat, b >= a, ReadTo(a, d, p, s),
           p + Len(s) <= Len(d) => ReadTo(b, d, p + Len(s), t)
    PROVE  ReadTo(b, d, p, s \o t)
<1>1. Len(s \o t) = Len(s) + Len(t)
  BY Joined
<1>2. Len(s) \in Nat /\ Len(t) \in Nat /\ Len(d) \in Nat
  OBVIOUS
<1>3. CASE p + Len(s) <= Len(d)
  <2>1. a = p + Len(s)
    BY <1>3 DEF ReadTo
  <2>2. /\ p + Len(s) + Len(t) <= Len(d) => b = p + Len(s) + Len(t)
        /\ p + Len(s) + Len(t) > Len(d) => b > Len(d)
    BY <1>3 DEF ReadTo
  <2>3. b >= p
    BY <1>2, <2>1
  <2> QED
    BY <1>1, <1>2, <2>2, <2>3 DEF ReadTo
<1>4. CASE ~(p + Len(s) <= Len(d))
  <2>1. p + Len(s) > Len(d) /\ a > Len(d) /\ a >= p
    BY <1>2, <1>4 DEF ReadTo
  <2>2. b > Len(d) /\ b >= p /\ ~(p + (Len(s) + Len(t)) <= Len(d))
    BY <1>2, <2>1
  <2> QED
    BY <1>1, <2>2 DEF ReadTo
<1> QED
  BY <1>3, <1>4

(* Shown bits that are within the data are read.                           *)
LEMMA ShownBits ==
    ASSUME NEW d \in Seq(BitValues), NEW p \in Nat, NEW v \in Seq(BitValues),
           Shows(d, p, v), p + Len(v) <= Len(d)
    PROVE  UBits(d, p, Len(v)) = v
<1>1. Has(d, p, v)
  BY ShowsWhole
<1>2. SubSeq(d, p + 1, p + Len(v)) = v
  BY <1>1, CutOut DEF Has
<1> QED
  BY <1>2 DEF UBits

(* So is a shown bit.                                                      *)
LEMMA ShownBit ==
    ASSUME NEW d \in Seq(BitValues), NEW p \in Nat, NEW b \in BitValues, Shows(d, p, <<b>>),
           p + 1 <= Len(d)
    PROVE  OneBit(d, p) = b
<1>1. <<b>> \in Seq(BitValues) /\ Len(<<b>>) = 1
  OBVIOUS
<1> QED
  BY <1>1, ShowsWhole, BitIsRead

(* So is a shown number.                                                   *)
LEMMA ShownNumber ==
    ASSUME NEW d \in Seq(BitValues), NEW p \in Nat, NEW n \in 0 .. 30, NEW i \in Nat, i < 2^n,
           Shows(d, p, ToBits(i, n)), p + n <= Len(d)
    PROVE  UNat(d, p, n) = i
<1>1. ToBits(i, n) \in Seq(BitValues) /\ Len(ToBits(i, n)) = n
  BY ToBitsIs
<1> QED
  BY <1>1, ShowsWhole, NumberRead

(* A number in two parts, the low one first.                               *)
LEMMA NumberOfParts ==
    ASSUME NEW low \in 1 .. 16, NEW more \in 0 .. 30, NEW i \in Nat, i \div 2^low < 2^more
    PROVE  ToNat(ToBits(i, low) \o ToBits(i \div 2^low, more)) = i
<1> DEFINE h == i \div 2^low
           a == ToBits(i, low)
           b == ToBits(h, more)
           L == low + more
           ga == [k \in 1 .. low + 1 |-> i \div 2^(k - 1)]
           gb == [k \in 1 .. more + 1 |-> h \div 2^(k - 1)]
           g == [k \in 1 .. L + 1 |-> IF k <= low THEN ga[k] ELSE gb[k - low]]
<1>0. 2^low \in Nat \ {0} /\ h \in Nat
  <2>1. 2^low \in Nat \ {0}
    <3>1. low \in 0 .. 29
      OBVIOUS
    <3> QED
      BY <3>1, Powers
  <2> QED
    BY <2>1, Halves
<1>1. /\ a \in Seq(BitValues) /\ Len(a) = low /\ b \in Seq(BitValues) /\ Len(b) = more
      /\ low \in 0 .. 30 /\ low \in Nat /\ more \in Nat
  <2>1. low \in 0 .. 30
    OBVIOUS
  <2> HIDE DEF h
  <2> QED
    BY <1>0, <2>1, ToBitsIs
<1>2. \A k \in 1 .. low : a[k] = ga[k] % 2 /\ ga[k] \in Nat /\ ga[k + 1] = ga[k] \div 2
  <2> SUFFICES ASSUME NEW k \in 1 .. low
               PROVE  a[k] = ga[k] % 2 /\ ga[k] \in Nat /\ ga[k + 1] = ga[k] \div 2
    OBVIOUS
  <2>1. k - 1 \in 0 .. 29 /\ k \in 1 .. 30 /\ k = (k - 1) + 1
        /\ k \in 1 .. low + 1 /\ k + 1 \in 1 .. low + 1 /\ (k + 1) - 1 = k /\ ~(k > 31)
    OBVIOUS
  <2> DEFINE q == 2^(k - 1)
  <2>2. q \in Nat \ {0} /\ 2^k = 2 * q
    BY <2>1, Powers
  <2>3. ga[k] = i \div q /\ ga[k + 1] = i \div 2^k
    BY <2>1
  <2>4. a[k] = (i \div q) % 2
    BY <2>1 DEF ToBits
  <2> HIDE DEF q, ga, a
  <2> QED
    BY <2>2, <2>3, <2>4, Halves
<1>3. \A k \in 1 .. more : b[k] = gb[k] % 2 /\ gb[k] \in Nat /\ gb[k + 1] = gb[k] \div 2
  <2> SUFFICES ASSUME NEW k \in 1 .. more
               PROVE  b[k] = gb[k] % 2 /\ gb[k] \in Nat /\ gb[k + 1] = gb[k] \div 2
    OBVIOUS
  <2> HIDE DEF h
  <2>1. k - 1 \in 0 .. 29 /\ k \in 1 .. 30 /\ k = (k - 1) + 1
        /\ k \in 1 .. more + 1 /\ k + 1 \in 1 .. more + 1 /\ (k + 1) - 1 = k /\ ~(k > 31)
    OBVIOUS
  <2> DEFINE q == 2^(k - 1)
  <2>2. q \in Nat \ {0} /\ 2^k = 2 * q
    BY <2>1, Powers
  <2>3. gb[k] = h \div q /\ gb[k + 1] = h \div 2^k
    BY <2>1
  <2>4. b[k] = (h \div q) % 2
    BY <2>1 DEF ToBits
  <2>5. h \in Nat
    BY <1>0
  <2>6. h \div q \in Nat /\ h \div (2 * q) = (h \div q) \div 2
    BY <2>2, <2>5, Halves
  <2> HIDE DEF q, gb, b
  <2> QED
    BY <2>2, <2>3, <2>4, <2>6
<1>4. ga[low + 1] = h /\ gb[1] = h /\ ga[1] = i /\ gb[more + 1] = 0
  <2>1. low + 1 \in 1 .. low + 1 /\ (low + 1) - 1 = low /\ 1 \in 1 .. low + 1
    OBVIOUS
  <2>2. more + 1 \in 1 .. more + 1 /\ (more + 1) - 1 = more /\ 1 \in 1 .. more + 1
    OBVIOUS
  <2>3. 2^(1 - 1) = 1
    OBVIOUS
  <2>4. ga[low + 1] = h
    BY <2>1
  <2>5. ga[1] = i \div 1 /\ i \div 1 = i
    BY <2>1, <2>3
  <2> HIDE DEF h
  <2>6. gb[1] = h \div 1 /\ h \div 1 = h
    BY <1>0, <2>2, <2>3
  <2>7. gb[more + 1] = h \div 2^more
    BY <2>2
  <2>8. 2^more \in Nat \ {0}
    <3>1. CASE more \in 0 .. 29
      BY <3>1, Powers
    <3>2. CASE more = 30
      <4>1. 2^more = 1073741824
        BY <3>2, SMT
      <4> QED
        BY <4>1, SMT
    <3> QED
      BY <3>1, <3>2
  <2>9. h \div 2^more = 0
    <3>1. h < 2^more
      BY DEF h
    <3> QED
      BY <1>0, <2>8, <3>1
  <2> QED
    BY <2>4, <2>5, <2>6, <2>7, <2>9
<1>5. Len(a \o b) = L /\ (\A k \in 1 .. low : (a \o b)[k] = a[k])
      /\ \A k \in 1 .. more : (a \o b)[low + k] = b[k]
  <2> HIDE DEF a, b
  <2> QED
    BY <1>1, Joined
<1>6. ASSUME NEW k \in 1 .. L PROVE g[k] = (a \o b)[k] + 2 * g[k + 1]
  <2> HIDE DEF a, b, ga, gb, h
  <2>1. CASE k < low
    <3>1. k \in 1 .. low /\ k \in 1 .. L + 1 /\ k + 1 \in 1 .. L + 1 /\ k + 1 <= low
      BY <1>1, <2>1
    <3>2. g[k] = ga[k] /\ g[k + 1] = ga[k + 1] /\ (a \o b)[k] = a[k]
      BY <1>5, <3>1
    <3> QED
      BY <1>2, <3>1, <3>2, Halves
  <2>2. CASE k = low
    <3>1. k \in 1 .. low /\ k \in 1 .. L + 1 /\ k + 1 \in 1 .. L + 1 /\ ~(k + 1 <= low)
          /\ k + 1 - low = 1
      BY <1>1, <2>2
    <3>2. g[k] = ga[k]
      BY <2>2, <3>1
    <3>3. g[k + 1] = gb[k + 1 - low]
      BY <3>1
    <3>4. g[k + 1] = h
      BY <1>4, <3>1, <3>3
    <3>5. (a \o b)[k] = a[k]
      BY <1>5, <3>1
    <3>6. ga[k + 1] = h
      BY <1>4, <2>2
    <3>7. a[k] = ga[k] % 2 /\ ga[k] \in Nat /\ ga[k + 1] = ga[k] \div 2
      BY <1>2, <3>1
    <3> HIDE DEF g
    <3> QED
      BY <3>2, <3>4, <3>5, <3>6, <3>7, Halves
  <2>3. CASE k > low
    <3>1. PICK j \in 1 .. more : k = low + j
      BY <1>1, <2>3
    <3>2. k \in 1 .. L + 1 /\ k + 1 \in 1 .. L + 1 /\ ~(k <= low) /\ ~(k + 1 <= low)
          /\ k - low = j /\ k + 1 - low = j + 1
      BY <1>1, <2>3, <3>1
    <3>3. g[k] = gb[k - low] /\ g[k + 1] = gb[k + 1 - low]
      BY <3>2
    <3>4. (a \o b)[k] = b[j]
      BY <1>5, <3>1
    <3>5. b[j] = gb[j] % 2 /\ gb[j] \in Nat /\ gb[j + 1] = gb[j] \div 2
      BY <1>3
    <3> HIDE DEF g
    <3>6. g[k] = gb[j] /\ g[k + 1] = gb[j + 1]
      BY <3>2, <3>3, Zenon
    <3> QED
      BY <3>4, <3>5, <3>6, Halves
  <2> QED
    BY <1>1, <2>1, <2>2, <2>3
<1>7. g[L + 1] = 0 /\ g[1] = i
  <2> HIDE DEF ga, gb, h
  <2>1. L + 1 \in 1 .. L + 1 /\ ~(L + 1 <= low) /\ L + 1 - low = more + 1
        /\ 1 \in 1 .. L + 1 /\ 1 <= low
    BY <1>1
  <2> QED
    BY <1>4, <2>1
<1>8. L \in Nat
  BY <1>1
<1> HIDE DEF g, L
<1>9. ToNat(a \o b) = g[1]
  <2> DEFINE v == a \o b
  <2>1. Len(v) = L /\ \A k \in 1 .. L : g[k] = v[k] + 2 * g[k + 1]
    BY <1>5, <1>6
  <2> HIDE DEF v
  <2>2. ToNat(v) = g[1]
    BY <1>7, <1>8, <2>1, ToNatIs
  <2> QED
    BY <2>2 DEF v
<1> QED
  BY <1>7, <1>9

(***************************************************************************)
(* Numbers of several sizes: ReadUBitVar and ReadFieldIndex.               *)
(***************************************************************************)

MaxDistance == 10000
MaxSkipped == 4095

(* The length of two joined rows of bits.                                  *)
LEMMA JoinedBits ==
    ASSUME NEW s \in Seq(BitValues), NEW t \in Seq(BitValues)
    PROVE  s \o t \in Seq(BitValues) /\ Len(s \o t) = Len(s) + Len(t)
  BY Joined

(* A set with one more element has one more.                               *)
LEMMA OneMore ==
    ASSUME NEW S, NEW x, x \notin S, IsFiniteSet(S), NEW n \in Nat, Cardinality(S) = n
    PROVE  IsFiniteSet(S \cup {x}) /\ Cardinality(S \cup {x}) = n + 1
  BY FS_AddElement

(* How many of three ascending limits a number reaches.                    *)
LEMMA Sizes ==
    ASSUME NEW a \in Nat, NEW b \in Nat, NEW c \in Nat, a < b, b < c, NEW i \in Nat
    PROVE  Cardinality({x \in {a, b, c} : i >= x})
              = IF i < a THEN 0 ELSE IF i < b THEN 1 ELSE IF i < c THEN 2 ELSE 3
<1> DEFINE S == {x \in {a, b, c} : i >= x}
           one == {a}
           two == one \cup {b}
           three == two \cup {c}
<1>0. IsFiniteSet({}) /\ Cardinality({}) = 0
  BY FS_EmptySet
<1>1. IsFiniteSet(one) /\ Cardinality(one) = 1
  BY FS_Singleton
<1>2. b \notin one /\ c \notin two /\ 1 + 1 = 2 /\ 2 + 1 = 3 /\ 1 \in Nat /\ 2 \in Nat
  OBVIOUS
<1>3. one \cup {b} = two /\ two \cup {c} = three
  OBVIOUS
<1> HIDE DEF one, two, three
<1>4. IsFiniteSet(two) /\ Cardinality(two) = 2
  <2>1. IsFiniteSet(one \cup {b}) /\ Cardinality(one \cup {b}) = 1 + 1
    BY <1>1, <1>2, OneMore
  <2> QED
    BY <1>2, <1>3, <2>1
<1>5. Cardinality(three) = 3
  <2>1. Cardinality(two \cup {c}) = 2 + 1
    BY <1>2, <1>4, OneMore
  <2> QED
    BY <1>2, <1>3, <2>1
<1>6. CASE i < a
  <2>1. S = {}
    BY <1>6
  <2> QED
    BY <1>0, <1>6, <2>1
<1>7. CASE i >= a /\ i < b
  <2>1. S = one
    BY <1>7 DEF one
  <2> HIDE DEF S
  <2>2. Cardinality(S) = 1 /\ ~(i < a) /\ i < b
    BY <1>1, <1>7, <2>1
  <2> QED
    BY <2>2 DEF S
<1>8. CASE i >= b /\ i < c
  <2>1. S = two
    BY <1>8 DEF one, two
  <2> HIDE DEF S
  <2>2. Cardinality(S) = 2 /\ ~(i < a) /\ ~(i < b) /\ i < c
    BY <1>4, <1>8, <2>1
  <2> QED
    BY <2>2 DEF S
<1>9. CASE i >= c
  <2>1. S = three
    BY <1>9 DEF one, two, three
  <2> HIDE DEF S
  <2>2. Cardinality(S) = 3 /\ ~(i < a) /\ ~(i < b) /\ ~(i < c)
    BY <1>5, <1>9, <2>1
  <2> QED
    BY <2>2 DEF S
<1> QED
  BY <1>6, <1>7, <1>8, <1>9

(* Low bits, two that tell how many more there are, and those.             *)
Fits(i, low, m) == i \div 2^low < 2^m
SizedBits(i, low, s, m) == (ToBits(i, low) \o ToBits(s, 2)) \o ToBits(i \div 2^low, m)

(* A number in a low part, two bits of size and the rest is read as it was *)
(* written, whatever the size.                                             *)
LEMMA SizedRead ==
    ASSUME NEW d \in Seq(BitValues), NEW p \in Nat, NEW low \in 1 .. 16, NEW s \in 0 .. 3,
           NEW m \in 0 .. 28, NEW i \in Nat, Fits(i, low, m),
           Shows(d, p, SizedBits(i, low, s, m))
    PROVE  /\ SizedBits(i, low, s, m) \in Seq(BitValues)
           /\ Len(SizedBits(i, low, s, m)) = low + 2 + m
           /\ p + low + 2 <= Len(d) => UNat(d, p + low, 2) = s
           /\ p + Len(SizedBits(i, low, s, m)) <= Len(d) =>
                 ToNat(UBits(d, p, low) \o UBits(d, p + low + 2, m)) = i
<1>0. PICK h \in Nat : h = i \div 2^low
  <2>1. low \in 0 .. 29
    OBVIOUS
  <2>2. 2^low \in Nat \ {0}
    BY <2>1, Powers
  <2> QED
    BY <2>2, Halves
<1> DEFINE lo == ToBits(i, low)
           si == ToBits(s, 2)
           hi == ToBits(h, m)
           first == lo \o si
           code == first \o hi
<1>1. code = SizedBits(i, low, s, m)
  BY <1>0 DEF SizedBits
<1>2. lo \in Seq(BitValues) /\ Len(lo) = low
  BY ToBitsIs
<1>3. si \in Seq(BitValues) /\ Len(si) = 2
  <2>1. s \in Nat /\ 2 \in Nat /\ 2 <= 30
    OBVIOUS
  <2> QED
    BY <2>1, ToBitsIs
<1>4. hi \in Seq(BitValues) /\ Len(hi) = m
  BY ToBitsIs
<1> HIDE DEF lo, si, hi
<1>5. first \in Seq(BitValues) /\ Len(first) = low + 2
  <2>1. first \in Seq(BitValues) /\ Len(first) = Len(lo) + Len(si)
    BY <1>2, <1>3, JoinedBits
  <2> HIDE DEF first
  <2> QED
    BY <1>2, <1>3, <2>1
<1> HIDE DEF first
<1>6. code \in Seq(BitValues) /\ Len(code) = low + 2 + m
  <2>1. code \in Seq(BitValues) /\ Len(code) = Len(first) + Len(hi)
    BY <1>4, <1>5, JoinedBits
  <2> HIDE DEF code
  <2> QED
    BY <1>4, <1>5, <2>1
<1>7. Shows(d, p, first) /\ Shows(d, p + Len(first), hi)
  <2>1. Shows(d, p, first \o hi)
    BY <1>1
  <2> QED
    BY <1>4, <1>5, <2>1, ShowsJoined
<1>8. Shows(d, p, lo) /\ Shows(d, p + low, si)
  BY <1>2, <1>3, <1>7, ShowsJoined DEF first
<1> HIDE DEF code
<1>9. Len(d) \in Nat /\ p + low \in Nat /\ p + low + 2 \in Nat /\ p + Len(first) = p + low + 2
  BY <1>5
<1>10. ASSUME p + low + 2 <= Len(d) PROVE UNat(d, p + low, 2) = s
  <2>1. 2 \in 0 .. 30 /\ s \in Nat /\ s < 2^2
    OBVIOUS
  <2> QED
    BY <1>8, <1>9, <1>10, <2>1, ShownNumber DEF si
<1>11. ASSUME p + Len(code) <= Len(d)
       PROVE  ToNat(UBits(d, p, low) \o UBits(d, p + low + 2, m)) = i
  <2>1. UBits(d, p, low) = lo
    <3>1. p + Len(lo) <= Len(d)
      BY <1>2, <1>6, <1>9, <1>11
    <3> QED
      BY <1>2, <1>8, <3>1, ShownBits
  <2>2. UBits(d, p + low + 2, m) = hi
    <3>1. (p + low + 2) + Len(hi) <= Len(d)
      BY <1>4, <1>6, <1>9, <1>11
    <3>2. Shows(d, p + low + 2, hi)
      BY <1>7, <1>9
    <3> QED
      BY <1>4, <1>9, <3>1, <3>2, ShownBits
  <2>3. ToNat(lo \o hi) = i
    <3>1. m \in 0 .. 30
      OBVIOUS
    <3> QED
      BY <1>0, <3>1, NumberOfParts DEF lo, hi, Fits
  <2> QED
    BY <2>1, <2>2, <2>3
<1> QED
  BY <1>1, <1>6, <1>10, <1>11

UBitVarParts(i, s, m) ==
    /\ UBitVarCode(i) = SizedBits(i, 4, s, m)
    /\ m = UBitVarMore(s) /\ Fits(i, 4, m) /\ i >= <<0, 16, 256, 4096>>[1 + s]

(* Every distance has a size that fits it, in the code of ReadUBitVar.     *)
LEMMA UBitVarCodeIs ==
    ASSUME NEW i \in Nat, i <= MaxDistance
    PROVE  \E s \in 0 .. 3, m \in 0 .. 28 : UBitVarParts(i, s, m)
<1> DEFINE size == Cardinality({b \in {16, 256, 4096} : i >= b})
<1>1. UBitVarCode(i) = (ToBits(i, 4) \o ToBits(size, 2))
                            \o ToBits(i \div 2^4, <<0, 4, 8, 28>>[size + 1])
  BY DEF UBitVarCode, Sized
<1>2. size = IF i < 16 THEN 0 ELSE IF i < 256 THEN 1 ELSE IF i < 4096 THEN 2 ELSE 3
  <2>1. 16 \in Nat /\ 256 \in Nat /\ 4096 \in Nat /\ 16 < 256 /\ 256 < 4096 /\ i \in Nat
    OBVIOUS
  <2> QED
    BY <2>1, Sizes
<1> HIDE DEF size
<1>3. PICK s, m : s = size /\ m = <<0, 4, 8, 28>>[size + 1]
  OBVIOUS
<1>4. UBitVarCode(i) = SizedBits(i, 4, s, m)
  BY <1>1, <1>3 DEF SizedBits
<1>5. 2^4 = 16
  OBVIOUS
<1> DEFINE Good == /\ s \in 0 .. 3 /\ m \in 0 .. 28 /\ m = UBitVarMore(s) /\ i \div 2^4 < 2^m
                   /\ i >= <<0, 16, 256, 4096>>[1 + s]
<1>6. ASSUME i < 16 PROVE Good
  <2>1. s = 0 /\ m = 0
    BY <1>2, <1>3, <1>6
  <2>2. 2^m = 1
    BY <2>1, SMT
  <2>3. i \div 2^4 < 2^m
    BY <1>5, <1>6, <2>2 DEF MaxDistance
  <2>4. m = UBitVarMore(s)
    BY <2>1 DEF UBitVarMore
  <2>5. i >= <<0, 16, 256, 4096>>[1 + s]
    BY <1>6, <2>1
  <2> QED
    BY <2>1, <2>3, <2>4, <2>5
<1>7. ASSUME i >= 16 /\ i < 256 PROVE Good
  <2>1. s = 1 /\ m = 4
    BY <1>2, <1>3, <1>7
  <2>2. 2^m = 16
    BY <2>1, SMT
  <2>3. i \div 2^4 < 2^m
    BY <1>5, <1>7, <2>2 DEF MaxDistance
  <2>4. m = UBitVarMore(s)
    BY <2>1 DEF UBitVarMore
  <2>5. i >= <<0, 16, 256, 4096>>[1 + s]
    BY <1>7, <2>1
  <2> QED
    BY <2>1, <2>3, <2>4, <2>5
<1>8. ASSUME i >= 256 /\ i < 4096 PROVE Good
  <2>1. s = 2 /\ m = 8
    BY <1>2, <1>3, <1>8
  <2>2. 2^m = 256
    BY <2>1, SMT
  <2>3. i \div 2^4 < 2^m
    BY <1>5, <1>8, <2>2 DEF MaxDistance
  <2>4. m = UBitVarMore(s)
    BY <2>1 DEF UBitVarMore
  <2>5. i >= <<0, 16, 256, 4096>>[1 + s]
    BY <1>8, <2>1
  <2> QED
    BY <2>1, <2>3, <2>4, <2>5
<1>9. ASSUME i >= 4096 PROVE Good
  <2>1. s = 3 /\ m = 28
    BY <1>2, <1>3, <1>9
  <2>2. 2^m = 268435456
    BY <2>1, SMT
  <2>3. i \div 2^4 < 2^m
    BY <1>5, <1>9, <2>2 DEF MaxDistance
  <2>4. m = UBitVarMore(s)
    BY <2>1 DEF UBitVarMore
  <2>5. i >= <<0, 16, 256, 4096>>[1 + s]
    BY <1>9, <2>1
  <2> QED
    BY <2>1, <2>3, <2>4, <2>5
<1>10. Good
  <2> HIDE DEF Good
  <2> QED
    BY <1>6, <1>7, <1>8, <1>9
<1>11. UBitVarParts(i, s, m)
  BY <1>4, <1>10 DEF UBitVarParts, Fits
<1> QED
  BY <1>10, <1>11

(* ReadUBitVar goes on by at least six bits.                               *)
LEMMA UBitVarTyped ==
    ASSUME NEW d \in Seq(BitValues), NEW p \in Nat
    PROVE  /\ ReadUBitVar(d, p).at \in Nat /\ ReadUBitVar(d, p).at >= p + 6
           /\ ReadUBitVar(d, p).v \in Nat
<1> DEFINE s == UNat(d, p + 4, 2)
           m == UBitVarMore(s)
<1>1. p + 4 \in Nat /\ p + 6 \in Nat
  OBVIOUS
<1>2. s \in 0 .. 3
  BY <1>1, TwoBits
<1>3. m \in Nat
  <2> HIDE DEF s
  <2> QED
    BY <1>2 DEF UBitVarMore
<1>4. ReadUBitVar(d, p) = Result(ToNat(UBits(d, p, 4) \o UBits(d, p + 6, m)), p + 6 + m)
  BY DEF ReadUBitVar
<1> HIDE DEF m
<1>5. UBits(d, p, 4) \o UBits(d, p + 6, m) \in Seq(BitValues)
  <2>1. UBits(d, p, 4) \in Seq(BitValues) /\ UBits(d, p + 6, m) \in Seq(BitValues)
    BY <1>1, <1>3, UBitsIs
  <2> QED
    BY <2>1
<1>6. ToNat(UBits(d, p, 4) \o UBits(d, p + 6, m)) \in Nat
  BY <1>5, ToNatTyped
<1> QED
  BY <1>3, <1>4, <1>6 DEF Result

(* The distance of an entity number from the last one is read as written. *)
LEMMA UBitVarRead ==
    ASSUME NEW d \in Seq(BitValues), NEW p \in Nat, NEW i \in Nat, i <= MaxDistance,
           Shows(d, p, UBitVarCode(i))
    PROVE  /\ UBitVarCode(i) \in Seq(BitValues)
           /\ ReadTo(ReadUBitVar(d, p).at, d, p, UBitVarCode(i))
           /\ p + Len(UBitVarCode(i)) <= Len(d) => ReadUBitVar(d, p).v = i /\ UBitVarAsserted(d, p)
<1>0. PICK s \in 0 .. 3, m \in 0 .. 28 : UBitVarParts(i, s, m)
  BY UBitVarCodeIs
<1>1. /\ UBitVarCode(i) = SizedBits(i, 4, s, m)
      /\ m = UBitVarMore(s) /\ Fits(i, 4, m) /\ i >= <<0, 16, 256, 4096>>[1 + s]
  BY <1>0 DEF UBitVarParts
<1>2. PICK low \in 1 .. 16 : low = 4
  OBVIOUS
<1> DEFINE code == SizedBits(i, low, s, m)
           r == ReadUBitVar(d, p)
<1>3. UBitVarCode(i) = code
  BY <1>1, <1>2
<1>4. /\ code \in Seq(BitValues) /\ Len(code) = low + 2 + m
      /\ p + low + 2 <= Len(d) => UNat(d, p + low, 2) = s
      /\ p + Len(code) <= Len(d) => ToNat(UBits(d, p, low) \o UBits(d, p + low + 2, m)) = i
  <2>1. Shows(d, p, SizedBits(i, low, s, m))
    BY <1>3
  <2>2. Fits(i, low, m)
    BY <1>1, <1>2
  <2> HIDE DEF r
  <2> QED
    BY <2>1, <2>2, SizedRead, ZenonT(30)
<1> HIDE DEF code, r
<1>5. p + low = p + 4 /\ p + low + 2 = p + 6 /\ Len(d) \in Nat /\ m \in Nat
  BY <1>2
<1>6. r.at \in Nat /\ r.at >= p + 6
  BY UBitVarTyped DEF r
<1>7. CASE p + 6 <= Len(d)
  <2>1. UNat(d, p + 4, 2) = s
    BY <1>4, <1>5, <1>7
  <2>2. r = Result(ToNat(UBits(d, p, 4) \o UBits(d, p + 6, m)), p + 6 + m)
    <3>1. m = UBitVarMore(UNat(d, p + 4, 2))
      BY <1>1, <2>1
    <3>2. ReadUBitVar(d, p) = Result(ToNat(UBits(d, p, 4) \o UBits(d, p + 6, UBitVarMore(UNat(d, p + 4, 2)))),
                          p + 6 + UBitVarMore(UNat(d, p + 4, 2)))
      BY DEF ReadUBitVar
    <3> QED
      BY <3>1, <3>2 DEF r
  <2>3. r.at = p + Len(code)
    BY <1>2, <1>4, <2>2 DEF Result
  <2>4. ReadTo(r.at, d, p, code)
    <3>1. r.at >= p /\ (p + Len(code) > Len(d) => r.at > Len(d))
      BY <1>5, <1>6, <2>3
    <3> QED
      BY <1>6, <2>3, <3>1 DEF ReadTo
  <2>5. ASSUME p + Len(code) <= Len(d) PROVE r.v = i /\ UBitVarAsserted(d, p)
    <3>1. ToNat(UBits(d, p, 4) \o UBits(d, p + 6, m)) = i
      BY <1>2, <1>4, <1>5, <2>5
    <3>2. r.v = i
      BY <2>2, <3>1 DEF Result
    <3> QED
      BY <1>1, <2>1, <3>2 DEF UBitVarAsserted, r
  <2> QED
    BY <1>3, <1>4, <2>4, <2>5 DEF r
<1>8. CASE p + 6 > Len(d)
  <2>1. p + Len(code) > Len(d) /\ r.at > Len(d) /\ ~(p + Len(code) <= Len(d)) /\ r.at >= p
    BY <1>2, <1>4, <1>5, <1>6, <1>8
  <2> QED
    BY <1>3, <1>4, <1>6, <2>1 DEF ReadTo, r
<1> QED
  BY <1>5, <1>7, <1>8

SkippedParts(i, s, m) ==
    /\ SkippedCode(i) = SizedBits(i, 5, s, m)
    /\ m = FieldIndexMore(s) /\ Fits(i, 5, m) /\ i >= <<0, 32, 128, 512>>[1 + s]

(* Every number of skipped indices has a size that fits it, in the code of *)
(* ReadFieldIndex.                                                         *)
LEMMA SkippedCodeIs ==
    ASSUME NEW i \in Nat, i <= MaxSkipped
    PROVE  \E s \in 0 .. 3, m \in 0 .. 28 : SkippedParts(i, s, m)
<1> DEFINE size == Cardinality({b \in {32, 128, 512} : i >= b})
<1>1. SkippedCode(i) = (ToBits(i, 5) \o ToBits(size, 2))
                            \o ToBits(i \div 2^5, <<0, 2, 4, 7>>[size + 1])
  BY DEF SkippedCode, Sized
<1>2. size = IF i < 32 THEN 0 ELSE IF i < 128 THEN 1 ELSE IF i < 512 THEN 2 ELSE 3
  <2>1. 32 \in Nat /\ 128 \in Nat /\ 512 \in Nat /\ 32 < 128 /\ 128 < 512 /\ i \in Nat
    OBVIOUS
  <2> QED
    BY <2>1, Sizes
<1> HIDE DEF size
<1>3. PICK s, m : s = size /\ m = <<0, 2, 4, 7>>[size + 1]
  OBVIOUS
<1>4. SkippedCode(i) = SizedBits(i, 5, s, m)
  BY <1>1, <1>3 DEF SizedBits
<1>5. 2^5 = 32
  OBVIOUS
<1> DEFINE Good == /\ s \in 0 .. 3 /\ m \in 0 .. 28 /\ m = FieldIndexMore(s) /\ i \div 2^5 < 2^m
                   /\ i >= <<0, 32, 128, 512>>[1 + s]
<1>6. ASSUME i < 32 PROVE Good
  <2>1. s = 0 /\ m = 0
    BY <1>2, <1>3, <1>6
  <2>2. 2^m = 1
    BY <2>1, SMT
  <2>3. i \div 2^5 < 2^m
    BY <1>5, <1>6, <2>2 DEF MaxSkipped
  <2>4. m = FieldIndexMore(s)
    BY <2>1 DEF FieldIndexMore
  <2>5. i >= <<0, 32, 128, 512>>[1 + s]
    BY <1>6, <2>1
  <2> QED
    BY <2>1, <2>3, <2>4, <2>5
<1>7. ASSUME i >= 32 /\ i < 128 PROVE Good
  <2>1. s = 1 /\ m = 2
    BY <1>2, <1>3, <1>7
  <2>2. 2^m = 4
    BY <2>1, SMT
  <2>3. i \div 2^5 < 2^m
    BY <1>5, <1>7, <2>2 DEF MaxSkipped
  <2>4. m = FieldIndexMore(s)
    BY <2>1 DEF FieldIndexMore
  <2>5. i >= <<0, 32, 128, 512>>[1 + s]
    BY <1>7, <2>1
  <2> QED
    BY <2>1, <2>3, <2>4, <2>5
<1>8. ASSUME i >= 128 /\ i < 512 PROVE Good
  <2>1. s = 2 /\ m = 4
    BY <1>2, <1>3, <1>8
  <2>2. 2^m = 16
    BY <2>1, SMT
  <2>3. i \div 2^5 < 2^m
    BY <1>5, <1>8, <2>2 DEF MaxSkipped
  <2>4. m = FieldIndexMore(s)
    BY <2>1 DEF FieldIndexMore
  <2>5. i >= <<0, 32, 128, 512>>[1 + s]
    BY <1>8, <2>1
  <2> QED
    BY <2>1, <2>3, <2>4, <2>5
<1>9. ASSUME i >= 512 PROVE Good
  <2>1. s = 3 /\ m = 7
    BY <1>2, <1>3, <1>9
  <2>2. 2^m = 128
    BY <2>1, SMT
  <2>3. i \div 2^5 < 2^m
    BY <1>5, <1>9, <2>2 DEF MaxSkipped
  <2>4. m = FieldIndexMore(s)
    BY <2>1 DEF FieldIndexMore
  <2>5. i >= <<0, 32, 128, 512>>[1 + s]
    BY <1>9, <2>1
  <2> QED
    BY <2>1, <2>3, <2>4, <2>5
<1>10. Good
  <2> HIDE DEF Good
  <2> QED
    BY <1>6, <1>7, <1>8, <1>9
<1>11. SkippedParts(i, s, m)
  BY <1>4, <1>10 DEF SkippedParts, Fits
<1> QED
  BY <1>10, <1>11

(* ReadFieldIndex goes on by at least seven bits.                          *)
LEMMA SkippedTyped ==
    ASSUME NEW d \in Seq(BitValues), NEW p \in Nat
    PROVE  /\ ReadSkipped(d, p).at \in Nat /\ ReadSkipped(d, p).at >= p + 7
           /\ ReadSkipped(d, p).v \in Nat
<1> DEFINE s == UNat(d, p + 5, 2)
           m == FieldIndexMore(s)
<1>1. p + 5 \in Nat /\ p + 7 \in Nat
  OBVIOUS
<1>2. s \in 0 .. 3
  BY <1>1, TwoBits
<1>3. m \in Nat
  <2> HIDE DEF s
  <2> QED
    BY <1>2 DEF FieldIndexMore
<1>4. ReadSkipped(d, p) = Result(ToNat(UBits(d, p, 5) \o UBits(d, p + 7, m)), p + 7 + m)
  BY DEF ReadSkipped
<1> HIDE DEF m
<1>5. UBits(d, p, 5) \o UBits(d, p + 7, m) \in Seq(BitValues)
  <2>1. UBits(d, p, 5) \in Seq(BitValues) /\ UBits(d, p + 7, m) \in Seq(BitValues)
    BY <1>1, <1>3, UBitsIs
  <2> QED
    BY <2>1
<1>6. ToNat(UBits(d, p, 5) \o UBits(d, p + 7, m)) \in Nat
  BY <1>5, ToNatTyped
<1> QED
  BY <1>3, <1>4, <1>6 DEF Result

(* How many indices are skipped is read as written. *)
LEMMA SkippedRead ==
    ASSUME NEW d \in Seq(BitValues), NEW p \in Nat, NEW i \in Nat, i <= MaxSkipped,
           Shows(d, p, SkippedCode(i))
    PROVE  /\ SkippedCode(i) \in Seq(BitValues)
           /\ ReadTo(ReadSkipped(d, p).at, d, p, SkippedCode(i))
           /\ p + Len(SkippedCode(i)) <= Len(d) => ReadSkipped(d, p).v = i /\ SkippedAsserted(d, p)
<1>0. PICK s \in 0 .. 3, m \in 0 .. 28 : SkippedParts(i, s, m)
  BY SkippedCodeIs
<1>1. /\ SkippedCode(i) = SizedBits(i, 5, s, m)
      /\ m = FieldIndexMore(s) /\ Fits(i, 5, m) /\ i >= <<0, 32, 128, 512>>[1 + s]
  BY <1>0 DEF SkippedParts
<1>2. PICK low \in 1 .. 16 : low = 5
  OBVIOUS
<1> DEFINE code == SizedBits(i, low, s, m)
           r == ReadSkipped(d, p)
<1>3. SkippedCode(i) = code
  BY <1>1, <1>2
<1>4. /\ code \in Seq(BitValues) /\ Len(code) = low + 2 + m
      /\ p + low + 2 <= Len(d) => UNat(d, p + low, 2) = s
      /\ p + Len(code) <= Len(d) => ToNat(UBits(d, p, low) \o UBits(d, p + low + 2, m)) = i
  <2>1. Shows(d, p, SizedBits(i, low, s, m))
    BY <1>3
  <2>2. Fits(i, low, m)
    BY <1>1, <1>2
  <2> HIDE DEF r
  <2> QED
    BY <2>1, <2>2, SizedRead, ZenonT(30)
<1> HIDE DEF code, r
<1>5. p + low = p + 5 /\ p + low + 2 = p + 7 /\ Len(d) \in Nat /\ m \in Nat
  BY <1>2
<1>6. r.at \in Nat /\ r.at >= p + 7
  BY SkippedTyped DEF r
<1>7. CASE p + 7 <= Len(d)
  <2>1. UNat(d, p + 5, 2) = s
    BY <1>4, <1>5, <1>7
  <2>2. r = Result(ToNat(UBits(d, p, 5) \o UBits(d, p + 7, m)), p + 7 + m)
    <3>1. m = FieldIndexMore(UNat(d, p + 5, 2))
      BY <1>1, <2>1
    <3>2. ReadSkipped(d, p) = Result(ToNat(UBits(d, p, 5) \o UBits(d, p + 7, FieldIndexMore(UNat(d, p + 5, 2)))),
                          p + 7 + FieldIndexMore(UNat(d, p + 5, 2)))
      BY DEF ReadSkipped
    <3> QED
      BY <3>1, <3>2 DEF r
  <2>3. r.at = p + Len(code)
    BY <1>2, <1>4, <2>2 DEF Result
  <2>4. ReadTo(r.at, d, p, code)
    <3>1. r.at >= p /\ (p + Len(code) > Len(d) => r.at > Len(d))
      BY <1>5, <1>6, <2>3
    <3> QED
      BY <1>6, <2>3, <3>1 DEF ReadTo
  <2>5. ASSUME p + Len(code) <= Len(d) PROVE r.v = i /\ SkippedAsserted(d, p)
    <3>1. ToNat(UBits(d, p, 5) \o UBits(d, p + 7, m)) = i
      BY <1>2, <1>4, <1>5, <2>5
    <3>2. r.v = i
      BY <2>2, <3>1 DEF Result
    <3> QED
      BY <1>1, <2>1, <3>2 DEF SkippedAsserted, r
  <2> QED
    BY <1>3, <1>4, <2>4, <2>5 DEF r
<1>8. CASE p + 7 > Len(d)
  <2>1. p + Len(code) > Len(d) /\ r.at > Len(d) /\ ~(p + Len(code) <= Len(d)) /\ r.at >= p
    BY <1>2, <1>4, <1>5, <1>6, <1>8
  <2> QED
    BY <1>3, <1>4, <1>6, <2>1 DEF ReadTo, r
<1> QED
  BY <1>5, <1>7, <1>8

(***************************************************************************)
(* Numbers of a variable number of bytes: ReadVarInt32 and ReadVarInt64.   *)
(***************************************************************************)

(* A set of small numbers has a least.                                     *)
LEMMA LeastOf ==
    ASSUME NEW L \in Nat, NEW S, S \subseteq 0 .. L, S # {}
    PROVE  Min(S) \in S /\ \A x \in S : Min(S) <= x
<1> DEFINE bad == {i \in 1 .. L + 1 : i - 1 \in S}
<1>1. PICK n \in 0 .. L + 1 : (\A i \in 1 .. n : i \notin bad) /\ (n = L + 1 \/ n + 1 \in bad)
  <2> HIDE DEF bad
  <2>1. L + 1 \in Nat
    OBVIOUS
  <2> QED
    BY <2>1, FirstIn
<1>2. \A x \in S : x >= n
  <2> SUFFICES ASSUME NEW x \in S, ~(x >= n) PROVE FALSE
    OBVIOUS
  <2>1. x + 1 \in 1 .. n /\ x + 1 \in 1 .. L + 1 /\ (x + 1) - 1 = x
    OBVIOUS
  <2>2. x + 1 \in bad
    BY <2>1
  <2> QED
    BY <1>1, <2>1, <2>2
<1>3. n \in S
  <2>1. PICK x \in S : TRUE
    OBVIOUS
  <2>2. n # L + 1
    BY <1>2, <2>1
  <2>3. n + 1 - 1 \in S /\ n + 1 - 1 = n
    BY <1>1, <2>2
  <2> QED
    BY <2>3
<1>4. \E x \in S : \A y \in S : x <= y
  BY <1>2, <1>3
<1> QED
  BY <1>4 DEF Min

(* And a greatest.                                                         *)
LEMMA GreatestOf ==
    ASSUME NEW L \in Nat, NEW S, S \subseteq 0 .. L, S # {}
    PROVE  Max(S) \in S /\ \A x \in S : x <= Max(S)
<1> DEFINE R == {i \in 0 .. L : L - i \in S}
           n == Min(R)
<1>1. n \in R /\ \A x \in R : n <= x
  <2>1. PICK x \in S : TRUE
    OBVIOUS
  <2>2. L - x \in 0 .. L /\ L - (L - x) = x
    OBVIOUS
  <2>3. L - x \in R
    BY <2>2
  <2>4. R \subseteq 0 .. L /\ R # {}
    BY <2>3
  <2> HIDE DEF R
  <2> QED
    BY <2>4, LeastOf
<1> HIDE DEF n
<1>2. n \in 0 .. L /\ L - n \in S
  BY <1>1
<1>3. \A x \in S : x <= L - n
  <2> SUFFICES ASSUME NEW x \in S PROVE x <= L - n
    OBVIOUS
  <2>1. L - x \in 0 .. L /\ L - (L - x) = x
    OBVIOUS
  <2>2. n <= L - x
    BY <1>1, <2>1
  <2> QED
    BY <1>2, <2>2
<1>4. \E x \in S : \A y \in S : x >= y
  <2>1. \A y \in S : L - n >= y
    BY <1>2, <1>3
  <2> QED
    BY <1>2, <2>1
<1> QED
  BY <1>4 DEF Max

(* A reader that is behind the whole is behind the first piece.            *)
LEMMA ReadToPart ==
    ASSUME NEW d \in Seq(BitValues), NEW p \in Nat, NEW code \in Seq(BitValues), NEW r \in Nat,
           NEW h \in Nat, r >= p + h, Len(code) >= h, p + h <= Len(d) => r = p + Len(code)
    PROVE  ReadTo(r, d, p, code)
<1>1. Len(d) \in Nat /\ Len(code) \in Nat
  OBVIOUS
<1>2. CASE p + h <= Len(d)
  BY <1>1, <1>2 DEF ReadTo
<1>3. CASE ~(p + h <= Len(d))
  <2>1. r > Len(d) /\ r >= p /\ ~(p + Len(code) <= Len(d))
    BY <1>1, <1>3
  <2> QED
    BY <2>1 DEF ReadTo
<1> QED
  BY <1>2, <1>3

(* A code of a fixed length is read to its end.                            *)
LEMMA ReadToFixed ==
    ASSUME NEW d \in Seq(BitValues), NEW p \in Nat, NEW code \in Seq(BitValues)
    PROVE  ReadTo(p + Len(code), d, p, code)
<1>1. Len(d) \in Nat /\ Len(code) \in Nat
  OBVIOUS
<1>2. p + Len(code) \in Nat /\ p + Len(code) >= p
  BY <1>1
<1>3. p + Len(code) > Len(d) => p + Len(code) > Len(d)
  OBVIOUS
<1> QED
  BY <1>2 DEF ReadTo

(* A row of bits that is extended or cut to n bits.                        *)
LEMMA ExtendIs ==
    ASSUME NEW s \in Seq(BitValues), NEW n \in Nat, NEW bit \in BitValues
    PROVE  /\ Extend(s, n, bit) \in Seq(BitValues) /\ Len(Extend(s, n, bit)) = n
           /\ \A k \in 1 .. n : Extend(s, n, bit)[k] = IF k <= Len(s) THEN s[k] ELSE bit
<1>0. Len(s) \in Nat
  OBVIOUS
<1>1. CASE n <= Len(s)
  <2>1. Extend(s, n, bit) = SubSeq(s, 1, n)
    BY <1>1 DEF Extend
  <2>2. \A k \in 1 .. n : k \in 1 .. Len(s) /\ k <= Len(s)
    BY <1>0, <1>1
  <2>3. SubSeq(s, 1, n) \in Seq(BitValues) /\ Len(SubSeq(s, 1, n)) = n
        /\ \A k \in 1 .. n : SubSeq(s, 1, n)[k] = s[k]
    BY <1>0, <1>1, <2>2
  <2> QED
    BY <2>1, <2>2, <2>3
<1>2. CASE ~(n <= Len(s))
  <2> DEFINE more == [k \in 1 .. n - Len(s) |-> bit]
  <2>1. Extend(s, n, bit) = s \o more
    BY <1>2 DEF Extend
  <2>2. n - Len(s) \in Nat
    BY <1>0, <1>2
  <2>3. more \in Seq(BitValues) /\ Len(more) = n - Len(s)
        /\ \A k \in 1 .. n - Len(s) : more[k] = bit
    BY <2>2
  <2> HIDE DEF more
  <2>4. s \o more \in Seq(BitValues) /\ Len(s \o more) = Len(s) + Len(more)
    BY <2>3, JoinedBits
  <2>5. Len(s \o more) = n
    BY <1>0, <2>2, <2>3, <2>4
  <2>6. ASSUME NEW k \in 1 .. n PROVE (s \o more)[k] = IF k <= Len(s) THEN s[k] ELSE bit
    <3>1. CASE k <= Len(s)
      BY <1>0, <2>3, <3>1
    <3>2. CASE ~(k <= Len(s))
      <4>1. k - Len(s) \in 1 .. n - Len(s) /\ k = Len(s) + (k - Len(s))
        BY <1>0, <3>2
      <4>2. \A j \in 1 .. Len(more) : (s \o more)[Len(s) + j] = more[j]
        BY <2>3, Joined
      <4>3. (s \o more)[Len(s) + (k - Len(s))] = more[k - Len(s)]
        BY <2>3, <4>1, <4>2
      <4> QED
        BY <2>3, <3>2, <4>1, <4>3
    <3> QED
      BY <3>1, <3>2
  <2> QED
    BY <2>1, <2>4, <2>5, <2>6
<1> QED
  BY <1>1, <1>2

(* Where the parts lie if they all have the same length.                   *)
Uniform(F, N, T, w) == Parts(F, N, T) /\ w \in Nat /\ \A i \in 1 .. N : Len(F[i]) = w

(* Parts of one length lie at its multiples.                               *)
LEMMA FlatUniform ==
    ASSUME NEW N, NEW T, NEW F, NEW w \in Nat, Uniform(F, N, T, w)
    PROVE  /\ \A n \in 0 .. N : Len(Flat(F, n)) = w * n
           /\ \A n \in 0 .. N : \A m \in 1 .. N : m = n + 1 =>
                 \A k \in 1 .. w : Flat(F, N)[w * n + k] = F[m][k]
<1>0. N \in Nat /\ Parts(F, N, T) /\ w \in Nat /\ \A i \in 1 .. N : Len(F[i]) = w
  BY DEF Parts, Uniform
<1> DEFINE S == {n \in Nat : \A m \in 0 .. N : m = n => Len(Flat(F, m)) = w * m}
<1>1. 0 \in S
  <2>1. Flat(F, 0) = <<>>
    BY FlatNothing
  <2>2. Len(Flat(F, 0)) = 0
    BY <2>1
  <2> QED
    BY <1>0, <2>2
<1>2. ASSUME NEW n \in Nat, n \in S PROVE n + 1 \in S
  <2> SUFFICES ASSUME NEW m \in 0 .. N, m = n + 1 PROVE Len(Flat(F, m)) = w * m
    OBVIOUS
  <2>1. n \in 0 .. N /\ m \in 1 .. N
    BY <1>0
  <2>2. Len(Flat(F, n)) = w * n
    BY <1>2, <2>1
  <2>3. Len(Flat(F, m)) = Len(Flat(F, n)) + Len(F[m])
    BY <1>0, <2>1, FlatNext
  <2>4. Len(Flat(F, m)) = w * n + w
    BY <1>0, <2>1, <2>2, <2>3
  <2> QED
    BY <1>0, <2>4
<1>3. \A n \in Nat : n \in S
  <2> HIDE DEF S
  <2> QED
    BY <1>1, <1>2, NatSet
<1>4. ASSUME NEW n \in 0 .. N PROVE Len(Flat(F, n)) = w * n
  <2>1. n \in S
    <3> HIDE DEF S
    <3> QED
      BY <1>3
  <2> QED
    BY <2>1
<1>5. ASSUME NEW n \in 0 .. N, NEW m \in 1 .. N, m = n + 1, NEW k \in 1 .. w
      PROVE  Flat(F, N)[w * n + k] = F[m][k]
  <2>1. Flat(F, N)[Len(Flat(F, n)) + k] = F[m][k]
    BY <1>0, <1>5, FlatParts
  <2> QED
    BY <1>4, <2>1
<1> QED
  BY <1>4, <1>5

(* The bits of a number in groups of seven, each with a bit that tells if  *)
(* there are more.                                                         *)
VarIntCount(v) == Max({1} \union {(k + 6) \div 7 : k \in {j \in 1 .. Len(v) : v[j] = 1}})
Group(v, b) == Extend(SubSeq(v, 7 * b - 6, IF 7 * b > Len(v) THEN Len(v) ELSE 7 * b), 7, 0)
VarIntParts(v) == [b \in 1 .. VarIntCount(v) |-> Group(v, b) \o Flag(b < VarIntCount(v))]

(* A width and the number of bytes that it takes.                          *)
IsWidth(W, max) == W \in Nat /\ max \in Nat \ {0} /\ 7 * max >= W /\ 7 * max <= W + 6

(* How many groups of seven bits a number takes; the bits above are zeros. *)
LEMMA VarIntCountIs ==
    ASSUME NEW W \in Nat, NEW max \in Nat, IsWidth(W, max), NEW v \in Seq(BitValues), Len(v) = W
    PROVE  /\ VarIntCount(v) \in 1 .. max
           /\ \A k \in 1 .. W : k > 7 * VarIntCount(v) => v[k] = 0
<1> DEFINE S == {1} \union {(k + 6) \div 7 : k \in {j \in 1 .. Len(v) : v[j] = 1}}
<1>1. \A k \in 1 .. W : (k + 6) \div 7 \in 1 .. max
  BY DEF IsWidth
<1>2. S \subseteq 0 .. max /\ S # {} /\ max \in Nat
  BY <1>1 DEF IsWidth
<1>3. Max(S) \in S /\ \A x \in S : x <= Max(S)
  <2> HIDE DEF S
  <2> QED
    BY <1>2, GreatestOf
<1>4. Max(S) \in 1 .. max
  <2>1. S \subseteq 1 .. max
    BY <1>1 DEF IsWidth
  <2> QED
    BY <1>3, <2>1
<1>5. ASSUME NEW k \in 1 .. W, k > 7 * Max(S) PROVE v[k] = 0
  <2>1. (k + 6) \div 7 > Max(S)
    BY <1>4, <1>5 DEF IsWidth
  <2>2. (k + 6) \div 7 \notin S
    BY <1>3, <1>4, <2>1 DEF IsWidth
  <2>3. v[k] # 1
    BY <2>2
  <2>4. v[k] \in BitValues
    BY SeqMember
  <2> QED
    BY <2>3, <2>4 DEF BitValues
<1>6. VarIntCount(v) = Max(S)
  BY DEF VarIntCount
<1> HIDE DEF S
<1> QED
  BY <1>4, <1>5, <1>6

(* The seven bits of a group.                                              *)
LEMMA GroupIs ==
    ASSUME NEW W \in Nat, NEW max \in Nat, IsWidth(W, max), NEW v \in Seq(BitValues), Len(v) = W,
           NEW b \in 1 .. max
    PROVE  /\ Group(v, b) \in Seq(BitValues) /\ Len(Group(v, b)) = 7
           /\ \A j \in 1 .. 7 : Group(v, b)[j] = IF 7 * b - 7 + j <= W THEN v[7 * b - 7 + j] ELSE 0
<1> DEFINE first == 7 * b - 6
           last == IF 7 * b > W THEN W ELSE 7 * b
           s == SubSeq(v, first, last)
<1>0. W \in Nat /\ b \in Nat /\ first \in 1 .. W /\ last \in first .. W
  BY DEF IsWidth
<1>1. s \in Seq(BitValues) /\ Len(s) = last + 1 - first
      /\ \A j \in 1 .. last + 1 - first : s[j] = v[first + j - 1]
  <2> HIDE DEF first, last
  <2>1. \A j \in first .. last : j \in 1 .. Len(v)
    BY <1>0
  <2>2. SubSeq(v, first, last) \in Seq(BitValues) /\ Len(SubSeq(v, first, last)) = last + 1 - first
    BY <1>0, <2>1
  <2>3. ASSUME NEW j \in 1 .. last + 1 - first PROVE SubSeq(v, first, last)[j] = v[first + j - 1]
    BY <1>0
  <2> QED
    BY <2>2, <2>3
<1>2. Group(v, b) = Extend(s, 7, 0)
  BY DEF Group
<1>3. 7 \in Nat /\ 0 \in BitValues
  BY DEF BitValues
<1> HIDE DEF s
<1>4. /\ Extend(s, 7, 0) \in Seq(BitValues) /\ Len(Extend(s, 7, 0)) = 7
      /\ \A k \in 1 .. 7 : Extend(s, 7, 0)[k] = IF k <= Len(s) THEN s[k] ELSE 0
  BY <1>1, <1>3, ExtendIs
<1>5. ASSUME NEW j \in 1 .. 7
      PROVE  Extend(s, 7, 0)[j] = IF 7 * b - 7 + j <= W THEN v[7 * b - 7 + j] ELSE 0
  <2>1. j <= Len(s) <=> 7 * b - 7 + j <= W
    BY <1>0, <1>1
  <2>2. CASE j <= Len(s)
    <3>1. j \in 1 .. last + 1 - first /\ first + j - 1 = 7 * b - 7 + j
      BY <1>0, <1>1, <2>2
    <3>2. s[j] = v[7 * b - 7 + j]
      BY <1>1, <3>1
    <3> QED
      BY <1>4, <2>1, <2>2, <3>2
  <2>3. CASE ~(j <= Len(s))
    BY <1>4, <2>1, <2>3
  <2> QED
    BY <2>2, <2>3
<1> QED
  BY <1>2, <1>4, <1>5

(* The code of a variable-sized number is its groups, each with a bit that *)
(* tells if more follow.                                                   *)
LEMMA VarIntPartsAre ==
    ASSUME NEW W \in Nat, NEW max \in Nat, IsWidth(W, max), NEW v \in Seq(BitValues), Len(v) = W
    PROVE  /\ VarIntCode(v) = Flat(VarIntParts(v), VarIntCount(v))
           /\ Parts(VarIntParts(v), VarIntCount(v), BitValues)
           /\ \A b \in 1 .. VarIntCount(v) :
                 /\ Len(VarIntParts(v)[b]) = 8
                 /\ \A j \in 1 .. 7 : VarIntParts(v)[b][j] = Group(v, b)[j]
                 /\ VarIntParts(v)[b][8] = IF b < VarIntCount(v) THEN 1 ELSE 0
<1> DEFINE n == VarIntCount(v)
           F == VarIntParts(v)
<1>0. n \in 1 .. max
  BY VarIntCountIs
<1>1. VarIntCode(v) = FlattenSeq(F)
  BY DEF VarIntCode, VarIntParts, VarIntCount, Group
<1>2. F = [b \in 1 .. n |-> F[b]]
  BY DEF VarIntParts
<1>3. Flat(F, n) = FlattenSeq(F)
  <2> HIDE DEF F, n
  <2> QED
    BY <1>2 DEF Flat
<1>4. ASSUME NEW b \in 1 .. n
      PROVE  /\ F[b] \in Seq(BitValues) /\ Len(F[b]) = 8
             /\ \A j \in 1 .. 7 : F[b][j] = Group(v, b)[j]
             /\ F[b][8] = IF b < n THEN 1 ELSE 0
  <2>1. b \in 1 .. max
    <3> HIDE DEF n
    <3> QED
      BY <1>0 DEF IsWidth
  <2>2. Group(v, b) \in Seq(BitValues) /\ Len(Group(v, b)) = 7
    BY <2>1, GroupIs
  <2> DEFINE f == Flag(b < n)
             g == Group(v, b)
  <2>3. F[b] = g \o f
    BY DEF VarIntParts
  <2>4. f \in Seq(BitValues) /\ Len(f) = 1 /\ f[1] = IF b < n THEN 1 ELSE 0
    <3> DEFINE more == b < n
    <3>1. CASE more
      <4>1. f = << 1 >>
        BY <3>1 DEF Flag
      <4> HIDE DEF f
      <4> QED
        BY <3>1, <4>1 DEF BitValues
    <3>2. CASE ~more
      <4>1. f = << 0 >>
        BY <3>2 DEF Flag
      <4> HIDE DEF f
      <4> QED
        BY <3>2, <4>1 DEF BitValues
    <3> QED
      BY <3>1, <3>2
  <2> HIDE DEF F, f, g
  <2>5. /\ g \o f \in Seq(BitValues) /\ Len(g \o f) = Len(g) + Len(f)
        /\ \A j \in 1 .. Len(g) : (g \o f)[j] = g[j]
        /\ \A j \in 1 .. Len(f) : (g \o f)[Len(g) + j] = f[j]
    <3>1. g \in Seq(BitValues) /\ f \in Seq(BitValues)
      BY <2>2, <2>4 DEF g
    <3> QED
      BY <3>1, Joined
  <2>6. Len(g) = 7
    BY <2>2 DEF g
  <2>7. Len(g) + Len(f) = 8 /\ 1 \in 1 .. Len(f) /\ Len(g) + 1 = 8
    BY <2>4, <2>6
  <2>8. (g \o f)[8] = f[1]
    BY <2>5, <2>7
  <2>9. Len(g \o f) = 8
    BY <2>5, <2>7
  <2>10. \A j \in 1 .. 7 : (g \o f)[j] = g[j]
    BY <2>5, <2>6
  <2> QED
    BY <2>3, <2>4, <2>5, <2>8, <2>9, <2>10 DEF g
<1>5. Parts(F, n, BitValues)
  <2> HIDE DEF F, n
  <2> QED
    BY <1>0, <1>4 DEF Parts
<1> QED
  BY <1>1, <1>3, <1>4, <1>5

(* ReadVarInt32 and ReadVarInt64 read up to the first byte without that    *)
(* bit, or to the most bytes a number takes.                               *)
LEMMA VarIntBytesIs ==
    ASSUME NEW d \in Seq(BitValues), NEW p \in Nat, NEW max \in Nat \ {0}
    PROVE  /\ VarIntBytes(d, p, max) \in 1 .. max
           /\ VarIntBytes(d, p, max) # max => OneBit(d, p + 8 * VarIntBytes(d, p, max) - 1) = 0
           /\ \A c \in 1 .. max : OneBit(d, p + 8 * c - 1) = 0 => VarIntBytes(d, p, max) <= c
<1> DEFINE S == {max} \union {c \in 1 .. max : OneBit(d, p + 8 * c - 1) = 0}
<1>1. S \subseteq 0 .. max /\ S # {} /\ max \in Nat
  OBVIOUS
<1>2. VarIntBytes(d, p, max) = Min(S)
  BY DEF VarIntBytes
<1>3. Min(S) \in S /\ \A x \in S : Min(S) <= x
  <2> HIDE DEF S
  <2> QED
    BY <1>1, LeastOf
<1> QED
  BY <1>2, <1>3

(* They never go back.                                                     *)
LEMMA VarIntTyped ==
    ASSUME NEW d \in Seq(BitValues), NEW p \in Nat, NEW width, NEW max \in Nat \ {0}
    PROVE  ReadVarInt(d, p, width, max).at \in Nat /\ ReadVarInt(d, p, width, max).at >= p
<1>1. VarIntBytes(d, p, max) \in 1 .. max
  BY VarIntBytesIs
<1>2. ReadVarInt(d, p, width, max).at = p + 8 * VarIntBytes(d, p, max)
  BY DEF ReadVarInt, Result
<1> QED
  BY <1>1, <1>2

(* A variable-length number is read as written.                            *)
LEMMA VarIntRead ==
    ASSUME NEW W \in Nat, NEW max \in Nat, IsWidth(W, max), NEW v \in Seq(BitValues), Len(v) = W,
           NEW d \in Seq(BitValues), NEW p \in Nat, Shows(d, p, VarIntCode(v))
    PROVE  /\ VarIntCode(v) \in Seq(BitValues)
           /\ ReadTo(ReadVarInt(d, p, W, max).at, d, p, VarIntCode(v))
           /\ p + Len(VarIntCode(v)) <= Len(d) => ReadVarInt(d, p, W, max).v = v
<1> DEFINE count == VarIntCount(v)
           FF == VarIntParts(v)
           code == VarIntCode(v)
           c == VarIntBytes(d, p, max)
           r == ReadVarInt(d, p, W, max)
<1>0. max \in Nat \ {0} /\ W \in Nat /\ Len(d) \in Nat
  BY DEF IsWidth
<1>1. count \in 1 .. max /\ \A k \in 1 .. W : k > 7 * count => v[k] = 0
  BY VarIntCountIs
<1>2. /\ code = Flat(FF, count) /\ Parts(FF, count, BitValues)
      /\ \A b \in 1 .. count : /\ Len(FF[b]) = 8 /\ FF[b][8] = IF b < count THEN 1 ELSE 0
                           /\ \A j \in 1 .. 7 : FF[b][j] = Group(v, b)[j]
  BY VarIntPartsAre
<1>3. /\ c # max => OneBit(d, p + 8 * c - 1) = 0
      /\ \A x \in 1 .. max : OneBit(d, p + 8 * x - 1) = 0 => c <= x
  BY <1>0, VarIntBytesIs
<1>4. c \in 1 .. max
  BY <1>0, VarIntBytesIs
<1> HIDE DEF count, FF, code, c
<1>5. count \in 0 .. count /\ count \in Nat /\ 8 \in Nat
  BY <1>1
<1>6. /\ Len(Flat(FF, count)) = 8 * count
      /\ \A x \in 0 .. count : \A m \in 1 .. count : m = x + 1 =>
            \A k \in 1 .. 8 : Flat(FF, count)[8 * x + k] = FF[m][k]
  <2>0. PICK w \in Nat : w = 8
    OBVIOUS
  <2>1. \A b \in 1 .. count : Len(FF[b]) = w
    BY <1>2, <2>0
  <2>2. Parts(FF, count, BitValues)
    BY <1>2
  <2>3. /\ \A x \in 0 .. count : Len(Flat(FF, x)) = w * x
        /\ \A x \in 0 .. count : \A m \in 1 .. count : m = x + 1 =>
              \A k \in 1 .. w : Flat(FF, count)[w * x + k] = FF[m][k]
    <3>1. Uniform(FF, count, BitValues, w)
      BY <2>1, <2>2 DEF Uniform
    <3> QED
      BY <3>1, FlatUniform
  <2> QED
    BY <1>5, <2>0, <2>3
<1>7. code \in Seq(BitValues) /\ Len(code) = 8 * count
  BY <1>2, <1>5, <1>6, FlatTyped
<1>8. ASSUME NEW b \in 1 .. count, NEW j \in 1 .. 8, p + (8 * b - 8 + j) <= Len(d)
      PROVE  d[p + (8 * b - 8 + j)] = FF[b][j]
  <2>1. b - 1 \in 0 .. count /\ b = (b - 1) + 1 /\ 8 * (b - 1) + j = 8 * b - 8 + j
    BY <1>5
  <2>2. Flat(FF, count)[8 * (b - 1) + j] = FF[b][j]
    BY <1>6, <2>1
  <2>3. 8 * b - 8 + j \in 1 .. Len(code)
    BY <1>5, <1>7
  <2>4. d[p + (8 * b - 8 + j)] = code[8 * b - 8 + j]
    BY <1>8, <2>3 DEF Shows, code
  <2> QED
    BY <1>2, <2>1, <2>2, <2>4
<1>9. ASSUME NEW b \in 1 .. count, p + 8 * b <= Len(d)
      PROVE  OneBit(d, p + 8 * b - 1) = IF b < count THEN 1 ELSE 0
  <2>1. p + 8 * b - 1 \in Nat /\ (p + 8 * b - 1) + 1 = p + (8 * b - 8 + 8)
        /\ p + (8 * b - 8 + 8) <= Len(d) /\ 8 \in 1 .. 8
    BY <1>0, <1>5, <1>9
  <2>2. OneBit(d, p + 8 * b - 1) = d[p + (8 * b - 8 + 8)]
    BY <2>1, OneBitIs
  <2>3. d[p + (8 * b - 8 + 8)] = FF[b][8]
    BY <1>8, <2>1
  <2> QED
    BY <1>2, <2>2, <2>3
<1>10. r.at = p + 8 * c
  BY DEF ReadVarInt, Result, c
<1>11. r.v = Extend(FlattenSeq([b \in 1 .. c |-> UBits(d, p + 8 * (b - 1), 7)]), W, 0)
  BY DEF ReadVarInt, Result, c
<1> HIDE DEF r
<1>12. ASSUME p + 8 * count <= Len(d) PROVE c = count
  <2>1. OneBit(d, p + 8 * count - 1) = 0
    BY <1>1, <1>9, <1>12
  <2>2. c <= count
    BY <1>1, <1>3, <2>1
  <2>3. ASSUME c < count PROVE FALSE
    <3>1. c \in 1 .. count /\ p + 8 * c <= Len(d)
      BY <1>0, <1>4, <1>5, <1>12, <2>3
    <3>2. OneBit(d, p + 8 * c - 1) = 1
      BY <1>9, <2>3, <3>1
    <3>3. c # max
      BY <1>1, <1>4, <2>3
    <3>4. OneBit(d, p + 8 * c - 1) = 0
      BY <1>3, <3>3
    <3> QED
      BY <3>2, <3>4
  <2> QED
    BY <1>4, <1>5, <2>2, <2>3
<1>13. ASSUME p + 8 * count > Len(d) PROVE p + 8 * c > Len(d)
  <2> SUFFICES ASSUME p + 8 * c <= Len(d) PROVE FALSE
    BY <1>0, <1>4
  <2>1. c < count /\ c \in 1 .. count
    BY <1>0, <1>4, <1>5, <1>13
  <2>2. OneBit(d, p + 8 * c - 1) = 1
    BY <1>9, <2>1
  <2>3. c # max
    BY <1>1, <1>4, <2>1
  <2> QED
    BY <1>3, <2>2, <2>3
<1>14. ReadTo(r.at, d, p, code)
  <2>1. p + 8 * c \in Nat /\ p + 8 * c >= p
    BY <1>4
  <2> QED
    BY <1>7, <1>10, <1>12, <1>13, <2>1 DEF ReadTo
<1>15. ASSUME p + Len(code) <= Len(d) PROVE r.v = v
  <2>1. p + 8 * count <= Len(d) /\ c = count
    BY <1>7, <1>12, <1>15
  <2> DEFINE GG == [b \in 1 .. count |-> UBits(d, p + 8 * (b - 1), 7)]
  <2>2. ASSUME NEW b \in 1 .. count
        PROVE  /\ GG[b] \in Seq(BitValues) /\ Len(GG[b]) = 7
               /\ \A j \in 1 .. 7 : GG[b][j] = Group(v, b)[j]
    <3>1. p + 8 * (b - 1) \in Nat /\ 7 \in Nat /\ p + 8 * (b - 1) + 7 <= Len(d)
      BY <1>0, <1>5, <2>1
    <3> DEFINE q == p + 8 * (b - 1)
    <3>2. GG[b] = UBits(d, q, 7)
      OBVIOUS
    <3>3. q \in Nat /\ q + 7 <= Len(d) /\ \A j \in 1 .. 7 : q + j = p + (8 * b - 8 + j)
      BY <3>1
    <3> HIDE DEF q, GG
    <3>4. UBits(d, q, 7) \in Seq(BitValues) /\ Len(UBits(d, q, 7)) = 7
      BY <3>1, <3>3, UBitsIs
    <3>5. \A j \in 1 .. 7 : UBits(d, q, 7)[j] = d[q + j]
      BY <3>1, <3>3, UBitsIs
    <3>6. ASSUME NEW j \in 1 .. 7 PROVE d[q + j] = Group(v, b)[j]
      <4>1. p + (8 * b - 8 + j) <= Len(d) /\ j \in 1 .. 8
        BY <1>0, <1>5, <2>1
      <4>2. d[p + (8 * b - 8 + j)] = FF[b][j]
        BY <1>8, <4>1
      <4> QED
        BY <1>2, <3>3, <4>2
    <3> QED
      BY <3>2, <3>4, <3>5, <3>6
  <2>3. FlattenSeq(GG) = Flat(GG, count)
    <3>1. GG = [b \in 1 .. count |-> GG[b]]
      OBVIOUS
    <3> HIDE DEF GG
    <3> QED
      BY <3>1 DEF Flat
  <2>4. r.v = Extend(FlattenSeq(GG), W, 0)
    BY <1>11, <2>1
  <2> HIDE DEF GG
  <2> DEFINE bits == Flat(GG, count)
  <2>5. Parts(GG, count, BitValues)
    BY <1>5, <2>2 DEF Parts
  <2>6. bits \in Seq(BitValues) /\ Len(bits) = 7 * count
    <3>1. PICK w \in Nat : w = 7
      OBVIOUS
    <3>2. \A b \in 1 .. count : Len(GG[b]) = w
      BY <2>2, <3>1
    <3>3. \A x \in 0 .. count : Len(Flat(GG, x)) = w * x
      <4>1. Uniform(GG, count, BitValues, w)
        BY <2>5, <3>2 DEF Uniform
      <4> QED
        BY <4>1, FlatUniform
    <3>4. Flat(GG, count) \in Seq(BitValues)
      BY <1>5, <2>5, FlatTyped
    <3> QED
      BY <1>5, <3>1, <3>3, <3>4
  <2>7. ASSUME NEW b \in 1 .. count, NEW j \in 1 .. 7 PROVE bits[7 * (b - 1) + j] = Group(v, b)[j]
    <3>1. PICK w \in Nat : w = 7
      OBVIOUS
    <3>2. \A i \in 1 .. count : Len(GG[i]) = w
      BY <2>2, <3>1
    <3>3. b - 1 \in 0 .. count /\ b = (b - 1) + 1
      BY <1>5
    <3>4. bits[7 * (b - 1) + j] = GG[b][j]
      <4>1. \A x \in 0 .. count : \A m \in 1 .. count : m = x + 1 =>
              \A k \in 1 .. w : Flat(GG, count)[w * x + k] = GG[m][k]
        <5>1. Uniform(GG, count, BitValues, w)
          BY <2>5, <3>2 DEF Uniform
        <5> QED
          BY <5>1, FlatUniform
      <4> QED
        BY <3>1, <3>3, <4>1
    <3> QED
      BY <2>2, <3>4
  <2> HIDE DEF bits
  <2>8. /\ Extend(bits, W, 0) \in Seq(BitValues) /\ Len(Extend(bits, W, 0)) = W
        /\ \A k \in 1 .. W : Extend(bits, W, 0)[k] = IF k <= Len(bits) THEN bits[k] ELSE 0
    <3>1. 0 \in BitValues
      BY DEF BitValues
    <3> QED
      BY <1>0, <2>6, <3>1, ExtendIs
  <2>9. ASSUME NEW k \in 1 .. W PROVE Extend(bits, W, 0)[k] = v[k]
    <3>1. CASE k > 7 * count
      <4>1. ~(k <= Len(bits))
        BY <1>0, <1>5, <2>6, <3>1
      <4> QED
        BY <1>1, <2>8, <3>1, <4>1
    <3>2. CASE ~(k > 7 * count)
      <4>1. PICK b \in 1 .. count, j \in 1 .. 7 : k = 7 * (b - 1) + j
        <5> DEFINE x == (k + 6) \div 7
                   y == k - 7 * (x - 1)
        <5>1. x \in 1 .. count /\ y \in 1 .. 7 /\ k = 7 * (x - 1) + y
          BY <1>0, <1>5, <3>2
        <5> HIDE DEF x, y
        <5> QED
          BY <5>1
      <4>2. b \in 1 .. max /\ 7 * b - 7 + j = k
        BY <1>0, <1>1, <4>1
      <4>3. Group(v, b)[j] = v[k]
        <5>1. Group(v, b)[j] = IF 7 * b - 7 + j <= W THEN v[7 * b - 7 + j] ELSE 0
          <6>1. \A y \in 1 .. 7 :
                   Group(v, b)[y] = IF 7 * b - 7 + y <= W THEN v[7 * b - 7 + y] ELSE 0
            <7>1. b \in 1 .. max
              BY <4>2
            <7> QED
              BY <7>1, GroupIs
          <6> QED
            BY <6>1
        <5> QED
          BY <4>2, <5>1
      <4>4. k <= Len(bits)
        BY <1>0, <1>5, <2>6, <3>2
      <4>5. bits[k] = Group(v, b)[j]
        BY <2>7, <4>1
      <4> QED
        BY <2>8, <4>3, <4>4, <4>5
    <3> QED
      BY <3>1, <3>2
  <2>10. Extend(bits, W, 0) = v
    <3> DEFINE e == Extend(bits, W, 0)
    <3>1. e \in Seq(BitValues) /\ Len(e) = Len(v) /\ \A k \in 1 .. Len(e) : e[k] = v[k]
      BY <2>8, <2>9
    <3> HIDE DEF e
    <3>2. e = v
      BY <3>1, SameElements
    <3> QED
      BY <3>2 DEF e
  <2> QED
    BY <2>3, <2>4, <2>10 DEF bits
<1> QED
  BY <1>7, <1>14, <1>15 DEF code, r

(***************************************************************************)
(* What the decoders of demofilepropdecode.cpp read: Int_Decode and        *)
(* Int64_Decode.                                                           *)
(***************************************************************************)

(* What a decoder made of the bits behind p is what the code says.         *)
ReadsAs(r, d, p, code, v) ==
    /\ code \in Seq(BitValues)
    /\ ReadTo(r.at, d, p, code)
    /\ p + Len(code) <= Len(d) => r.v = v
GoesOn(r, p) == r.at \in Nat /\ r.at >= p

(* The first bits of a row.                                                *)
LEMMA FirstBits ==
    ASSUME NEW v \in Seq(BitValues), NEW n \in Nat, n <= Len(v)
    PROVE  /\ SubSeq(v, 1, n) \in Seq(BitValues) /\ Len(SubSeq(v, 1, n)) = n
           /\ \A k \in 1 .. n : SubSeq(v, 1, n)[k] = v[k]
<1>1. \A k \in 1 .. n : k \in 1 .. Len(v)
  OBVIOUS
<1>2. SubSeq(v, 1, n) \in Seq(BitValues) /\ Len(SubSeq(v, 1, n)) = n
  BY <1>1
<1>3. \A k \in 1 .. n : SubSeq(v, 1, n)[k] = v[k]
  BY <1>1
<1> QED
  BY <1>2, <1>3

(* ZigZagDecode undoes the encoding of a signed number.                    *)
LEMMA ZigZagBack ==
    ASSUME NEW v \in Seq(BitValues), Len(v) # 0
    PROVE  /\ ZigZagEncode(v) \in Seq(BitValues) /\ Len(ZigZagEncode(v)) = Len(v)
           /\ ZigZagDecode(ZigZagEncode(v)) = v
<1> DEFINE n == Len(v)
           z == ZigZagEncode(v)
           shifted == Extend(Tail(z), n, 0)
<1>0. n \in Nat \ {0}
  OBVIOUS
<1>1. \A k \in 1 .. n : v[k] \in {0, 1}
  <2>1. \A k \in 1 .. n : v[k] \in BitValues
    BY SeqMember
  <2> QED
    BY <2>1 DEF BitValues
<1> HIDE DEF n
<1>2. z = [k \in 1 .. n |-> IF k = 1 THEN v[n] ELSE (v[k - 1] + v[n]) % 2]
  BY DEF ZigZagEncode, n
<1>3. ASSUME NEW k \in 1 .. n PROVE z[k] = (IF k = 1 THEN v[n] ELSE (v[k - 1] + v[n]) % 2) /\ z[k] \in {0, 1}
  <2>1. z[k] = IF k = 1 THEN v[n] ELSE (v[k - 1] + v[n]) % 2
    BY <1>2
  <2>2. CASE k = 1
    BY <1>0, <1>1, <2>1, <2>2
  <2>3. CASE k # 1
    <3>1. k - 1 \in 1 .. n /\ n \in 1 .. n
      BY <1>0, <2>3
    <3>2. v[k - 1] \in {0, 1} /\ v[n] \in {0, 1}
      BY <1>1, <3>1
    <3> QED
      BY <2>1, <2>3, <3>2
  <2> QED
    BY <2>2, <2>3
<1>4. z \in Seq(BitValues) /\ Len(z) = n
  <2>1. \A k \in 1 .. n : z[k] \in BitValues
    BY <1>3 DEF BitValues
  <2>2. z = [k \in 1 .. n |-> z[k]]
    BY <1>2
  <2> HIDE DEF z
  <2> QED
    BY <1>0, <2>1, <2>2
<1>5. z[1] = v[n] /\ \A k \in 1 .. n - 1 : z[k + 1] = (v[k] + v[n]) % 2
  <2>1. 1 \in 1 .. n
    BY <1>0
  <2>2. ASSUME NEW k \in 1 .. n - 1 PROVE z[k + 1] = (v[k] + v[n]) % 2
    <3>1. k + 1 \in 1 .. n /\ k + 1 # 1 /\ (k + 1) - 1 = k
      BY <1>0
    <3> HIDE DEF z
    <3> QED
      BY <1>3, <3>1
  <2> HIDE DEF z
  <2> QED
    BY <1>3, <2>1, <2>2
<1> HIDE DEF z
<1>6. /\ Tail(z) \in Seq(BitValues) /\ Len(Tail(z)) = n - 1
      /\ \A k \in 1 .. n - 1 : Tail(z)[k] = z[k + 1]
  <2>1. z # <<>>
    BY <1>0, <1>4
  <2>2. Tail(z) \in Seq(BitValues) /\ Len(Tail(z)) = n - 1
    BY <1>0, <1>4, <2>1
  <2>3. ASSUME NEW k \in 1 .. n - 1 PROVE Tail(z)[k] = z[k + 1]
    BY <1>0, <1>4, <2>1
  <2> QED
    BY <2>2, <2>3
<1>7. /\ shifted \in Seq(BitValues) /\ Len(shifted) = n
      /\ \A k \in 1 .. n : shifted[k] = IF k <= n - 1 THEN z[k + 1] ELSE 0
  <2> DEFINE t == Tail(z)
  <2>1. t \in Seq(BitValues) /\ Len(t) = n - 1 /\ n \in Nat /\ 0 \in BitValues
    BY <1>0, <1>6 DEF BitValues
  <2> HIDE DEF t
  <2>2. PICK w \in Nat : w = n
    BY <1>0
  <2>3. PICK b \in BitValues : b = 0
    BY DEF BitValues
  <2>4. /\ Extend(t, w, b) \in Seq(BitValues) /\ Len(Extend(t, w, b)) = w
        /\ \A k \in 1 .. w : Extend(t, w, b)[k] = IF k <= Len(t) THEN t[k] ELSE b
    <3>1. t \in Seq(BitValues)
      BY <2>1
    <3> QED
      BY <3>1, ExtendIs
  <2>5. /\ Extend(t, n, 0) \in Seq(BitValues) /\ Len(Extend(t, n, 0)) = n
        /\ \A k \in 1 .. n : Extend(t, n, 0)[k] = IF k <= Len(t) THEN t[k] ELSE 0
    BY <2>2, <2>3, <2>4
  <2>6. \A k \in 1 .. n : k <= n - 1 => t[k] = z[k + 1]
    BY <1>0, <1>6 DEF t
  <2> QED
    BY <2>1, <2>5, <2>6 DEF t
<1>8. \A k \in 1 .. n : shifted[k] = IF k <= n - 1 THEN (v[k] + v[n]) % 2 ELSE 0
  BY <1>0, <1>5, <1>7
<1>9. ZigZagDecode(z) = IF z[1] = 1 THEN Complement(shifted) ELSE shifted
  BY <1>4 DEF ZigZagDecode
<1> HIDE DEF shifted
<1> DEFINE back == ZigZagDecode(z)
<1>10. n \in 1 .. n /\ v[n] \in {0, 1}
  BY <1>0, <1>1
<1>11. CASE v[n] = 1
  <2>1. back = [k \in 1 .. n |-> 1 - shifted[k]]
    BY <1>5, <1>7, <1>9, <1>11 DEF Complement
  <2>2. ASSUME NEW k \in 1 .. n PROVE 1 - shifted[k] = v[k]
    <3>1. v[k] \in {0, 1} /\ shifted[k] = IF k <= n - 1 THEN (v[k] + v[n]) % 2 ELSE 0
      BY <1>1, <1>8
    <3>2. k <= n - 1 \/ k = n
      BY <1>0
    <3> QED
      BY <1>0, <1>11, <3>1, <3>2
  <2>3. back = [k \in 1 .. n |-> v[k]]
    BY <2>1, <2>2
  <2>4. v = [k \in 1 .. n |-> v[k]]
    BY DEF n
  <2> QED
    BY <1>4, <2>3, <2>4 DEF n, z
<1>12. CASE v[n] = 0
  <2>1. back = shifted
    BY <1>5, <1>9, <1>12
  <2>2. ASSUME NEW k \in 1 .. n PROVE shifted[k] = v[k]
    <3>1. v[k] \in {0, 1} /\ shifted[k] = IF k <= n - 1 THEN (v[k] + v[n]) % 2 ELSE 0
      BY <1>1, <1>8
    <3>2. k <= n - 1 \/ k = n
      BY <1>0
    <3> QED
      BY <1>0, <1>12, <3>1, <3>2
  <2>3. shifted = v
    BY <1>7, <2>2, SameElements DEF n
  <2> QED
    BY <1>4, <2>1, <2>3 DEF n, z
<1> QED
  BY <1>10, <1>11, <1>12 DEF z

(* The two's complement keeps the bits up to the lowest 1, and inverts     *)
(* those above.                                                            *)
LEMMA NegatedIs ==
    ASSUME NEW v \in Seq(BitValues)
    PROVE  /\ Negated(v) \in Seq(BitValues) /\ Len(Negated(v)) = Len(v)
           /\ \A k \in 1 .. Len(v) : Negated(v)[k] =
                 IF \A j \in 1 .. k - 1 : v[j] = 0 THEN v[k] ELSE 1 - v[k]
<1> DEFINE n == Len(v)
           c == Complement(v)
<1>0. n \in Nat /\ \A k \in 1 .. n : v[k] \in {0, 1}
  <2>1. \A k \in 1 .. n : v[k] \in BitValues
    BY SeqMember
  <2> QED
    BY <2>1 DEF BitValues
<1>1. c = [k \in 1 .. n |-> 1 - v[k]]
  BY DEF Complement
<1>2. Len(c) = n /\ \A k \in 1 .. n : c[k] = 1 - v[k]
  <2> HIDE DEF n
  <2> QED
    BY <1>0, <1>1
<1> HIDE DEF n, c
<1> DEFINE w == [k \in 1 .. n |-> IF \A j \in 1 .. k - 1 : c[j] = 1 THEN 1 - c[k] ELSE c[k]]
<1>3. Negated(v) = w
  BY <1>2 DEF Negated, Increment, c
<1>4. ASSUME NEW k \in 1 .. n
      PROVE  w[k] = (IF \A j \in 1 .. k - 1 : v[j] = 0 THEN v[k] ELSE 1 - v[k]) /\ w[k] \in BitValues
  <2>1. (\A j \in 1 .. k - 1 : c[j] = 1) <=> (\A j \in 1 .. k - 1 : v[j] = 0)
    <3>1. \A j \in 1 .. k - 1 : j \in 1 .. n
      BY <1>0
    <3>2. \A j \in 1 .. k - 1 : c[j] = 1 - v[j] /\ v[j] \in {0, 1}
      BY <1>0, <1>2, <3>1
    <3> QED
      BY <3>2
  <2>2. c[k] = 1 - v[k] /\ v[k] \in {0, 1}
    BY <1>0, <1>2
  <2>3. w[k] = IF \A j \in 1 .. k - 1 : c[j] = 1 THEN 1 - c[k] ELSE c[k]
    OBVIOUS
  <2> HIDE DEF w
  <2>4. w[k] = IF \A j \in 1 .. k - 1 : v[j] = 0 THEN v[k] ELSE 1 - v[k]
    BY <2>1, <2>2, <2>3
  <2>5. w[k] \in BitValues
    BY <2>2, <2>4 DEF BitValues
  <2> QED
    BY <2>4, <2>5
<1>5. w \in Seq(BitValues) /\ Len(w) = n
  <2>1. w = [k \in 1 .. n |-> w[k]]
    OBVIOUS
  <2> HIDE DEF w
  <2> QED
    BY <1>0, <1>4, <2>1
<1> HIDE DEF w
<1> QED
  BY <1>3, <1>4, <1>5 DEF n

(* Twice negated, a number is the same: of both, the bits up to the least  *)
(* one that is set are.                                                    *)
LEMMA NegatedTwice ==
    ASSUME NEW v \in Seq(BitValues)
    PROVE  Negated(Negated(v)) = v
<1> DEFINE w == Negated(v)
           n == Len(v)
           u == Negated(w)
           low(x, k) == \A j \in 1 .. k - 1 : x[j] = 0
<1>0. n \in Nat /\ \A k \in 1 .. n : v[k] \in {0, 1}
  <2>1. \A k \in 1 .. n : v[k] \in BitValues
    BY SeqMember
  <2> QED
    BY <2>1 DEF BitValues
<1>1. w \in Seq(BitValues) /\ Len(w) = n /\ \A k \in 1 .. n : w[k] = IF low(v, k) THEN v[k] ELSE 1 - v[k]
  BY NegatedIs
<1> HIDE DEF w
<1>2. u \in Seq(BitValues) /\ Len(u) = n /\ \A k \in 1 .. n : u[k] = IF low(w, k) THEN w[k] ELSE 1 - w[k]
  BY <1>1, NegatedIs
<1> HIDE DEF n, u
<1>3. ASSUME NEW k \in 1 .. n PROVE low(v, k) <=> low(w, k)
  <2>1. ASSUME low(v, k) PROVE low(w, k)
    <3> SUFFICES ASSUME NEW j \in 1 .. k - 1 PROVE w[j] = 0
      OBVIOUS
    <3>1. j \in 1 .. n /\ low(v, j) /\ v[j] = 0
      BY <1>0, <2>1
    <3> QED
      BY <1>1, <3>1
  <2>2. ASSUME ~low(v, k) PROVE ~low(w, k)
    <3> DEFINE bad == {j \in 1 .. k - 1 : v[j] # 0}
    <3>0. k - 1 \in Nat
      BY <1>0
    <3>1. PICK f \in 0 .. k - 1 : (\A j \in 1 .. f : j \notin bad) /\ (f = k - 1 \/ f + 1 \in bad)
      <4> HIDE DEF bad
      <4> QED
        BY <3>0, FirstIn
    <3>2. f # k - 1
      BY <2>2, <3>1
    <3>3. f + 1 \in bad /\ f + 1 \in 1 .. k - 1 /\ f + 1 \in 1 .. n
      BY <1>0, <3>1, <3>2
    <3>4. low(v, f + 1)
      <4> SUFFICES ASSUME NEW j \in 1 .. (f + 1) - 1 PROVE v[j] = 0
        OBVIOUS
      <4>1. j \in 1 .. f /\ j \in 1 .. k - 1
        BY <3>0
      <4> QED
        BY <3>1, <4>1
    <3>5. w[f + 1] = v[f + 1] /\ v[f + 1] # 0
      BY <1>1, <3>3, <3>4
    <3> QED
      BY <3>3, <3>5
  <2> QED
    BY <2>1, <2>2
<1>4. ASSUME NEW k \in 1 .. n PROVE u[k] = v[k]
  <2>1. v[k] \in {0, 1} /\ (low(v, k) <=> low(w, k))
    BY <1>0, <1>3
  <2>2. w[k] = IF low(v, k) THEN v[k] ELSE 1 - v[k]
    BY <1>1
  <2>3. u[k] = IF low(w, k) THEN w[k] ELSE 1 - w[k]
    BY <1>2
  <2> HIDE DEF low
  <2> QED
    BY <2>1, <2>2, <2>3
<1>5. u = v
  BY <1>2, <1>4, SameElements DEF n
<1> QED
  BY <1>5 DEF u, w

(* The low bits of a number, as they were written, with what is above.     *)
LEMMA LowBitsBack ==
    ASSUME NEW W \in Nat, NEW v \in Seq(BitValues), Len(v) = W, NEW n \in Nat, n <= W,
           NEW bit \in BitValues, \A k \in n + 1 .. W : v[k] = bit
    PROVE  Extend(SubSeq(v, 1, n), W, bit) = v
<1> DEFINE s == SubSeq(v, 1, n)
           e == Extend(s, W, bit)
<1>1. s \in Seq(BitValues) /\ Len(s) = n /\ \A k \in 1 .. n : s[k] = v[k]
  BY FirstBits
<1>2. s \in Seq(BitValues)
  BY <1>1
<1> HIDE DEF s
<1>3. /\ e \in Seq(BitValues) /\ Len(e) = W
      /\ \A k \in 1 .. W : e[k] = IF k <= Len(s) THEN s[k] ELSE bit
  BY <1>2, ExtendIs
<1> HIDE DEF e
<1>4. ASSUME NEW k \in 1 .. W PROVE e[k] = v[k]
  <2>1. CASE k <= n
    <3>1. k \in 1 .. n
      BY <2>1
    <3> QED
      BY <1>1, <1>3, <2>1, <3>1
  <2>2. CASE ~(k <= n)
    <3>1. k \in n + 1 .. W
      BY <2>2
    <3> QED
      BY <1>1, <1>3, <2>2, <3>1
  <2> QED
    BY <2>1, <2>2
<1>5. e = v
  BY <1>3, <1>4, SameElements
<1> QED
  BY <1>5 DEF e, s

(* The first bits of a row are read as they were written.                  *)
LEMMA FirstBitsRead ==
    ASSUME NEW d \in Seq(BitValues), NEW p \in Nat, NEW v \in Seq(BitValues), NEW n \in Nat,
           n <= Len(v), Shows(d, p, SubSeq(v, 1, n))
    PROVE  /\ SubSeq(v, 1, n) \in Seq(BitValues) /\ Len(SubSeq(v, 1, n)) = n
           /\ ReadTo(p + n, d, p, SubSeq(v, 1, n))
           /\ p + n <= Len(d) => UBits(d, p, n) = SubSeq(v, 1, n)
<1> DEFINE s == SubSeq(v, 1, n)
<1>1. s \in Seq(BitValues) /\ Len(s) = n
  BY FirstBits
<1> HIDE DEF s
<1>2. ReadTo(p + Len(s), d, p, s)
  BY <1>1, ReadToFixed
<1>3. Shows(d, p, s)
  BY DEF s
<1>4. p + Len(s) <= Len(d) => UBits(d, p, Len(s)) = s
  BY <1>1, <1>3, ShownBits
<1> QED
  BY <1>1, <1>2, <1>4 DEF s

(* A variable-sized number is read as it was written, signed or not.       *)
LEMMA VarIntReadsAs ==
    ASSUME NEW W \in Nat, NEW max \in Nat, IsWidth(W, max), NEW v \in Seq(BitValues), Len(v) = W,
           W # 0, NEW unsigned \in BOOLEAN, NEW d \in Seq(BitValues), NEW p \in Nat,
           Shows(d, p, VarIntCode(IF unsigned THEN v ELSE ZigZagEncode(v)))
    PROVE  ReadsAs(LET n == ReadVarInt(d, p, W, max)
                   IN  IF unsigned THEN n ELSE Result(ZigZagDecode(n.v), n.at),
                   d, p, VarIntCode(IF unsigned THEN v ELSE ZigZagEncode(v)), v)
<1> DEFINE n == ReadVarInt(d, p, W, max)
<1>1. CASE unsigned
  <2>1. Shows(d, p, VarIntCode(v))
    BY <1>1
  <2>2. ReadsAs(n, d, p, VarIntCode(v), v)
    BY <2>1, VarIntRead DEF ReadsAs
  <2> QED
    BY <1>1, <2>2
<1>2. CASE ~unsigned
  <2> DEFINE z == ZigZagEncode(v)
  <2>1. Shows(d, p, VarIntCode(z))
    BY <1>2
  <2>2. z \in Seq(BitValues) /\ Len(z) = W /\ ZigZagDecode(z) = v
    BY ZigZagBack
  <2> HIDE DEF z
  <2>3. /\ VarIntCode(z) \in Seq(BitValues) /\ ReadTo(n.at, d, p, VarIntCode(z))
        /\ p + Len(VarIntCode(z)) <= Len(d) => n.v = z
    BY <2>1, <2>2, VarIntRead
  <2> HIDE DEF n
  <2>4. ReadsAs(Result(ZigZagDecode(n.v), n.at), d, p, VarIntCode(z), v)
    BY <2>2, <2>3 DEF ReadsAs, Result
  <2> QED
    BY <1>2, <2>4 DEF z, n
<1> QED
  BY <1>1, <1>2

(* The widths of the numbers, and the most bytes they take.                *)
LEMMA Widths == IsWidth(32, 5) /\ IsWidth(64, 10)
  BY DEF IsWidth

(* Int_Decode goes on.                                                     *)
LEMMA IntTyped ==
    ASSUME NEW d \in Seq(BitValues), NEW p \in Nat, NEW prop,
           prop.coding = "varint" \/ prop.num_bits \in 1 .. 32
    PROVE  GoesOn(Int_Decode(d, p, prop), p)
<1>1. CASE prop.coding = "varint"
  <2> DEFINE n == ReadVarInt(d, p, 32, 5)
  <2>1. 5 \in Nat \ {0}
    OBVIOUS
  <2>2. n.at \in Nat /\ n.at >= p
    BY <2>1, VarIntTyped
  <2>3. Int_Decode(d, p, prop).at = n.at
    BY <1>1 DEF Int_Decode, ReadVarInt32, kMaxVarint32Bytes, Result
  <2> QED
    BY <2>2, <2>3 DEF GoesOn
<1>2. CASE prop.coding # "varint"
  <2>0. PICK m \in Nat : m = prop.num_bits
    BY <1>2
  <2>1. Int_Decode(d, p, prop).at = p + m
    BY <1>2, <2>0 DEF Int_Decode, ReadSBitLong, Result
  <2>2. p + m \in Nat /\ p + m >= p
    OBVIOUS
  <2> QED
    BY <2>1, <2>2 DEF GoesOn
<1> QED
  BY <1>1, <1>2

(* Int_Decode reads an int as it was written, whatever the flags of its    *)
(* prop.                                                                   *)
LEMMA IntRead ==
    ASSUME NEW d \in Seq(BitValues), NEW p \in Nat, NEW prop, prop.unsigned \in BOOLEAN,
           prop.coding = "varint" \/ prop.num_bits \in 1 .. 32,
           NEW v, IntHas(prop, v), Shows(d, p, IntCode(prop, v))
    PROVE  ReadsAs(Int_Decode(d, p, prop), d, p, IntCode(prop, v), v)
<1>0. v \in Seq(BitValues) /\ Len(v) = 32
  BY DEF IntHas, HasBits
<1>1. CASE prop.coding = "varint"
  <2> DEFINE code == VarIntCode(IF prop.unsigned THEN v ELSE ZigZagEncode(v))
             n == ReadVarInt(d, p, 32, 5)
  <2>1. IntCode(prop, v) = code
    BY <1>1 DEF IntCode
  <2>2. PICK u \in BOOLEAN : u = prop.unsigned
    OBVIOUS
  <2>3. PICK W \in Nat, max \in Nat : W = 32 /\ max = 5
    OBVIOUS
  <2>4. IsWidth(W, max) /\ Len(v) = W /\ W # 0
    BY <1>0, <2>3, Widths
  <2>5. Shows(d, p, VarIntCode(IF u THEN v ELSE ZigZagEncode(v)))
    BY <2>1, <2>2
  <2>6. ReadsAs(LET m == ReadVarInt(d, p, W, max)
                IN  IF u THEN m ELSE Result(ZigZagDecode(m.v), m.at),
                d, p, VarIntCode(IF u THEN v ELSE ZigZagEncode(v)), v)
    BY <1>0, <2>4, <2>5, VarIntReadsAs
  <2>7. Int_Decode(d, p, prop) = LET m == ReadVarInt(d, p, W, max)
                                 IN  IF u THEN m ELSE Result(ZigZagDecode(m.v), m.at)
    BY <1>1, <2>2, <2>3 DEF Int_Decode, ReadVarInt32, kMaxVarint32Bytes
  <2> QED
    BY <2>1, <2>2, <2>6, <2>7
<1>2. CASE prop.coding # "varint"
  <2>0. PICK m \in Nat : m = prop.num_bits /\ m \in 1 .. 32
    BY <1>2
  <2>a. PICK W \in Nat : W = 32
    OBVIOUS
  <2>1. IntCode(prop, v) = SubSeq(v, 1, m)
    BY <1>2, <2>0 DEF IntCode
  <2>b. v \in Seq(BitValues) /\ Len(v) = W
    BY <1>0, <2>a
  <2>c. m \in 1 .. W /\ m <= W
    <3>1. m \in 1 .. W
      BY <2>0, <2>a
    <3> QED
      BY <3>1, <2>a
  <2>2. m <= Len(v)
    BY <2>b, <2>c
  <2>d. Shows(d, p, SubSeq(v, 1, m))
    BY <2>1
  <2>3. /\ SubSeq(v, 1, m) \in Seq(BitValues) /\ Len(SubSeq(v, 1, m)) = m
        /\ ReadTo(p + m, d, p, SubSeq(v, 1, m))
        /\ p + m <= Len(d) => UBits(d, p, m) = SubSeq(v, 1, m)
    BY <2>b, <2>2, <2>d, FirstBitsRead
  <2>4. Int_Decode(d, p, prop).at = p + m
    BY <1>2, <2>0 DEF Int_Decode, ReadSBitLong, Result
  <2>5. ASSUME p + m <= Len(d) PROVE Int_Decode(d, p, prop).v = v
    <3>1. UBits(d, p, m) = SubSeq(v, 1, m)
      BY <2>3, <2>5
    <3>2. CASE prop.unsigned
      <4>1. Int_Decode(d, p, prop).v = Extend(UBits(d, p, m), 32, 0)
        BY <1>2, <2>0, <3>2 DEF Int_Decode, Result
      <4>2. \A k \in m + 1 .. W : v[k] = 0
        BY <1>2, <2>0, <2>a, <3>2 DEF IntHas
      <4>3. PICK b \in BitValues : b = 0
        BY DEF BitValues
      <4>a. \A k \in m + 1 .. W : v[k] = b
        BY <4>2, <4>3
      <4>4. Extend(SubSeq(v, 1, m), W, b) = v
        BY <2>b, <2>c, <4>a, LowBitsBack
      <4> QED
        BY <2>a, <3>1, <4>1, <4>3, <4>4
    <3>3. CASE ~prop.unsigned
      <4>1. Int_Decode(d, p, prop).v = Extend(UBits(d, p, m), 32, UBits(d, p, m)[m])
        BY <1>2, <2>0, <3>3 DEF Int_Decode, ReadSBitLong, Result
      <4>2. \A k \in m + 1 .. W : v[k] = v[m]
        BY <1>2, <2>0, <2>a, <3>3 DEF IntHas
      <4>3. PICK b \in BitValues : b = v[m]
        <5>1. m \in 1 .. Len(v)
          BY <2>b, <2>c
        <5> QED
          BY <2>b, <5>1, SeqMember
      <4>4. SubSeq(v, 1, m)[m] = v[m]
        <5>1. \A k \in 1 .. m : SubSeq(v, 1, m)[k] = v[k]
          BY <2>b, <2>2, FirstBits
        <5>2. m \in 1 .. m
          BY <2>c
        <5> QED
          BY <5>1, <5>2
      <4>a. \A k \in m + 1 .. W : v[k] = b
        BY <4>2, <4>3
      <4>5. Extend(SubSeq(v, 1, m), W, b) = v
        BY <2>b, <2>c, <4>a, LowBitsBack
      <4> QED
        BY <2>a, <3>1, <4>1, <4>3, <4>4, <4>5
    <3> QED
      BY <3>2, <3>3
  <2>6. ReadsAs(Int_Decode(d, p, prop), d, p, SubSeq(v, 1, m), v)
    BY <2>3, <2>4, <2>5 DEF ReadsAs
  <2> QED
    BY <2>1, <2>6
<1> QED
  BY <1>1, <1>2

(* A code that is read in two parts.                                       *)
SplitsIn(L, R, n) == L + R = n
BothParts(d, p, L, R) == UBits(d, p, L) \o UBits(d, p + L, R)

(* A row that is read in two parts is read whole.                          *)
LEMMA TwoParts ==
    ASSUME NEW d \in Seq(BitValues), NEW p \in Nat, NEW s \in Seq(BitValues),
           Shows(d, p, s), p + Len(s) <= Len(d),
           NEW L \in Nat, NEW R \in Nat, SplitsIn(L, R, Len(s))
    PROVE  BothParts(d, p, L, R) = s
<1> DEFINE a == UBits(d, p, L)
           b == UBits(d, p + L, R)
<1>0. p + L \in Nat /\ Len(d) \in Nat /\ p + L <= Len(d) /\ (p + L) + R <= Len(d)
        /\ L + R = Len(s)
  BY DEF SplitsIn
<1>1. a \in Seq(BitValues) /\ Len(a) = L /\ \A k \in 1 .. L : a[k] = d[p + k]
  BY <1>0, UBitsIs
<1>2. b \in Seq(BitValues) /\ Len(b) = R /\ \A k \in 1 .. R : b[k] = d[(p + L) + k]
  BY <1>0, UBitsIs
<1>3. a \in Seq(BitValues) /\ b \in Seq(BitValues)
  BY <1>1, <1>2
<1> HIDE DEF a, b
<1> DEFINE e == a \o b
<1>4. /\ e \in Seq(BitValues) /\ Len(e) = Len(a) + Len(b)
      /\ \A k \in 1 .. Len(a) : e[k] = a[k]
      /\ \A k \in 1 .. Len(b) : e[Len(a) + k] = b[k]
  BY <1>3, Joined
<1> HIDE DEF e
<1>5. ASSUME NEW k \in 1 .. L + R PROVE e[k] = s[k]
  <2>0. s[k] = d[p + k]
    <3>1. k \in 1 .. Len(s) /\ p + k <= Len(d)
      BY <1>0
    <3> QED
      BY <3>1 DEF Shows
  <2>1. CASE k <= L
    <3>1. k \in 1 .. L
      BY <2>1
    <3> QED
      BY <1>1, <1>4, <2>0, <3>1
  <2>2. CASE ~(k <= L)
    <3>1. PICK j \in 1 .. R : k = L + j
      <4>1. k - L \in 1 .. R /\ k = L + (k - L)
        BY <2>2
      <4> QED
        BY <4>1
    <3>2. b[j] = d[(p + L) + j] /\ (p + L) + j = p + k
      BY <1>2, <3>1
    <3> QED
      BY <1>1, <1>2, <1>4, <2>0, <3>1, <3>2
  <2> QED
    BY <2>1, <2>2
<1>6. e = s
  <2>1. Len(e) = Len(s) /\ \A k \in 1 .. Len(e) : e[k] = s[k]
    BY <1>0, <1>1, <1>2, <1>4, <1>5
  <2> QED
    BY <1>4, <2>1, SameElements
<1> QED
  BY <1>6 DEF e, a, b, BothParts

(* The widths of the numbers of 64 bits that are not of variable length.   *)
LongWidth(n) == n \in 33 .. 64

(* The widths that Int64_Decode reads in two parts.                        *)
LEMMA LongWidthIs ==
    ASSUME NEW n, LongWidth(n)
    PROVE  n \in Nat /\ 33 <= n /\ n <= 64
  BY DEF LongWidth

(* Int64_Decode goes on.                                                   *)
LEMMA Int64Typed ==
    ASSUME NEW d \in Seq(BitValues), NEW p \in Nat, NEW prop, prop.unsigned \in BOOLEAN,
           prop.coding = "varint" \/ LongWidth(prop.num_bits)
    PROVE  GoesOn(Int64_Decode(d, p, prop), p)
<1>1. CASE prop.coding = "varint"
  <2> DEFINE n == ReadVarInt(d, p, 64, 10)
  <2>1. 10 \in Nat \ {0}
    OBVIOUS
  <2>2. n.at \in Nat /\ n.at >= p
    BY <2>1, VarIntTyped
  <2>3. Int64_Decode(d, p, prop).at = n.at
    BY <1>1 DEF Int64_Decode, ReadVarInt64, kMaxVarintBytes, Result
  <2> QED
    BY <2>2, <2>3 DEF GoesOn
<1>2. CASE prop.coding # "varint"
  <2>0. PICK m \in Nat : m = prop.num_bits /\ 33 <= m /\ m <= 64
    BY <1>2, LongWidthIs
  <2>1. PICK g \in 0 .. 1 : g = IF prop.unsigned THEN 0 ELSE 1
    OBVIOUS
  <2>2. Int64_Decode(d, p, prop).at = p + g + 32 + (m - 32 - g)
    BY <1>2, <2>0, <2>1 DEF Int64_Decode, HighBits, Result
  <2>3. p + g + 32 + (m - 32 - g) \in Nat /\ p + g + 32 + (m - 32 - g) >= p
    BY <2>0
  <2> QED
    BY <2>2, <2>3 DEF GoesOn
<1> QED
  BY <1>1, <1>2

(* The number's bits, as far as they were written, and what is above.      *)
Halved(L, R, m, W) ==
    L \in Nat /\ R \in Nat /\ m \in Nat /\ W \in Nat /\ L + R = m /\ m <= W
IsAbove(w, m, W, bit) ==
    /\ w \in Seq(BitValues) /\ bit \in BitValues
    /\ Len(w) = W /\ \A k \in m + 1 .. W : w[k] = bit
ShowsFirst(d, q, w, m) ==
    d \in Seq(BitValues) /\ q \in Nat /\ Shows(d, q, SubSeq(w, 1, m)) /\ q + m <= Len(d)

(* The low and the high part of a long number, extended to 64 bits.        *)
LEMMA HalvesRead ==
    ASSUME NEW d, NEW q, NEW w, NEW W, NEW L, NEW R, NEW m, NEW bit,
           Halved(L, R, m, W), IsAbove(w, m, W, bit), ShowsFirst(d, q, w, m)
    PROVE  Extend(BothParts(d, q, L, R), W, bit) = w
<1>0. L + R = m /\ m <= W /\ Len(w) = W /\ \A k \in m + 1 .. W : w[k] = bit
  BY DEF Halved, IsAbove
<1>a. /\ L \in Nat /\ R \in Nat /\ m \in Nat /\ W \in Nat
      /\ w \in Seq(BitValues) /\ bit \in BitValues
      /\ d \in Seq(BitValues) /\ q \in Nat
  BY DEF Halved, IsAbove, ShowsFirst
<1>1. SubSeq(w, 1, m) \in Seq(BitValues) /\ Len(SubSeq(w, 1, m)) = m
  BY <1>0, <1>a, FirstBits
<1>2. PICK s \in Seq(BitValues) : s = SubSeq(w, 1, m)
  BY <1>1
<1>3. Shows(d, q, s) /\ q + Len(s) <= Len(d)
  BY <1>1, <1>2 DEF ShowsFirst
<1>4. SplitsIn(L, R, Len(s))
  BY <1>0, <1>1, <1>2 DEF SplitsIn
<1>5. BothParts(d, q, L, R) = s
  BY <1>a, <1>3, <1>4, TwoParts
<1>6. Extend(SubSeq(w, 1, m), W, bit) = w
  BY <1>0, <1>a, LowBitsBack
<1> QED
  BY <1>2, <1>5, <1>6

(* An unsigned 64-bit number is read as it was written.                    *)
LEMMA Int64UnsignedRead ==
    ASSUME NEW d \in Seq(BitValues), NEW p \in Nat, NEW prop, prop.unsigned = TRUE,
           prop.coding # "varint", LongWidth(prop.num_bits),
           NEW v, Int64Has(prop, v), Shows(d, p, Int64Code(prop, v))
    PROVE  ReadsAs(Int64_Decode(d, p, prop), d, p, Int64Code(prop, v), v)
<1>0. v \in Seq(BitValues) /\ Len(v) = 64
  BY DEF Int64Has, HasBits
<1>1. PICK m \in Nat : m = prop.num_bits /\ 33 <= m /\ m <= 64
  BY LongWidthIs
<1>2. Int64Code(prop, v) = SubSeq(v, 1, m)
  BY <1>1 DEF Int64Code
<1>z. PICK b \in BitValues : b = 0
  BY DEF BitValues
<1>a. PICK W \in Nat, L \in Nat, R \in Nat :
         W = 64 /\ L = 32 /\ R = m - 32 /\ L + R = m /\ m <= W
  <2>1. m - 32 \in Nat /\ 32 + (m - 32) = m
    BY <1>1
  <2> QED
    BY <1>1, <2>1
<1>b. v \in Seq(BitValues) /\ Len(v) = W
  BY <1>0, <1>a
<1>3. m <= Len(v)
  BY <1>a, <1>b
<1>c. v \in Seq(BitValues)
  BY <1>0
<1>4. Shows(d, p, SubSeq(v, 1, m))
  BY <1>2
<1>5. /\ SubSeq(v, 1, m) \in Seq(BitValues) /\ Len(SubSeq(v, 1, m)) = m
      /\ ReadTo(p + m, d, p, SubSeq(v, 1, m))
  BY <1>c, <1>3, <1>4, FirstBitsRead
<1>6. Int64_Decode(d, p, prop).at = p + m
  <2>1. Int64_Decode(d, p, prop).at = p + 0 + 32 + (m - 32 - 0)
    BY <1>1 DEF Int64_Decode, HighBits, Result
  <2> QED
    BY <1>1, <2>1
<1>7. Int64_Decode(d, p, prop).v = Extend(UBits(d, p, 32) \o UBits(d, p + 32, m - 32), 64, 0)
  <2>1. p + 0 = p /\ m - 32 - 0 = m - 32
    BY <1>1
  <2>2. Int64_Decode(d, p, prop).v
            = Extend(UBits(d, p + 0, 32) \o UBits(d, p + 0 + 32, m - 32 - 0), 64, 0)
    BY <1>1 DEF Int64_Decode, HighBits, Result
  <2> QED
    BY <2>1, <2>2
<1>8. ASSUME p + m <= Len(d) PROVE Int64_Decode(d, p, prop).v = v
  <2>1. IsAbove(v, m, W, b)
    BY <1>1, <1>a, <1>b, <1>z DEF Int64Has, IsAbove
  <2>2. Halved(L, R, m, W)
    BY <1>a DEF Halved
  <2>b. ShowsFirst(d, p, v, m)
    BY <1>4, <1>8 DEF ShowsFirst
  <2>3. Extend(BothParts(d, p, L, R), W, b) = v
    BY <2>b, <2>1, <2>2, HalvesRead
  <2> QED
    BY <1>7, <1>a, <1>z, <2>3 DEF BothParts
<1>9. ReadsAs(Int64_Decode(d, p, prop), d, p, SubSeq(v, 1, m), v)
  BY <1>5, <1>6, <1>8 DEF ReadsAs
<1> QED
  BY <1>2, <1>9

(* So is a signed one, of which the sign comes first.                      *)
LEMMA Int64SignedRead ==
    ASSUME NEW d \in Seq(BitValues), NEW p \in Nat, NEW prop, prop.unsigned = FALSE,
           prop.coding # "varint", LongWidth(prop.num_bits),
           NEW v, Int64Has(prop, v), Shows(d, p, Int64Code(prop, v))
    PROVE  ReadsAs(Int64_Decode(d, p, prop), d, p, Int64Code(prop, v), v)
<1>0. v \in Seq(BitValues) /\ Len(v) = 64
  BY DEF Int64Has, HasBits
<1>1. PICK n \in Nat : n = prop.num_bits /\ 33 <= n /\ n <= 64
  BY LongWidthIs
<1>2. PICK m \in Nat : m = n - 1 /\ 32 <= m /\ m <= 64 /\ m + 1 = n
  <2>1. n - 1 \in Nat /\ 32 <= n - 1 /\ n - 1 <= 64 /\ (n - 1) + 1 = n
    BY <1>1
  <2> QED
    BY <2>1
<1>3. PICK b \in BitValues : b = v[64]
  <2>1. 64 \in 1 .. Len(v)
    BY <1>0
  <2> QED
    BY <1>0, <2>1, SeqMember
<1> DEFINE w == IF b = 1 THEN Negated(v) ELSE v
<1>4. w \in Seq(BitValues) /\ Len(w) = 64
  BY <1>0, NegatedIs
<1>5. \A k \in m + 1 .. 64 : w[k] = 0
  BY <1>1, <1>2, <1>3 DEF Int64Has
<1>6. Int64Code(prop, v) = <<b>> \o SubSeq(w, 1, m)
  BY <1>1, <1>2, <1>3 DEF Int64Code
<1>7. (IF b = 1 THEN Negated(w) ELSE w) = v
  BY <1>0, NegatedTwice
<1> HIDE DEF w
<1>z. PICK z \in BitValues : z = 0
  BY DEF BitValues
<1>b. PICK W \in Nat, L \in Nat, R \in Nat :
         W = 64 /\ L = 32 /\ R = m - 32 /\ L + R = m /\ m <= W
  <2>1. m - 32 \in Nat /\ 32 + (m - 32) = m
    BY <1>2
  <2> QED
    BY <1>2, <2>1
<1>c. w \in Seq(BitValues) /\ Len(w) = W
  BY <1>4, <1>b
<1>8. m <= Len(w)
  BY <1>b, <1>c
<1>d. w \in Seq(BitValues)
  BY <1>4
<1>9. SubSeq(w, 1, m) \in Seq(BitValues) /\ Len(SubSeq(w, 1, m)) = m
  BY <1>d, <1>8, FirstBits
<1>10. <<b>> \in Seq(BitValues) /\ Len(<<b>>) = 1
  OBVIOUS
<1> DEFINE low == SubSeq(w, 1, m)
           sg == <<b>>
           code == sg \o low
<1>11. low \in Seq(BitValues) /\ sg \in Seq(BitValues)
  BY <1>9, <1>10
<1> HIDE DEF low, sg
<1>12. code \in Seq(BitValues) /\ Len(code) = Len(sg) + Len(low)
  BY <1>11, JoinedBits
<1>13. Shows(d, p, sg) /\ Shows(d, p + Len(sg), low)
  <2>1. Shows(d, p, sg \o low)
    BY <1>6 DEF sg, low
  <2> QED
    BY <1>11, <2>1, ShowsJoined
<1> HIDE DEF code
<1>14. Len(code) = 1 + m /\ Shows(d, p + 1, low)
  BY <1>9, <1>10, <1>12, <1>13 DEF low, sg
<1>15. Int64_Decode(d, p, prop).at = p + 1 + 32 + (n - 32 - 1)
  BY <1>1 DEF Int64_Decode, HighBits, Result
<1>a. n - 32 - 1 = m - 32 /\ p + 1 + 32 + (n - 32 - 1) = p + (1 + m) /\ p + 1 \in Nat
  BY <1>1, <1>2
<1>16. Int64_Decode(d, p, prop).v =
          LET temp == Extend(UBits(d, p + 1, 32) \o UBits(d, p + 1 + 32, m - 32), 64, 0)
          IN  IF OneBit(d, p) = 1 THEN Negated(temp) ELSE temp
  <2>1. HighBits(prop) = m - 32
    BY <1>1, <1>a DEF HighBits
  <2> QED
    BY <2>1 DEF Int64_Decode, Result
<1>17. ASSUME p + (1 + m) <= Len(d) PROVE Int64_Decode(d, p, prop).v = v
  <2>1. p + 1 <= Len(d) /\ (p + 1) + m <= Len(d)
    BY <1>2, <1>17
  <2>2. OneBit(d, p) = b
    BY <1>13, <2>1, ShownBit DEF sg
  <2>3. Extend(UBits(d, p + 1, 32) \o UBits(d, p + 1 + 32, m - 32), 64, 0) = w
    <3>0. PICK q \in Nat : q = p + 1
      OBVIOUS
    <3>1. ShowsFirst(d, q, w, m)
      BY <1>14, <2>1, <3>0 DEF low, ShowsFirst
    <3>2. IsAbove(w, m, W, z)
      BY <1>5, <1>b, <1>c, <1>z DEF IsAbove
    <3>3. Halved(L, R, m, W)
      BY <1>b DEF Halved
    <3>4. Extend(BothParts(d, q, L, R), W, z) = w
      BY <3>1, <3>2, <3>3, HalvesRead
    <3> QED
      BY <1>b, <1>z, <3>0, <3>4 DEF BothParts
  <2> QED
    BY <1>7, <1>16, <2>2, <2>3
<1>18. ReadTo(Int64_Decode(d, p, prop).at, d, p, code)
  <2>1. ReadTo(p + Len(code), d, p, code)
    BY <1>12, ReadToFixed
  <2> QED
    BY <1>14, <1>15, <1>a, <2>1
<1>19. ReadsAs(Int64_Decode(d, p, prop), d, p, code, v)
  BY <1>12, <1>14, <1>17, <1>18 DEF ReadsAs
<1> QED
  BY <1>6, <1>19 DEF code, sg, low

(* Int64_Decode reads a number as it was written, whatever the flags of    *)
(* its prop.                                                               *)
LEMMA Int64Read ==
    ASSUME NEW d \in Seq(BitValues), NEW p \in Nat, NEW prop, prop.unsigned \in BOOLEAN,
           prop.coding = "varint" \/ LongWidth(prop.num_bits),
           NEW v, Int64Has(prop, v), Shows(d, p, Int64Code(prop, v))
    PROVE  ReadsAs(Int64_Decode(d, p, prop), d, p, Int64Code(prop, v), v)
<1>1. CASE prop.coding = "varint"
  <2>0. v \in Seq(BitValues) /\ Len(v) = 64
    BY DEF Int64Has, HasBits
  <2> DEFINE code == VarIntCode(IF prop.unsigned THEN v ELSE ZigZagEncode(v))
  <2>1. Int64Code(prop, v) = code
    BY <1>1 DEF Int64Code
  <2>2. PICK u \in BOOLEAN : u = prop.unsigned
    OBVIOUS
  <2>3. PICK W \in Nat, max \in Nat : W = 64 /\ max = 10
    OBVIOUS
  <2>4. IsWidth(W, max) /\ Len(v) = W /\ W # 0
    BY <2>0, <2>3, Widths
  <2>5. Shows(d, p, VarIntCode(IF u THEN v ELSE ZigZagEncode(v)))
    BY <2>1, <2>2
  <2>6. ReadsAs(LET m == ReadVarInt(d, p, W, max)
                IN  IF u THEN m ELSE Result(ZigZagDecode(m.v), m.at),
                d, p, VarIntCode(IF u THEN v ELSE ZigZagEncode(v)), v)
    BY <2>0, <2>4, <2>5, VarIntReadsAs
  <2>7. Int64_Decode(d, p, prop) = LET m == ReadVarInt(d, p, W, max)
                                   IN  IF u THEN m ELSE Result(ZigZagDecode(m.v), m.at)
    BY <1>1, <2>2, <2>3 DEF Int64_Decode, ReadVarInt64, kMaxVarintBytes
  <2> QED
    BY <2>1, <2>2, <2>6, <2>7
<1>2. CASE prop.coding # "varint" /\ prop.unsigned
  BY <1>2, Int64UnsignedRead
<1>3. CASE prop.coding # "varint" /\ ~prop.unsigned
  BY <1>3, Int64SignedRead
<1> QED
  BY <1>1, <1>2, <1>3

(***************************************************************************)
(* Coordinates and the other codings of Float_Decode.                      *)
(***************************************************************************)

NumberFits(i, n) == n \in 0 .. 30 /\ i \in Nat /\ i < 2^n
IsThere(d, p, i, n) ==
    d \in Seq(BitValues) /\ p \in Nat /\ Shows(d, p, ToBits(i, n)) /\ p + n <= Len(d)

(* A number that fits its bits is read as it was written.                  *)
LEMMA PlainNumber ==
    ASSUME NEW d, NEW p, NEW i, NEW n, NumberFits(i, n), IsThere(d, p, i, n)
    PROVE  UNat(d, p, n) = i
  BY ShownNumber DEF NumberFits, IsThere

(* And takes as many bits as it is given.                                  *)
LEMMA NumberBits ==
    ASSUME NEW i, NEW n, NumberFits(i, n)
    PROVE  ToBits(i, n) \in Seq(BitValues) /\ Len(ToBits(i, n)) = n
<1>1. n \in Nat /\ i \in Nat /\ n <= 30
  BY DEF NumberFits
<1> QED
  BY <1>1, ToBitsIs

(* A part that is left out when there is nothing to say.                   *)
LEMMA OptionalBits ==
    ASSUME NEW none \in BOOLEAN, NEW s \in Seq(BitValues)
    PROVE  /\ Unless(none, s) \in Seq(BitValues)
           /\ Len(Unless(none, s)) = IF none THEN 0 ELSE Len(s)
           /\ ~none => Unless(none, s) = s
<1>1. CASE none
  <2>1. Unless(none, s) = << >>
    BY <1>1 DEF Unless
  <2>2. PICK e \in Seq(BitValues) : e = << >> /\ Len(e) = 0
    <3>1. << >> \in Seq(BitValues)
      OBVIOUS
    <3>2. Len(<< >>) = 0
      OBVIOUS
    <3> QED
      BY <3>1, <3>2, Zenon
  <2>3. Unless(none, s) = e
    BY <2>1, <2>2
  <2> QED
    BY <1>1, <2>2, <2>3
<1>2. CASE ~none
  <2>1. Unless(none, s) = s
    BY <1>2 DEF Unless
  <2> QED
    BY <1>2, <2>1
<1> QED
  BY <1>1, <1>2

(* Two flags, and three pieces behind them.                                *)
Shape(code, b1, b2, s, w, x) ==
    /\ code = (((<<b1>> \o <<b2>>) \o s) \o w) \o x
    /\ b1 \in BitValues /\ b2 \in BitValues
    /\ s \in Seq(BitValues) /\ w \in Seq(BitValues) /\ x \in Seq(BitValues)

(* Two bits tell which of three optional parts of a coordinate follow.     *)
LEMMA ShapeShown ==
    ASSUME NEW d \in Seq(BitValues), NEW p \in Nat,
           NEW code, NEW b1, NEW b2, NEW s, NEW w, NEW x,
           Shape(code, b1, b2, s, w, x), Shows(d, p, code)
    PROVE  /\ code \in Seq(BitValues) /\ Len(code) = 2 + Len(s) + Len(w) + Len(x)
           /\ p + 2 <= Len(d) => OneBit(d, p) = b1 /\ OneBit(d, p + 1) = b2
           /\ Shows(d, p + 2, s) /\ Shows(d, p + 2 + Len(s), w)
           /\ Shows(d, p + 2 + Len(s) + Len(w), x)
<1> DEFINE f1 == <<b1>>
           f2 == <<b2>>
           c2 == f1 \o f2
           c3 == c2 \o s
           c4 == c3 \o w
           c5 == c4 \o x
<1>1. /\ f1 \in Seq(BitValues) /\ f2 \in Seq(BitValues)
      /\ s \in Seq(BitValues) /\ w \in Seq(BitValues) /\ x \in Seq(BitValues)
  BY DEF Shape
<1>a. Len(f1) = 1 /\ Len(f2) = 1
  OBVIOUS
<1>0. Shows(d, p, c5) /\ code = c5
  BY DEF Shape
<1> HIDE DEF f1, f2
<1>2. c2 \in Seq(BitValues) /\ Len(c2) = Len(f1) + Len(f2)
  BY <1>1, JoinedBits
<1>b. c2 \in Seq(BitValues)
  BY <1>2
<1> HIDE DEF c2
<1>3. c3 \in Seq(BitValues) /\ Len(c3) = Len(c2) + Len(s)
  BY <1>1, <1>b, JoinedBits
<1>c. c3 \in Seq(BitValues)
  BY <1>3
<1> HIDE DEF c3
<1>4. c4 \in Seq(BitValues) /\ Len(c4) = Len(c3) + Len(w)
  BY <1>1, <1>c, JoinedBits
<1>d. c4 \in Seq(BitValues)
  BY <1>4
<1> HIDE DEF c4
<1>5. c5 \in Seq(BitValues) /\ Len(c5) = Len(c4) + Len(x)
  BY <1>1, <1>d, JoinedBits
<1>6. Shows(d, p, c4) /\ Shows(d, p + Len(c4), x)
  BY <1>0, <1>1, <1>d, ShowsJoined
<1>7. Shows(d, p, c3) /\ Shows(d, p + Len(c3), w)
  <2>1. Shows(d, p, c3 \o w)
    BY <1>6 DEF c4
  <2> QED
    BY <1>1, <1>c, <2>1, ShowsJoined
<1>8. Shows(d, p, c2) /\ Shows(d, p + Len(c2), s)
  <2>1. Shows(d, p, c2 \o s)
    BY <1>7 DEF c3
  <2> QED
    BY <1>1, <1>b, <2>1, ShowsJoined
<1>9. Shows(d, p, f1) /\ Shows(d, p + Len(f1), f2)
  <2>1. Shows(d, p, f1 \o f2)
    BY <1>8 DEF c2
  <2> QED
    BY <1>1, <2>1, ShowsJoined
<1>10. Len(s) \in Nat /\ Len(w) \in Nat /\ Len(x) \in Nat
  BY <1>1
<1>11. /\ Len(c2) = 2 /\ Len(c3) = 2 + Len(s) /\ Len(c4) = 2 + Len(s) + Len(w)
       /\ Len(c5) = 2 + Len(s) + Len(w) + Len(x)
  BY <1>a, <1>2, <1>3, <1>4, <1>5, <1>10
<1>12. ASSUME p + 2 <= Len(d) PROVE OneBit(d, p) = b1 /\ OneBit(d, p + 1) = b2
  <2>1. p + 1 \in Nat /\ p + 1 <= Len(d) /\ (p + 1) + 1 <= Len(d)
    BY <1>12
  <2>2. b1 \in BitValues /\ b2 \in BitValues
    BY DEF Shape
  <2>3. Shows(d, p, <<b1>>) /\ Shows(d, p + 1, <<b2>>)
    BY <1>9, <1>a DEF f1, f2
  <2>4. OneBit(d, p) = b1
    BY <2>1, <2>2, <2>3, ShownBit
  <2>5. OneBit(d, p + 1) = b2
    <3>1. PICK q \in Nat : q = p + 1
      BY <2>1
    <3> QED
      BY <2>1, <2>2, <2>3, <3>1, ShownBit
  <2> QED
    BY <2>4, <2>5
<1>13. Shows(d, p + 2, s)
  BY <1>8, <1>11
<1>14. Shows(d, p + 2 + Len(s), w)
  <2>1. p + Len(c3) = p + 2 + Len(s)
    BY <1>10, <1>11
  <2> QED
    BY <1>7, <2>1
<1>15. Shows(d, p + 2 + Len(s) + Len(w), x)
  <2>1. p + Len(c4) = p + 2 + Len(s) + Len(w)
    BY <1>10, <1>11
  <2> QED
    BY <1>6, <2>1
<1> QED
  BY <1>0, <1>5, <1>11, <1>12, <1>13, <1>14, <1>15

SignedShape(code, c, b1, b2, none, wh, n, nox, pa, f) ==
    /\ code = (((<<b1>> \o <<b2>>) \o Unless(none, Flag(c < 0)))
                    \o Unless(wh = 0, ToBits(wh - 1, n))) \o Unless(nox, ToBits(pa, f))
    /\ b1 \in BitValues /\ b2 \in BitValues /\ none \in BOOLEAN /\ nox \in BOOLEAN /\ c \in Int
    /\ wh \in Nat /\ (wh # 0 => NumberFits(wh - 1, n)) /\ n \in 0 .. 30
    /\ NumberFits(pa, f)

SignBits(none) == IF none THEN 0 ELSE 1
WholeBits(wh, n) == IF wh = 0 THEN 0 ELSE n
PartBits(nox, f) == IF nox THEN 0 ELSE f

IsPlace(d, p) == d \in Seq(BitValues) /\ p \in Nat

SignedIsRead(d, p, code, c, b1, b2, none, wh, n, nox, pa, f) ==
    /\ code \in Seq(BitValues)
    /\ Len(code) = 2 + SignBits(none) + WholeBits(wh, n) + PartBits(nox, f)
    /\ SignBits(none) \in Nat /\ WholeBits(wh, n) \in Nat /\ PartBits(nox, f) \in Nat
    /\ p + 2 <= Len(d) => OneBit(d, p) = b1 /\ OneBit(d, p + 1) = b2
    /\ p + Len(code) <= Len(d) =>
          /\ ~none => OneBit(d, p + 2) = IF c < 0 THEN 1 ELSE 0
          /\ wh # 0 => UNat(d, p + 2 + SignBits(none), n) = wh - 1
          /\ ~nox => UNat(d, p + 2 + SignBits(none) + WholeBits(wh, n), f) = pa

(* A coordinate of that shape is read as it was written.                   *)
LEMMA SignedParts ==
    ASSUME NEW d, NEW p, IsPlace(d, p), NEW code, NEW c, NEW b1, NEW b2, NEW none,
           NEW wh, NEW n, NEW nox, NEW pa, NEW f,
           SignedShape(code, c, b1, b2, none, wh, n, nox, pa, f), Shows(d, p, code)
    PROVE  SignedIsRead(d, p, code, c, b1, b2, none, wh, n, nox, pa, f)
<1> DEFINE s == Unless(none, Flag(c < 0))
           w == Unless(wh = 0, ToBits(wh - 1, n))
           x == Unless(nox, ToBits(pa, f))
<1>a. d \in Seq(BitValues) /\ p \in Nat
  BY DEF IsPlace
<1>0. /\ none \in BOOLEAN /\ nox \in BOOLEAN /\ c \in Int /\ wh \in Nat /\ n \in 0 .. 30
      /\ NumberFits(pa, f) /\ (wh # 0 => NumberFits(wh - 1, n))
  BY DEF SignedShape
<1>1. PICK b \in BitValues : Flag(c < 0) = <<b>> /\ b = (IF c < 0 THEN 1 ELSE 0)
  <2>1. 0 \in BitValues /\ 1 \in BitValues
    BY DEF BitValues
  <2>2. CASE c < 0
    <3>1. Flag(c < 0) = << 1 >>
      BY <2>2 DEF Flag
    <3> QED
      BY <2>1, <2>2, <3>1
  <2>3. CASE ~(c < 0)
    <3>1. Flag(c < 0) = << 0 >>
      BY <2>3 DEF Flag
    <3> QED
      BY <2>1, <2>3, <3>1
  <2> QED
    BY <2>2, <2>3
<1>2. PICK fl \in Seq(BitValues) : fl = Flag(c < 0) /\ Len(fl) = 1 /\ fl = <<b>>
  <2>1. <<b>> \in Seq(BitValues)
    OBVIOUS
  <2>2. Len(<<b>>) = 1
    OBVIOUS
  <2> QED
    BY <1>1, <2>1, <2>2, Zenon
<1>3. /\ s \in Seq(BitValues) /\ Len(s) = SignBits(none) /\ (~none => s = <<b>>)
  <2>2. /\ Unless(none, fl) \in Seq(BitValues)
        /\ Len(Unless(none, fl)) = IF none THEN 0 ELSE Len(fl)
        /\ ~none => Unless(none, fl) = fl
    BY <1>0, OptionalBits
  <2> QED
    BY <1>2, <2>2 DEF SignBits
<1>4. /\ w \in Seq(BitValues) /\ Len(w) = WholeBits(wh, n)
      /\ wh # 0 => w = ToBits(wh - 1, n)
  <2>1. CASE wh = 0
    <3>1. w = << >>
      BY <2>1 DEF Unless
    <3>2. PICK e \in Seq(BitValues) : e = << >> /\ Len(e) = 0
      <4>1. << >> \in Seq(BitValues)
        OBVIOUS
      <4>2. Len(<< >>) = 0
        OBVIOUS
      <4> QED
        BY <4>1, <4>2, Zenon
    <3>3. w = e /\ WholeBits(wh, n) = 0
      BY <2>1, <3>1, <3>2 DEF WholeBits
    <3> HIDE DEF w
    <3> QED
      BY <2>1, <3>2, <3>3
  <2>2. CASE wh # 0
    <3>1. w = ToBits(wh - 1, n)
      BY <2>2 DEF Unless
    <3>2. NumberFits(wh - 1, n)
      BY <1>0, <2>2
    <3>3. PICK j : j = wh - 1
      OBVIOUS
    <3>4. PICK t \in Seq(BitValues) : t = ToBits(j, n) /\ Len(t) = n
      BY <3>2, <3>3, NumberBits
    <3>5. w = t /\ t = ToBits(wh - 1, n)
      BY <3>1, <3>3, <3>4
    <3>6. WholeBits(wh, n) = n
      BY <2>2 DEF WholeBits
    <3> HIDE DEF w
    <3>7. w \in Seq(BitValues) /\ Len(w) = WholeBits(wh, n)
      BY <3>4, <3>5, <3>6
    <3> QED
      BY <3>5, <3>7
  <2> QED
    BY <2>1, <2>2
<1>5. x \in Seq(BitValues) /\ Len(x) = PartBits(nox, f) /\ (~nox => x = ToBits(pa, f))
  <2>1. PICK t \in Seq(BitValues) : t = ToBits(pa, f) /\ Len(t) = f
    BY <1>0, NumberBits
  <2>2. /\ Unless(nox, t) \in Seq(BitValues)
        /\ Len(Unless(nox, t)) = IF nox THEN 0 ELSE Len(t)
        /\ ~nox => Unless(nox, t) = t
    BY <1>0, OptionalBits
  <2> QED
    BY <2>1, <2>2 DEF PartBits
<1>6. Shape(code, b1, b2, s, w, x)
  <2>1. /\ code = (((<<b1>> \o <<b2>>) \o s) \o w) \o x
        /\ b1 \in BitValues /\ b2 \in BitValues
    BY DEF SignedShape
  <2>2. s \in Seq(BitValues) /\ w \in Seq(BitValues) /\ x \in Seq(BitValues)
    BY <1>3, <1>4, <1>5
  <2> HIDE DEF s, w, x
  <2> QED
    BY <2>1, <2>2 DEF Shape
<1> HIDE DEF s, w, x
<1>7. /\ code \in Seq(BitValues) /\ Len(code) = 2 + Len(s) + Len(w) + Len(x)
      /\ p + 2 <= Len(d) => OneBit(d, p) = b1 /\ OneBit(d, p + 1) = b2
      /\ Shows(d, p + 2, s) /\ Shows(d, p + 2 + Len(s), w)
      /\ Shows(d, p + 2 + Len(s) + Len(w), x)
  <2>1. Shows(d, p, code)
    OBVIOUS
  <2> QED
    BY <1>a, <1>6, <2>1, ShapeShown
<1>8. PICK ls \in Nat, lw \in Nat, lx \in Nat :
         ls = SignBits(none) /\ lw = WholeBits(wh, n) /\ lx = PartBits(nox, f)
  <2>1. Len(s) \in Nat /\ Len(w) \in Nat /\ Len(x) \in Nat
    BY <1>3, <1>4, <1>5
  <2> QED
    BY <1>3, <1>4, <1>5, <2>1
<1>9. Len(code) = 2 + ls + lw + lx
  BY <1>3, <1>4, <1>5, <1>7, <1>8
<1>10. Shows(d, p + 2, s) /\ Shows(d, p + 2 + ls, w) /\ Shows(d, p + 2 + ls + lw, x)
  BY <1>3, <1>4, <1>7, <1>8
<1>11. ASSUME p + Len(code) <= Len(d), ~none
       PROVE  OneBit(d, p + 2) = IF c < 0 THEN 1 ELSE 0
  <2>1. ls = 1
    BY <1>8, <1>11 DEF SignBits
  <2>2. PICK q \in Nat : q = p + 2 /\ q + 1 <= Len(d)
    BY <1>a, <1>9, <1>11, <2>1
  <2>3. Shows(d, q, <<b>>)
    BY <1>3, <1>10, <1>11, <2>2
  <2>4. OneBit(d, q) = b
    BY <1>a, <2>2, <2>3, ShownBit
  <2> QED
    BY <1>1, <2>2, <2>4
<1>12. ASSUME p + Len(code) <= Len(d), wh # 0 PROVE UNat(d, p + 2 + ls, n) = wh - 1
  <2>1. lw = n
    BY <1>8, <1>12 DEF WholeBits
  <2>2. PICK q \in Nat : q = p + 2 + ls /\ q + n <= Len(d)
    BY <1>a, <1>9, <1>12, <2>1
  <2>3. PICK j : j = wh - 1
    OBVIOUS
  <2>4. NumberFits(j, n) /\ Shows(d, q, ToBits(j, n))
    BY <1>0, <1>4, <1>10, <1>12, <2>2, <2>3
  <2>5. IsThere(d, q, j, n)
    BY <1>a, <2>2, <2>4 DEF IsThere
  <2>6. UNat(d, q, n) = j
    BY <2>4, <2>5, PlainNumber
  <2> QED
    BY <2>2, <2>3, <2>6
<1>13. ASSUME p + Len(code) <= Len(d), ~nox PROVE UNat(d, p + 2 + ls + lw, f) = pa
  <2>1. lx = f
    BY <1>8, <1>13 DEF PartBits
  <2>2. PICK q \in Nat : q = p + 2 + ls + lw /\ q + f <= Len(d)
    BY <1>a, <1>9, <1>13, <2>1
  <2>4. Shows(d, q, ToBits(pa, f))
    BY <1>5, <1>10, <1>13, <2>2
  <2>5. IsThere(d, q, pa, f)
    BY <1>a, <2>2, <2>4 DEF IsThere
  <2>6. UNat(d, q, f) = pa
    BY <1>0, <2>5, PlainNumber
  <2> QED
    BY <2>2, <2>6
<1> QED
  BY <1>7, <1>8, <1>9, <1>11, <1>12, <1>13 DEF SignedIsRead

(* A bit is 0 or 1.                                                        *)
LEMMA BitIs ==
    ASSUME NEW d \in Seq(BitValues), NEW p \in Nat
    PROVE  OneBit(d, p) = 0 \/ OneBit(d, p) = 1
<1>1. OneBit(d, p) \in BitValues
  BY OneBitIs
<1> QED
  BY <1>1 DEF BitValues

(* A number in units of 1/K: the whole ones and the rest.                  *)
LEMMA AmountIs ==
    ASSUME NEW c \in Int, NEW K \in Nat \ {0}
    PROVE  /\ Amount(c) \in Nat
           /\ Amount(c) \div K \in Nat /\ Amount(c) % K \in Nat /\ Amount(c) % K < K
           /\ Amount(c) = K * (Amount(c) \div K) + (Amount(c) % K)
           /\ (IF c < 0 THEN -Amount(c) ELSE Amount(c)) = c
<1>1. PICK a \in Nat : a = Amount(c) /\ (IF c < 0 THEN -a ELSE a) = c
  <2>1. CASE c < 0
    BY <2>1 DEF Amount
  <2>2. CASE ~(c < 0)
    BY <2>2 DEF Amount
  <2> QED
    BY <2>1, <2>2
<1>2. a \div K \in Nat /\ a % K \in Nat /\ a % K < K /\ a = K * (a \div K) + (a % K)
  OBVIOUS
<1> QED
  BY <1>1, <1>2

(* ReadBitCoord goes on.                                                   *)
LEMMA CoordTyped ==
    ASSUME NEW d \in Seq(BitValues), NEW p \in Nat
    PROVE  ReadBitCoord(d, p).at \in Nat /\ ReadBitCoord(d, p).at >= p + 2
<1>0. p + 1 \in Nat
  OBVIOUS
<1>1. PICK b1 : b1 = OneBit(d, p) /\ (b1 = 0 \/ b1 = 1)
  BY BitIs
<1>2. PICK b2 : b2 = OneBit(d, p + 1) /\ (b2 = 0 \/ b2 = 1)
  BY <1>0, BitIs
<1>3. ReadBitCoord(d, p).at = IF b1 = 0 /\ b2 = 0 THEN p + 2 ELSE p + 3 + b1 * 14 + b2 * 5
  BY <1>1, <1>2 DEF ReadBitCoord, Result, COORD_INTEGER_BITS, COORD_FRACTIONAL_BITS
<1> QED
  BY <1>1, <1>2, <1>3

CoordParts(c, wh, pa, b1, b2, none, nox) ==
    /\ wh \in Nat /\ pa \in Nat /\ b1 \in {0, 1} /\ b2 \in {0, 1}
    /\ none \in BOOLEAN /\ nox \in BOOLEAN /\ c \in Int
    /\ SignedShape(CoordCode(c), c, b1, b2, none, wh, 14, nox, pa, 5)
    /\ Amount(c) = 32 * wh + pa
    /\ (b1 = 0 <=> wh = 0) /\ (b2 = 0 <=> pa = 0) /\ (none <=> wh = 0 /\ pa = 0)
    /\ (nox <=> pa = 0)
    /\ (IF c < 0 THEN -Amount(c) ELSE Amount(c)) = c

(* The code of a coordinate has that shape.                                *)
LEMMA CoordShape ==
    ASSUME NEW c, CoordHas(c, 5)
    PROVE  \E wh, pa, b1, b2, none, nox : CoordParts(c, wh, pa, b1, b2, none, nox)
<1>0. 2^5 = 32
  OBVIOUS
<1>1. c \in Int /\ Amount(c) \div 32 <= 2^14
  BY <1>0 DEF CoordHas
<1>2. PICK K \in Nat \ {0} : K = 32
  OBVIOUS
<1>3. PICK a \in Nat, wh \in Nat, pa \in Nat :
         /\ a = Amount(c) /\ wh = Amount(c) \div 32 /\ pa = Amount(c) % 32
         /\ pa < 32 /\ a = 32 * wh + pa /\ (IF c < 0 THEN -a ELSE a) = c
  <2>0. c \in Int
    BY <1>1
  <2>1. /\ Amount(c) \in Nat
        /\ Amount(c) \div K \in Nat /\ Amount(c) % K \in Nat /\ Amount(c) % K < K
        /\ Amount(c) = K * (Amount(c) \div K) + (Amount(c) % K)
        /\ (IF c < 0 THEN -Amount(c) ELSE Amount(c)) = c
    BY <2>0, AmountIs
  <2> QED
    BY <1>2, <2>1
<1>4. PICK b1 \in {0, 1}, b2 \in {0, 1} : (b1 = 0 <=> wh = 0) /\ (b2 = 0 <=> pa = 0)
  <2>1. PICK b1 \in {0, 1} : b1 = 0 <=> wh = 0
    <3>1. CASE wh = 0
      BY <3>1
    <3>2. CASE wh # 0
      BY <3>2
    <3> QED
      BY <3>1, <3>2
  <2>2. PICK b2 \in {0, 1} : b2 = 0 <=> pa = 0
    <3>1. CASE pa = 0
      BY <3>1
    <3>2. CASE pa # 0
      BY <3>2
    <3> QED
      BY <3>1, <3>2
  <2> QED
    BY <2>1, <2>2
<1>5. PICK none \in BOOLEAN : none <=> wh = 0 /\ pa = 0
  OBVIOUS
<1>6. PICK nox \in BOOLEAN : nox <=> pa = 0
  OBVIOUS
<1>7. c = 0 <=> wh = 0 /\ pa = 0
  <2>1. c = 0 <=> a = 0
    BY <1>1, <1>3
  <2>2. a = 0 <=> wh = 0 /\ pa = 0
    BY <1>3
  <2> QED
    BY <2>1, <2>2
<1>8. Flag(wh > 0) = <<b1>> /\ Flag(pa > 0) = <<b2>>
  <2>1. Flag(wh > 0) = <<b1>>
    <3>1. CASE wh = 0
      <4>1. ~(wh > 0) /\ b1 = 0
        BY <1>4, <3>1
      <4> QED
        BY <4>1 DEF Flag
    <3>2. CASE wh # 0
      <4>1. wh > 0 /\ b1 = 1
        BY <1>4, <3>2
      <4> QED
        BY <4>1 DEF Flag
    <3> QED
      BY <3>1, <3>2
  <2>2. Flag(pa > 0) = <<b2>>
    <3>1. CASE pa = 0
      <4>1. ~(pa > 0) /\ b2 = 0
        BY <1>4, <3>1
      <4> QED
        BY <4>1 DEF Flag
    <3>2. CASE pa # 0
      <4>1. pa > 0 /\ b2 = 1
        BY <1>4, <3>2
      <4> QED
        BY <4>1 DEF Flag
    <3> QED
      BY <3>1, <3>2
  <2> QED
    BY <2>1, <2>2
<1>9. CoordCode(c) = (((<<b1>> \o <<b2>>) \o Unless(none, Flag(c < 0)))
                    \o Unless(wh = 0, ToBits(wh - 1, 14))) \o Unless(nox, ToBits(pa, 5))
  BY <1>3, <1>5, <1>6, <1>7, <1>8 DEF CoordCode, Unless
<1>10. wh # 0 => NumberFits(wh - 1, 14)
  BY <1>1, <1>3 DEF NumberFits
<1>11. NumberFits(pa, 5)
  BY <1>0, <1>3 DEF NumberFits
<1>12. b1 \in BitValues /\ b2 \in BitValues /\ 14 \in 0 .. 30
  BY DEF BitValues
<1>13. SignedShape(CoordCode(c), c, b1, b2, none, wh, 14, nox, pa, 5)
  BY <1>1, <1>9, <1>10, <1>11, <1>12 DEF SignedShape
<1>14. CoordParts(c, wh, pa, b1, b2, none, nox)
  BY <1>1, <1>3, <1>4, <1>5, <1>6, <1>13 DEF CoordParts
<1> QED
  BY <1>14

(* ReadBitCoord reads a coordinate as it was written.                      *)
LEMMA CoordRead ==
    ASSUME NEW d \in Seq(BitValues), NEW p \in Nat, NEW c, CoordHas(c, 5),
           Shows(d, p, CoordCode(c))
    PROVE  ReadsAs(ReadBitCoord(d, p), d, p, CoordCode(c), c)
<1>p. PICK wh, pa, b1, b2, none, nox : CoordParts(c, wh, pa, b1, b2, none, nox)
  BY CoordShape
<1>1. /\ wh \in Nat /\ pa \in Nat /\ b1 \in {0, 1} /\ b2 \in {0, 1}
      /\ none \in BOOLEAN /\ nox \in BOOLEAN /\ c \in Int
      /\ SignedShape(CoordCode(c), c, b1, b2, none, wh, 14, nox, pa, 5)
      /\ Amount(c) = 32 * wh + pa
      /\ (b1 = 0 <=> wh = 0) /\ (b2 = 0 <=> pa = 0) /\ (none <=> wh = 0 /\ pa = 0)
      /\ (nox <=> pa = 0)
      /\ (IF c < 0 THEN -Amount(c) ELSE Amount(c)) = c
  BY <1>p DEF CoordParts
<1> DEFINE code == CoordCode(c)
           r == ReadBitCoord(d, p)
<1>0. code = CoordCode(c)
  OBVIOUS
<1> HIDE DEF code
<1>2. PICK n, f : n = 14 /\ f = 5
  OBVIOUS
<1>3. SignedShape(code, c, b1, b2, none, wh, n, nox, pa, f) /\ Shows(d, p, code)
  BY <1>0, <1>1, <1>2
<1>4. /\ code \in Seq(BitValues)
      /\ Len(code) = 2 + SignBits(none) + WholeBits(wh, n) + PartBits(nox, f)
      /\ SignBits(none) \in Nat /\ WholeBits(wh, n) \in Nat /\ PartBits(nox, f) \in Nat
      /\ p + 2 <= Len(d) => OneBit(d, p) = b1 /\ OneBit(d, p + 1) = b2
      /\ p + Len(code) <= Len(d) =>
            /\ ~none => OneBit(d, p + 2) = IF c < 0 THEN 1 ELSE 0
            /\ wh # 0 => UNat(d, p + 2 + SignBits(none), n) = wh - 1
            /\ ~nox => UNat(d, p + 2 + SignBits(none) + WholeBits(wh, n), f) = pa
  <2>1. IsPlace(d, p)
    BY DEF IsPlace
  <2>2. SignedIsRead(d, p, code, c, b1, b2, none, wh, n, nox, pa, f)
    BY <1>3, <2>1, SignedParts
  <2> QED
    BY <2>2 DEF SignedIsRead
<1>5. Len(code) = IF wh = 0 /\ pa = 0 THEN 2 ELSE 3 + b1 * 14 + b2 * 5
  <2>1. SignBits(none) = IF wh = 0 /\ pa = 0 THEN 0 ELSE 1
    BY <1>1 DEF SignBits
  <2>2. WholeBits(wh, n) = b1 * 14
    BY <1>1, <1>2 DEF WholeBits
  <2>3. PartBits(nox, f) = b2 * 5
    BY <1>1, <1>2 DEF PartBits
  <2> QED
    BY <1>1, <1>4, <2>1, <2>2, <2>3
<1>6. r.at \in Nat /\ r.at >= p + 2
  BY CoordTyped
<1>7. ASSUME p + 2 <= Len(d) PROVE r.at = p + Len(code)
  <2>1. OneBit(d, p) = b1 /\ OneBit(d, p + 1) = b2
    BY <1>4, <1>7
  <2>2. r.at = IF b1 = 0 /\ b2 = 0 THEN p + 2 ELSE p + 3 + b1 * 14 + b2 * 5
    BY <2>1 DEF ReadBitCoord, Result, COORD_INTEGER_BITS, COORD_FRACTIONAL_BITS
  <2> QED
    BY <1>1, <1>5, <2>2
<1>8. Len(code) \in Nat /\ Len(code) >= 2
  BY <1>1, <1>5
<1>9. ReadTo(r.at, d, p, code)
  <2>1. PICK h \in Nat, at \in Nat : h = 2 /\ at = r.at
    BY <1>6
  <2> HIDE DEF r
  <2>2. at >= p + h /\ Len(code) >= h /\ (p + h <= Len(d) => at = p + Len(code))
    BY <1>6, <1>7, <1>8, <2>1
  <2>3. code \in Seq(BitValues)
    BY <1>4
  <2>4. ReadTo(at, d, p, code)
    BY <2>2, <2>3, ReadToPart
  <2> QED
    BY <2>1, <2>4
<1>10. ASSUME p + Len(code) <= Len(d) PROVE r.v = c
  <2>1. OneBit(d, p) = b1 /\ OneBit(d, p + 1) = b2
    BY <1>4, <1>8, <1>10
  <2>2. CASE wh = 0 /\ pa = 0
    <3>1. c = 0
      BY <1>1, <2>2
    <3>2. b1 = 0 /\ b2 = 0
      BY <1>1, <2>2
    <3> QED
      BY <2>1, <3>1, <3>2 DEF ReadBitCoord, Result
  <2>3. CASE ~(wh = 0 /\ pa = 0)
    <3>1. ~(b1 = 0 /\ b2 = 0) /\ ~none
      BY <1>1, <2>3
    <3>2. OneBit(d, p + 2) = IF c < 0 THEN 1 ELSE 0
      BY <1>4, <1>10, <3>1
    <3>3. SignBits(none) = 1
      BY <3>1 DEF SignBits
    <3>4. (IF b1 = 1 THEN UNat(d, p + 3, 14) + 1 ELSE 0) = wh
      <4>1. CASE wh = 0
        BY <1>1, <4>1
      <4>2. CASE wh # 0
        <5>1. UNat(d, p + 2 + 1, 14) = wh - 1
          BY <1>2, <1>4, <1>10, <3>3, <4>2
        <5>2. p + 2 + 1 = p + 3
          OBVIOUS
        <5>3. UNat(d, p + 3, 14) = wh - 1 /\ b1 = 1
          BY <1>1, <4>2, <5>1, <5>2
        <5>4. wh \in Nat
          BY <1>1
        <5> QED
          BY <5>3, <5>4
      <4> QED
        BY <4>1, <4>2
    <3>5. (IF b2 = 1 THEN UNat(d, p + 3 + b1 * 14, 5) ELSE 0) = pa
      <4>1. CASE pa = 0
        BY <1>1, <4>1
      <4>2. CASE pa # 0
        <5>1. UNat(d, p + 2 + 1 + WholeBits(wh, n), 5) = pa
          BY <1>1, <1>2, <1>4, <1>10, <3>3, <4>2
        <5>2. p + 2 + 1 + WholeBits(wh, n) = p + 3 + b1 * 14
          BY <1>1, <1>2 DEF WholeBits
        <5>3. UNat(d, p + 3 + b1 * 14, 5) = pa /\ b2 = 1
          BY <1>1, <4>2, <5>1, <5>2
        <5> QED
          BY <5>3
      <4> QED
        BY <4>1, <4>2
    <3>6. 2^5 = 32
      OBVIOUS
    <3>7. r.v = WithSign(OneBit(d, p + 2), 32 * wh + pa)
      BY <2>1, <3>1, <3>4, <3>5, <3>6
      DEF ReadBitCoord, Result, COORD_INTEGER_BITS, COORD_FRACTIONAL_BITS, WholeUnits
    <3> QED
      BY <1>1, <3>2, <3>7 DEF WithSign
  <2> QED
    BY <2>2, <2>3
<1> HIDE DEF r
<1>11. ReadsAs(r, d, p, code, c)
  BY <1>4, <1>9, <1>10 DEF ReadsAs
<1> QED
  BY <1>0, <1>11 DEF r

Fraction(f, K) == f \in {0, 3, 5} /\ K = 2^f

(* The bits of a coordinate's fraction.                                    *)
LEMMA FractionIs ==
    ASSUME NEW f, NEW K, Fraction(f, K)
    PROVE  f \in 0 .. 30 /\ f \in Nat /\ K \in Nat \ {0} /\ (f = 0 => K = 1)
<1>1. 2^0 = 1 /\ 2^3 = 8 /\ 2^5 = 32
  OBVIOUS
<1>2. CASE f = 0
  BY <1>1, <1>2 DEF Fraction
<1>3. CASE f = 3
  <2>1. K = 8
    BY <1>1, <1>3 DEF Fraction
  <2> QED
    BY <1>3, <2>1
<1>4. CASE f = 5
  <2>1. K = 32
    BY <1>1, <1>4 DEF Fraction
  <2> QED
    BY <1>4, <2>1
<1> QED
  BY <1>2, <1>3, <1>4 DEF Fraction

(* ReadBitCoordMP goes on.                                                 *)
LEMMA CoordMPTyped ==
    ASSUME NEW d \in Seq(BitValues), NEW p \in Nat, NEW f, NEW K, Fraction(f, K)
    PROVE  ReadBitCoordMP(d, p, f).at \in Nat /\ ReadBitCoordMP(d, p, f).at >= p + 2
<1>0. p + 1 \in Nat /\ f \in Nat
  BY FractionIs
<1>1. PICK b1 : b1 = OneBit(d, p) /\ (b1 = 0 \/ b1 = 1)
  BY BitIs
<1>2. PICK b2 : b2 = OneBit(d, p + 1) /\ (b2 = 0 \/ b2 = 1)
  BY <1>0, BitIs
<1>3. ReadBitCoordMP(d, p, f).at = IF f = 0 /\ b2 = 0 THEN p + 2
                                   ELSE p + 3 + b2 * (IF b1 = 1 THEN 11 ELSE 14) + f
  BY <1>1, <1>2 DEF ReadBitCoordMP, Result, COORD_INTEGER_BITS, COORD_INTEGER_BITS_MP
<1> QED
  BY <1>0, <1>1, <1>2, <1>3

CoordMPParts(c, f, K, wh, pa, b1, b2, none, n) ==
    /\ wh \in Nat /\ pa \in Nat /\ b1 \in {0, 1} /\ b2 \in {0, 1}
    /\ none \in BOOLEAN /\ c \in Int /\ n = (IF b1 = 1 THEN 11 ELSE 14)
    /\ SignedShape(CoordMPCode(c, f), c, b1, b2, none, wh, n, FALSE, pa, f)
    /\ Amount(c) = K * wh + pa /\ pa < K
    /\ (b2 = 0 <=> wh = 0) /\ (none <=> f = 0 /\ wh = 0)
    /\ (IF c < 0 THEN -Amount(c) ELSE Amount(c)) = c

(* The code of such a coordinate is two bits, its sign and its number.     *)
LEMMA CoordMPShape ==
    ASSUME NEW c, NEW f, NEW K, Fraction(f, K), CoordHas(c, f)
    PROVE  \E wh, pa, b1, b2, none, n : CoordMPParts(c, f, K, wh, pa, b1, b2, none, n)
<1>0. f \in 0 .. 30 /\ K \in Nat \ {0} /\ K = 2^f
  BY FractionIs DEF Fraction
<1>1. c \in Int /\ Amount(c) \div K <= 2^14
  BY <1>0 DEF CoordHas
<1>2. /\ Amount(c) \in Nat
      /\ Amount(c) \div K \in Nat /\ Amount(c) % K \in Nat /\ Amount(c) % K < K
      /\ Amount(c) = K * (Amount(c) \div K) + (Amount(c) % K)
      /\ (IF c < 0 THEN -Amount(c) ELSE Amount(c)) = c
  <2>1. c \in Int /\ K \in Nat \ {0}
    BY <1>0, <1>1
  <2> QED
    BY <2>1, AmountIs
<1>3. PICK wh, pa : wh = Amount(c) \div K /\ pa = Amount(c) % K
  OBVIOUS
<1>4. wh \in Nat /\ pa \in Nat
  BY <1>2, <1>3
<1>5. PICK b2 \in {0, 1} : (b2 = 0 <=> wh = 0) /\ Flag(wh > 0) = <<b2>>
  <2>1. CASE wh = 0
    <3>1. ~(wh > 0)
      BY <2>1
    <3>2. Flag(wh > 0) = << 0 >>
      BY <3>1 DEF Flag
    <3> QED
      BY <2>1, <3>2
  <2>2. CASE wh # 0
    <3>1. wh > 0
      BY <1>4, <2>2
    <3>2. Flag(wh > 0) = << 1 >>
      BY <3>1 DEF Flag
    <3> QED
      BY <2>2, <3>2
  <2> QED
    BY <2>1, <2>2
<1>6. PICK b1 \in {0, 1} : (b1 = 1 <=> wh < 2^11) /\ Flag(wh < 2^11) = <<b1>>
  <2>1. CASE wh < 2^11
    <3>2. Flag(wh < 2^11) = << 1 >>
      BY <2>1 DEF Flag
    <3> QED
      BY <2>1, <3>2
  <2>2. CASE ~(wh < 2^11)
    <3>2. Flag(wh < 2^11) = << 0 >>
      BY <2>2 DEF Flag
    <3> QED
      BY <2>2, <3>2
  <2> QED
    BY <2>1, <2>2
<1>7. PICK n : n = IF b1 = 1 THEN 11 ELSE 14
  OBVIOUS
<1>8. n = (IF wh < 2^11 THEN 11 ELSE 14) /\ n \in 0 .. 30
  BY <1>6, <1>7
<1>9. PICK none \in BOOLEAN : none = (f = 0 /\ wh = 0)
  OBVIOUS
<1>10. CoordMPCode(c, f) = (((<<b1>> \o <<b2>>) \o Unless(none, Flag(c < 0)))
                    \o Unless(wh = 0, ToBits(wh - 1, n))) \o Unless(FALSE, ToBits(pa, f))
  <2>1. CoordMPCode(c, f) = (((Flag(wh < 2^11) \o Flag(wh > 0)) \o Unless(f = 0 /\ wh = 0, Flag(c < 0)))
                    \o Unless(wh = 0, ToBits(wh - 1, IF wh < 2^11 THEN 11 ELSE 14)))
                        \o ToBits(pa, f)
    BY <1>0, <1>3 DEF CoordMPCode
  <2>2. Unless(FALSE, ToBits(pa, f)) = ToBits(pa, f)
    BY DEF Unless
  <2>3. Unless(f = 0 /\ wh = 0, Flag(c < 0)) = Unless(none, Flag(c < 0))
    BY <1>9
  <2>4. ToBits(wh - 1, IF wh < 2^11 THEN 11 ELSE 14) = ToBits(wh - 1, n)
    BY <1>8
  <2> QED
    BY <1>5, <1>6, <2>1, <2>2, <2>3, <2>4
<1>11. wh # 0 => NumberFits(wh - 1, n)
  <2>1. CASE wh < 2^11
    <3>1. wh # 0 => wh - 1 \in Nat /\ wh - 1 < 2^11
      BY <1>4, <2>1
    <3>2. n = 11
      BY <1>8, <2>1
    <3> QED
      BY <1>8, <3>1, <3>2 DEF NumberFits
  <2>2. CASE ~(wh < 2^11)
    <3>1. wh # 0 => wh - 1 \in Nat /\ wh - 1 < 2^14
      BY <1>1, <1>3, <1>4
    <3>2. n = 14
      BY <1>8, <2>2
    <3> QED
      BY <1>8, <3>1, <3>2 DEF NumberFits
  <2> QED
    BY <2>1, <2>2
<1>12. NumberFits(pa, f)
  BY <1>0, <1>2, <1>3 DEF NumberFits
<1>13. b1 \in BitValues /\ b2 \in BitValues
  BY DEF BitValues
<1>14. SignedShape(CoordMPCode(c, f), c, b1, b2, none, wh, n, FALSE, pa, f)
  <2>1. FALSE \in BOOLEAN /\ none \in BOOLEAN
    OBVIOUS
  <2> QED
    BY <1>1, <1>4, <1>8, <1>10, <1>11, <1>12, <1>13, <2>1 DEF SignedShape
<1>15. CoordMPParts(c, f, K, wh, pa, b1, b2, none, n)
  BY <1>1, <1>2, <1>3, <1>4, <1>5, <1>7, <1>9, <1>14 DEF CoordMPParts
<1> QED
  BY <1>15

(* ReadBitCoordMP reads a coordinate as it was written, whatever the       *)
(* precision.                                                              *)
LEMMA CoordMPRead ==
    ASSUME NEW d \in Seq(BitValues), NEW p \in Nat, NEW c, NEW f, NEW K, Fraction(f, K),
           CoordHas(c, f), Shows(d, p, CoordMPCode(c, f))
    PROVE  ReadsAs(ReadBitCoordMP(d, p, f), d, p, CoordMPCode(c, f), c)
<1>f. f \in Nat /\ K \in Nat \ {0} /\ K = 2^f /\ (f = 0 => K = 1)
  BY FractionIs DEF Fraction
<1>p. PICK wh, pa, b1, b2, none, n : CoordMPParts(c, f, K, wh, pa, b1, b2, none, n)
  BY CoordMPShape
<1>1. /\ wh \in Nat /\ pa \in Nat /\ b1 \in {0, 1} /\ b2 \in {0, 1}
      /\ none \in BOOLEAN /\ c \in Int /\ n = (IF b1 = 1 THEN 11 ELSE 14)
      /\ SignedShape(CoordMPCode(c, f), c, b1, b2, none, wh, n, FALSE, pa, f)
      /\ Amount(c) = K * wh + pa /\ pa < K
      /\ (b2 = 0 <=> wh = 0) /\ (none <=> f = 0 /\ wh = 0)
      /\ (IF c < 0 THEN -Amount(c) ELSE Amount(c)) = c
  BY <1>p DEF CoordMPParts
<1> DEFINE code == CoordMPCode(c, f)
           r == ReadBitCoordMP(d, p, f)
<1>0. code = CoordMPCode(c, f)
  OBVIOUS
<1> HIDE DEF code
<1>n. n \in Nat
  BY <1>1
<1>3. /\ code \in Seq(BitValues)
      /\ Len(code) = 2 + SignBits(none) + WholeBits(wh, n) + PartBits(FALSE, f)
      /\ p + 2 <= Len(d) => OneBit(d, p) = b1 /\ OneBit(d, p + 1) = b2
      /\ p + Len(code) <= Len(d) =>
            /\ ~none => OneBit(d, p + 2) = IF c < 0 THEN 1 ELSE 0
            /\ wh # 0 => UNat(d, p + 2 + SignBits(none), n) = wh - 1
            /\ UNat(d, p + 2 + SignBits(none) + WholeBits(wh, n), f) = pa
  <2>1. IsPlace(d, p)
    BY DEF IsPlace
  <2>2. Shows(d, p, code)
    BY <1>0
  <2>3. SignedShape(code, c, b1, b2, none, wh, n, FALSE, pa, f)
    BY <1>0, <1>1
  <2>4. SignedIsRead(d, p, code, c, b1, b2, none, wh, n, FALSE, pa, f)
    BY <2>1, <2>2, <2>3, SignedParts
  <2> QED
    BY <2>4 DEF SignedIsRead
<1>5. Len(code) = IF f = 0 /\ wh = 0 THEN 2 ELSE 3 + b2 * n + f
  <2>1. SignBits(none) = IF f = 0 /\ wh = 0 THEN 0 ELSE 1
    BY <1>1 DEF SignBits
  <2>2. WholeBits(wh, n) = b2 * n
    BY <1>1, <1>n DEF WholeBits
  <2>3. PartBits(FALSE, f) = f
    BY DEF PartBits
  <2>4. b2 * n \in Nat /\ (wh = 0 => b2 * n = 0)
    BY <1>1, <1>n
  <2>5. PICK m \in Nat : m = b2 * n
    BY <2>4
  <2>6. Len(code) = 2 + (IF f = 0 /\ wh = 0 THEN 0 ELSE 1) + m + f /\ (wh = 0 => m = 0)
    BY <1>3, <2>1, <2>2, <2>3, <2>4, <2>5
  <2>7. Len(code) = IF f = 0 /\ wh = 0 THEN 2 ELSE 3 + m + f
    BY <1>1, <1>f, <2>6
  <2> QED
    BY <2>5, <2>7
<1>6. r.at \in Nat /\ r.at >= p + 2
  BY CoordMPTyped
<1>7. ASSUME p + 2 <= Len(d) PROVE r.at = p + Len(code)
  <2>1. OneBit(d, p) = b1 /\ OneBit(d, p + 1) = b2
    BY <1>3, <1>7
  <2>2. r.at = IF f = 0 /\ b2 = 0 THEN p + 2 ELSE p + 3 + b2 * n + f
    BY <1>1, <2>1 DEF ReadBitCoordMP, Result, COORD_INTEGER_BITS, COORD_INTEGER_BITS_MP
  <2>3. b2 * n \in Nat
    BY <1>1, <1>n
  <2> QED
    BY <1>1, <1>f, <1>5, <2>2, <2>3
<1>8. Len(code) \in Nat /\ Len(code) >= 2
  <2>3. b2 * n \in Nat
    BY <1>1, <1>n
  <2> QED
    BY <1>f, <1>5, <2>3
<1>9. ReadTo(r.at, d, p, code)
  <2>1. PICK h \in Nat, at \in Nat : h = 2 /\ at = r.at
    BY <1>6
  <2> HIDE DEF r
  <2>2. at >= p + h /\ Len(code) >= h /\ (p + h <= Len(d) => at = p + Len(code))
    BY <1>6, <1>7, <1>8, <2>1
  <2>3. code \in Seq(BitValues)
    BY <1>3
  <2>4. ReadTo(at, d, p, code)
    BY <2>2, <2>3, ReadToPart
  <2> QED
    BY <2>1, <2>4
<1>10. ASSUME p + Len(code) <= Len(d) PROVE r.v = c
  <2>0. p + 2 <= Len(d)
    BY <1>8, <1>10
  <2>1. OneBit(d, p) = b1 /\ OneBit(d, p + 1) = b2
    BY <1>3, <2>0
  <2>2. CASE f = 0 /\ wh = 0
    <3>1. pa = 0 /\ K * wh = 0
      BY <1>1, <1>f, <2>2
    <3>2. c = 0
      BY <1>1, <3>1
    <3>3. b2 = 0
      BY <1>1, <2>2
    <3> QED
      BY <2>1, <2>2, <3>2, <3>3 DEF ReadBitCoordMP, Result
  <2>3. CASE ~(f = 0 /\ wh = 0)
    <3>1. ~(f = 0 /\ b2 = 0) /\ ~none
      BY <1>1, <2>3
    <3>2. OneBit(d, p + 2) = IF c < 0 THEN 1 ELSE 0
      BY <1>3, <1>10, <3>1
    <3>3. SignBits(none) = 1
      BY <3>1 DEF SignBits
    <3>4. (IF b2 = 1 THEN UNat(d, p + 3, n) + 1 ELSE 0) = wh
      <4>1. CASE wh = 0
        BY <1>1, <4>1
      <4>2. CASE wh # 0
        <5>1. UNat(d, p + 2 + 1, n) = wh - 1
          BY <1>3, <1>10, <3>3, <4>2
        <5>2. p + 2 + 1 = p + 3
          OBVIOUS
        <5>3. UNat(d, p + 3, n) = wh - 1 /\ b2 = 1
          BY <1>1, <4>2, <5>1, <5>2
        <5>4. wh \in Nat
          BY <1>1
        <5> QED
          BY <5>3, <5>4
      <4> QED
        BY <4>1, <4>2
    <3>5. UNat(d, p + 3 + b2 * n, f) = pa
      <4>1. UNat(d, p + 2 + 1 + WholeBits(wh, n), f) = pa
        BY <1>3, <1>10, <3>3
      <4>2. p + 2 + 1 + WholeBits(wh, n) = p + 3 + b2 * n
        BY <1>1, <1>n DEF WholeBits
      <4> QED
        BY <4>1, <4>2
    <3>7. r.v = WithSign(OneBit(d, p + 2), K * wh + pa)
      <4>1. (IF b1 = 1 THEN COORD_INTEGER_BITS_MP ELSE COORD_INTEGER_BITS) = n
        BY <1>1 DEF COORD_INTEGER_BITS, COORD_INTEGER_BITS_MP
      <4> QED
        BY <1>f, <2>1, <3>1, <3>4, <3>5, <4>1 DEF ReadBitCoordMP, Result, WholeUnits
    <3> QED
      BY <1>1, <3>2, <3>7 DEF WithSign
  <2> QED
    BY <2>2, <2>3
<1> HIDE DEF r
<1>11. ReadsAs(r, d, p, code, c)
  BY <1>3, <1>9, <1>10 DEF ReadsAs
<1> QED
  BY <1>0, <1>11 DEF r

TwoPieces(code, s, t) == code = s \o t /\ s \in Seq(BitValues) /\ t \in Seq(BitValues)

(* A code of two pieces that the data show.                                *)
LEMMA PiecesShown ==
    ASSUME NEW d, NEW p, NEW code, NEW s, NEW t, IsPlace(d, p), TwoPieces(code, s, t),
           Shows(d, p, code)
    PROVE  /\ code \in Seq(BitValues) /\ Len(code) = Len(s) + Len(t)
           /\ Len(s) \in Nat /\ Len(t) \in Nat
           /\ Shows(d, p, s) /\ Shows(d, p + Len(s), t)
           /\ ReadTo(p + Len(code), d, p, code)
<1>1. d \in Seq(BitValues) /\ p \in Nat /\ s \in Seq(BitValues) /\ t \in Seq(BitValues)
  BY DEF IsPlace, TwoPieces
<1>2. code = s \o t /\ Shows(d, p, s \o t)
  BY DEF TwoPieces
<1>3. /\ Shows(d, p, s) /\ Shows(d, p + Len(s), t)
      /\ s \o t \in Seq(BitValues) /\ Len(s \o t) = Len(s) + Len(t)
      /\ Len(s) \in Nat /\ Len(t) \in Nat
  BY <1>1, <1>2, ShowsJoined
<1>4. code \in Seq(BitValues)
  BY <1>2, <1>3
<1>5. ReadTo(p + Len(code), d, p, code)
  BY <1>1, <1>4, ReadToFixed
<1> QED
  BY <1>2, <1>3, <1>5

(* ReadBitCellCoord reads a coordinate as it was written, whatever the     *)
(* precision.                                                              *)
LEMMA CellCoordRead ==
    ASSUME NEW d \in Seq(BitValues), NEW p \in Nat, NEW c, NEW f, NEW K, Fraction(f, K),
           NEW bits, bits \in 0 .. 30, CellCoordHas(c, bits, f),
           Shows(d, p, CellCoordCode(c, bits, f))
    PROVE  ReadsAs(ReadBitCellCoord(d, p, bits, f), d, p, CellCoordCode(c, bits, f), c)
<1>f. f \in 0 .. 30 /\ K \in Nat \ {0} /\ K = 2^f
  BY FractionIs DEF Fraction
<1>1. c \in Nat /\ c \div K < 2^bits
  BY <1>f DEF CellCoordHas
<1>2. PICK wh \in Nat, pa \in Nat : wh = c \div K /\ pa = c % K /\ pa < K /\ c = K * wh + pa
  <2>1. c \div K \in Nat /\ c % K \in Nat /\ c % K < K /\ c = K * (c \div K) + (c % K)
    BY <1>f, <1>1
  <2> QED
    BY <2>1
<1>3. NumberFits(wh, bits) /\ NumberFits(pa, f)
  BY <1>f, <1>1, <1>2 DEF NumberFits
<1> DEFINE s == ToBits(wh, bits)
           t == ToBits(pa, f)
           code == CellCoordCode(c, bits, f)
           r == ReadBitCellCoord(d, p, bits, f)
<1>4. code = s \o t
  BY <1>f, <1>2 DEF CellCoordCode
<1>5. s \in Seq(BitValues) /\ Len(s) = bits
  BY <1>3, NumberBits
<1>6. t \in Seq(BitValues) /\ Len(t) = f
  BY <1>3, NumberBits
<1>7. Shows(d, p, code)
  OBVIOUS
<1>8. code = CellCoordCode(c, bits, f)
  OBVIOUS
<1> HIDE DEF s, t, code
<1>9. IsPlace(d, p) /\ TwoPieces(code, s, t)
  BY <1>4, <1>5, <1>6 DEF IsPlace, TwoPieces
<1>10. /\ code \in Seq(BitValues) /\ Len(code) = Len(s) + Len(t)
       /\ Len(s) \in Nat /\ Len(t) \in Nat
       /\ Shows(d, p, s) /\ Shows(d, p + Len(s), t)
       /\ ReadTo(p + Len(code), d, p, code)
  BY <1>7, <1>9, PiecesShown
<1>11. Len(code) = bits + f /\ p + Len(code) = p + bits + f /\ p + bits \in Nat
  BY <1>f, <1>5, <1>6, <1>10
<1>12. r.at = p + bits + f /\ r.v = K * UNat(d, p, bits) + UNat(d, p + bits, f)
  BY <1>f DEF ReadBitCellCoord, Result
<1> HIDE DEF r
<1>13. ASSUME p + Len(code) <= Len(d) PROVE r.v = c
  <2>1. IsThere(d, p, wh, bits)
    <3>1. p + bits <= Len(d)
      BY <1>f, <1>11, <1>13
    <3> QED
      BY <1>10, <3>1 DEF IsThere, s
  <2>2. PICK q \in Nat : q = p + bits
    BY <1>11
  <2>3. IsThere(d, q, pa, f)
    <3>1. q + f <= Len(d)
      BY <1>f, <1>11, <1>13, <2>2
    <3>2. Shows(d, q, t)
      BY <1>5, <1>10, <2>2
    <3> QED
      BY <3>1, <3>2 DEF IsThere, t
  <2>4. UNat(d, p, bits) = wh
    BY <1>3, <2>1, PlainNumber
  <2>5. UNat(d, q, f) = pa
    BY <1>3, <2>3, PlainNumber
  <2> QED
    BY <1>2, <1>12, <2>2, <2>4, <2>5
<1>14. ReadsAs(r, d, p, code, c)
  BY <1>10, <1>11, <1>12, <1>13 DEF ReadsAs
<1> QED
  BY <1>8, <1>14 DEF r

(* ReadBitNormal reads a normal as it was written.                         *)
LEMMA NormalRead ==
    ASSUME NEW d \in Seq(BitValues), NEW p \in Nat, NEW c, c \in Int, Amount(c) < 2^11,
           Shows(d, p, Flag(c < 0) \o ToBits(Amount(c), 11))
    PROVE  ReadsAs(ReadBitNormal(d, p), d, p, Flag(c < 0) \o ToBits(Amount(c), 11), c)
<1>1. PICK K \in Nat \ {0} : K = 1
  OBVIOUS
<1>2. Amount(c) \in Nat /\ (IF c < 0 THEN -Amount(c) ELSE Amount(c)) = c
  BY <1>1, AmountIs
<1>3. PICK a, n : a = Amount(c) /\ n = 11
  OBVIOUS
<1>4. NumberFits(a, n)
  BY <1>2, <1>3 DEF NumberFits
<1>5. PICK b \in BitValues : Flag(c < 0) = <<b>> /\ b = (IF c < 0 THEN 1 ELSE 0)
  <2>1. 0 \in BitValues /\ 1 \in BitValues
    BY DEF BitValues
  <2>2. CASE c < 0
    <3>1. Flag(c < 0) = << 1 >>
      BY <2>2 DEF Flag
    <3> QED
      BY <2>1, <2>2, <3>1
  <2>3. CASE ~(c < 0)
    <3>1. Flag(c < 0) = << 0 >>
      BY <2>3 DEF Flag
    <3> QED
      BY <2>1, <2>3, <3>1
  <2> QED
    BY <2>2, <2>3
<1> DEFINE s == <<b>>
           t == ToBits(a, n)
           code == Flag(c < 0) \o ToBits(Amount(c), 11)
           r == ReadBitNormal(d, p)
<1>6. code = s \o t
  BY <1>3, <1>5
<1>7. Shows(d, p, code) /\ code = Flag(c < 0) \o ToBits(Amount(c), 11)
  OBVIOUS
<1>a. s \in Seq(BitValues) /\ Len(s) = 1
  OBVIOUS
<1>8. t \in Seq(BitValues) /\ Len(t) = n
  BY <1>4, NumberBits
<1> HIDE DEF s, t, code
<1>9. IsPlace(d, p) /\ TwoPieces(code, s, t)
  BY <1>6, <1>8, <1>a DEF IsPlace, TwoPieces
<1>10. /\ code \in Seq(BitValues) /\ Len(code) = Len(s) + Len(t)
       /\ Len(s) \in Nat /\ Len(t) \in Nat
       /\ Shows(d, p, s) /\ Shows(d, p + Len(s), t)
       /\ ReadTo(p + Len(code), d, p, code)
  <2>1. Shows(d, p, code)
    BY <1>7
  <2> QED
    BY <1>9, <2>1, PiecesShown
<1>11. Len(code) = 12 /\ p + 1 \in Nat
  BY <1>3, <1>8, <1>10, <1>a
<1>12. r.at = p + 1 + 11 /\ r.v = WithSign(OneBit(d, p), UNat(d, p + 1, n))
  BY <1>3 DEF ReadBitNormal, Result, NORMAL_FRACTIONAL_BITS
<1> HIDE DEF r
<1>13. ASSUME p + Len(code) <= Len(d) PROVE r.v = c
  <2>1. p + 1 <= Len(d) /\ (p + 1) + n <= Len(d)
    BY <1>3, <1>11, <1>13
  <2>2. OneBit(d, p) = b
    BY <1>10, <2>1, ShownBit DEF s
  <2>3. PICK q \in Nat : q = p + 1
    OBVIOUS
  <2>4. IsThere(d, q, a, n)
    <3>2. Shows(d, q, t)
      BY <1>10, <1>a, <2>3
    <3> QED
      BY <2>1, <2>3, <3>2 DEF IsThere, t
  <2>5. UNat(d, q, n) = a
    BY <1>4, <2>4, PlainNumber
  <2> QED
    BY <1>2, <1>3, <1>5, <1>12, <2>2, <2>3, <2>5 DEF WithSign
<1>14. p + 1 + 11 = p + Len(code)
  BY <1>11
<1>15. ReadsAs(r, d, p, code, c)
  BY <1>10, <1>12, <1>13, <1>14 DEF ReadsAs
<1> QED
  BY <1>7, <1>15 DEF r

(* The default coding of a float reads the amount that was written.        *)
LEMMA ScaledRead ==
    ASSUME NEW d \in Seq(BitValues), NEW p \in Nat, NEW c, NEW bits, bits \in 0 .. 30,
           CellCoordHas(c, bits, 0), Shows(d, p, ToBits(c, bits))
    PROVE  ReadsAs(Result(UNat(d, p, bits), p + bits), d, p, ToBits(c, bits), c)
<1>1. 2^0 = 1
  OBVIOUS
<1>2. NumberFits(c, bits)
  BY <1>1 DEF CellCoordHas, NumberFits
<1> DEFINE s == ToBits(c, bits)
<1>3. s \in Seq(BitValues) /\ Len(s) = bits
  BY <1>2, NumberBits
<1>4. ASSUME p + bits <= Len(d) PROVE UNat(d, p, bits) = c
  <2>1. IsThere(d, p, c, bits)
    BY <1>4 DEF IsThere
  <2> QED
    BY <1>2, <2>1, PlainNumber
<1>5. ReadTo(p + Len(s), d, p, s)
  <2> HIDE DEF s
  <2> QED
    BY <1>3, ReadToFixed
<1> HIDE DEF s
<1>6. ReadsAs(Result(UNat(d, p, bits), p + bits), d, p, s, c)
  BY <1>3, <1>4, <1>5 DEF ReadsAs, Result
<1> QED
  BY <1>6 DEF s

(* As ReadsAs, of a value that is compared only if it is.                  *)
ReadsIf(compared, r, d, p, code, v) ==
    /\ code \in Seq(BitValues)
    /\ ReadTo(r.at, d, p, code)
    /\ p + Len(code) <= Len(d) /\ compared => r.v = v

(* What is read as written is so whether it is compared or not.            *)
LEMMA Weaker ==
    ASSUME NEW compared, NEW r, NEW d, NEW p, NEW code, NEW v, ReadsAs(r, d, p, code, v)
    PROVE  ReadsIf(compared, r, d, p, code, v)
  BY DEF ReadsIf, ReadsAs

IsFloat(prop) == prop.coding \in FloatCodings /\ prop.num_bits \in 0 .. 30

(* Float_Decode goes on, in every coding.                                  *)
LEMMA FloatTyped ==
    ASSUME NEW d \in Seq(BitValues), NEW p \in Nat, NEW prop, IsFloat(prop)
    PROVE  GoesOn(Float_Decode(d, p, prop), p)
<1> DEFINE r == Float_Decode(d, p, prop)
<1>0. Fraction(5, 32) /\ Fraction(3, 8) /\ Fraction(0, 1)
  <2>1. 2^5 = 32 /\ 2^3 = 8 /\ 2^0 = 1
    OBVIOUS
  <2> QED
    BY <2>1 DEF Fraction
<1>1. prop.num_bits \in Nat
  <2>1. PICK n : n = prop.num_bits
    OBVIOUS
  <2>2. n \in 0 .. 30
    BY <2>1 DEF IsFloat
  <2>3. n \in Nat
    BY <2>2
  <2> QED
    BY <2>1, <2>3
<1>2. CASE prop.coding = "coord"
  <2>1. r = ReadBitCoord(d, p)
    BY <1>2 DEF Float_Decode
  <2>2. ReadBitCoord(d, p).at \in Nat /\ ReadBitCoord(d, p).at >= p + 2
    BY CoordTyped
  <2> QED
    BY <2>1, <2>2 DEF GoesOn
<1>3. CASE prop.coding = "coord_mp"
  <2>0. PICK f, K : f = 5 /\ K = 32 /\ Fraction(f, K)
    BY <1>0
  <2>1. r = ReadBitCoordMP(d, p, f)
    BY <1>3, <2>0 DEF Float_Decode, COORD_FRACTIONAL_BITS
  <2>2. ReadBitCoordMP(d, p, f).at \in Nat /\ ReadBitCoordMP(d, p, f).at >= p + 2
    BY <2>0, CoordMPTyped
  <2> QED
    BY <2>1, <2>2 DEF GoesOn
<1>4. CASE prop.coding = "coord_mp_lowprecision"
  <2>0. PICK f, K : f = 3 /\ K = 8 /\ Fraction(f, K)
    BY <1>0
  <2>1. r = ReadBitCoordMP(d, p, f)
    BY <1>4, <2>0 DEF Float_Decode, COORD_FRACTIONAL_BITS_MP_LOWPRECISION
  <2>2. ReadBitCoordMP(d, p, f).at \in Nat /\ ReadBitCoordMP(d, p, f).at >= p + 2
    BY <2>0, CoordMPTyped
  <2> QED
    BY <2>1, <2>2 DEF GoesOn
<1>5. CASE prop.coding = "coord_mp_integral"
  <2>0. PICK f, K : f = 0 /\ K = 1 /\ Fraction(f, K)
    BY <1>0
  <2>1. r = ReadBitCoordMP(d, p, f)
    BY <1>5, <2>0 DEF Float_Decode
  <2>2. ReadBitCoordMP(d, p, f).at \in Nat /\ ReadBitCoordMP(d, p, f).at >= p + 2
    BY <2>0, CoordMPTyped
  <2> QED
    BY <2>1, <2>2 DEF GoesOn
<1>6. CASE prop.coding = "noscale"
  <2>1. r.at = p + 32
    BY <1>6 DEF Float_Decode, ReadBitFloat, Result
  <2> QED
    BY <2>1 DEF GoesOn
<1>7. CASE prop.coding = "normal"
  <2>1. r.at = p + 1 + 11
    BY <1>7 DEF Float_Decode, ReadBitNormal, Result, NORMAL_FRACTIONAL_BITS
  <2> QED
    BY <2>1 DEF GoesOn
<1>8. CASE prop.coding = "cell_coord"
  <2>1. r.at = p + prop.num_bits + 5
    BY <1>8 DEF Float_Decode, ReadBitCellCoord, Result, COORD_FRACTIONAL_BITS
  <2> QED
    BY <1>1, <2>1 DEF GoesOn
<1>9. CASE prop.coding = "cell_coord_lowprecision"
  <2>1. r.at = p + prop.num_bits + 3
    BY <1>9 DEF Float_Decode, ReadBitCellCoord, Result, COORD_FRACTIONAL_BITS_MP_LOWPRECISION
  <2> QED
    BY <1>1, <2>1 DEF GoesOn
<1>10. CASE prop.coding = "cell_coord_integral"
  <2>1. r.at = p + prop.num_bits + 0
    BY <1>10 DEF Float_Decode, ReadBitCellCoord, Result
  <2> QED
    BY <1>1, <2>1 DEF GoesOn
<1>11. CASE prop.coding = "scaled"
  <2>1. r.at = p + prop.num_bits
    BY <1>11 DEF Float_Decode, Result
  <2> QED
    BY <1>1, <2>1 DEF GoesOn
<1> QED
  BY <1>2, <1>3, <1>4, <1>5, <1>6, <1>7, <1>8, <1>9, <1>10, <1>11 DEF IsFloat, FloatCodings

(* Float_Decode reads a float as it was written, in every coding in which  *)
(* its value is compared.                                                  *)
LEMMA FloatRead ==
    ASSUME NEW d \in Seq(BitValues), NEW p \in Nat, NEW prop, IsFloat(prop),
           NEW v, FloatHas(prop, v), Shows(d, p, FloatCode(prop, v))
    PROVE  ReadsIf(prop.coding # "noscale", Float_Decode(d, p, prop), d, p, FloatCode(prop, v), v)
<1> DEFINE r == Float_Decode(d, p, prop)
           code == FloatCode(prop, v)
<1>0. Fraction(5, 32) /\ Fraction(3, 8) /\ Fraction(0, 1)
  <2>1. 2^5 = 32 /\ 2^3 = 8 /\ 2^0 = 1
    OBVIOUS
  <2> QED
    BY <2>1 DEF Fraction
<1>1. prop.num_bits \in 0 .. 30
  BY DEF IsFloat
<1>2. CASE prop.coding = "coord"
  <2>1. r = ReadBitCoord(d, p) /\ code = CoordCode(v) /\ CoordHas(v, 5)
    BY <1>2 DEF Float_Decode, FloatCode, FloatHas
  <2>2. ReadsAs(ReadBitCoord(d, p), d, p, CoordCode(v), v)
    BY <2>1, CoordRead
  <2> QED
    BY <2>1, <2>2, Weaker
<1>3. CASE prop.coding = "coord_mp"
  <2>0. PICK f, K : f = 5 /\ K = 32 /\ Fraction(f, K)
    BY <1>0
  <2>1. r = ReadBitCoordMP(d, p, f) /\ code = CoordMPCode(v, f) /\ CoordHas(v, f)
    BY <1>3, <2>0 DEF Float_Decode, FloatCode, FloatHas, COORD_FRACTIONAL_BITS
  <2>2. ReadsAs(ReadBitCoordMP(d, p, f), d, p, CoordMPCode(v, f), v)
    BY <2>0, <2>1, CoordMPRead
  <2> QED
    BY <2>1, <2>2, Weaker
<1>4. CASE prop.coding = "coord_mp_lowprecision"
  <2>0. PICK f, K : f = 3 /\ K = 8 /\ Fraction(f, K)
    BY <1>0
  <2>1. r = ReadBitCoordMP(d, p, f) /\ code = CoordMPCode(v, f) /\ CoordHas(v, f)
    BY <1>4, <2>0
    DEF Float_Decode, FloatCode, FloatHas, COORD_FRACTIONAL_BITS_MP_LOWPRECISION
  <2>2. ReadsAs(ReadBitCoordMP(d, p, f), d, p, CoordMPCode(v, f), v)
    BY <2>0, <2>1, CoordMPRead
  <2> QED
    BY <2>1, <2>2, Weaker
<1>5. CASE prop.coding = "coord_mp_integral"
  <2>0. PICK f, K : f = 0 /\ K = 1 /\ Fraction(f, K)
    BY <1>0
  <2>1. r = ReadBitCoordMP(d, p, f) /\ code = CoordMPCode(v, f) /\ CoordHas(v, f)
    BY <1>5, <2>0 DEF Float_Decode, FloatCode, FloatHas
  <2>2. ReadsAs(ReadBitCoordMP(d, p, f), d, p, CoordMPCode(v, f), v)
    BY <2>0, <2>1, CoordMPRead
  <2> QED
    BY <2>1, <2>2, Weaker
<1>6. CASE prop.coding = "noscale"
  <2>1. r.at = p + 32 /\ code = v /\ HasBits(v, 32)
    BY <1>6 DEF Float_Decode, ReadBitFloat, Result, FloatCode, FloatHas
  <2>2. v \in Seq(BitValues) /\ Len(v) = 32
    BY <2>1 DEF HasBits
  <2>3. v \in Seq(BitValues)
    BY <2>2
  <2>4. ReadTo(p + Len(v), d, p, v)
    BY <2>3, ReadToFixed
  <2> QED
    BY <1>6, <2>1, <2>2, <2>4 DEF ReadsIf
<1>7. CASE prop.coding = "normal"
  <2>1. /\ r = ReadBitNormal(d, p) /\ code = Flag(v < 0) \o ToBits(Amount(v), 11)
        /\ v \in Int /\ Amount(v) < 2^11
    BY <1>7 DEF Float_Decode, FloatCode, FloatHas
  <2>2. ReadsAs(ReadBitNormal(d, p), d, p, Flag(v < 0) \o ToBits(Amount(v), 11), v)
    BY <2>1, NormalRead
  <2> QED
    BY <2>1, <2>2, Weaker
<1>8. CASE prop.coding = "cell_coord"
  <2>0. PICK f, K : f = 5 /\ K = 32 /\ Fraction(f, K)
    BY <1>0
  <2>b. PICK bits : bits = prop.num_bits /\ bits \in 0 .. 30
    BY <1>1
  <2>1. /\ r = ReadBitCellCoord(d, p, bits, f) /\ code = CellCoordCode(v, bits, f)
        /\ CellCoordHas(v, bits, f)
    BY <1>8, <2>0, <2>b DEF Float_Decode, FloatCode, FloatHas, COORD_FRACTIONAL_BITS
  <2>2. ReadsAs(ReadBitCellCoord(d, p, bits, f), d, p, CellCoordCode(v, bits, f), v)
    BY <2>0, <2>b, <2>1, CellCoordRead
  <2> QED
    BY <2>1, <2>2, Weaker
<1>9. CASE prop.coding = "cell_coord_lowprecision"
  <2>0. PICK f, K : f = 3 /\ K = 8 /\ Fraction(f, K)
    BY <1>0
  <2>b. PICK bits : bits = prop.num_bits /\ bits \in 0 .. 30
    BY <1>1
  <2>1. /\ r = ReadBitCellCoord(d, p, bits, f) /\ code = CellCoordCode(v, bits, f)
        /\ CellCoordHas(v, bits, f)
    BY <1>9, <2>0, <2>b
    DEF Float_Decode, FloatCode, FloatHas, COORD_FRACTIONAL_BITS_MP_LOWPRECISION
  <2>2. ReadsAs(ReadBitCellCoord(d, p, bits, f), d, p, CellCoordCode(v, bits, f), v)
    BY <2>0, <2>b, <2>1, CellCoordRead
  <2> QED
    BY <2>1, <2>2, Weaker
<1>10. CASE prop.coding = "cell_coord_integral"
  <2>0. PICK f, K : f = 0 /\ K = 1 /\ Fraction(f, K)
    BY <1>0
  <2>b. PICK bits : bits = prop.num_bits /\ bits \in 0 .. 30
    BY <1>1
  <2>1. /\ r = ReadBitCellCoord(d, p, bits, f) /\ code = CellCoordCode(v, bits, f)
        /\ CellCoordHas(v, bits, f)
    BY <1>10, <2>0, <2>b DEF Float_Decode, FloatCode, FloatHas
  <2>2. ReadsAs(ReadBitCellCoord(d, p, bits, f), d, p, CellCoordCode(v, bits, f), v)
    BY <2>0, <2>b, <2>1, CellCoordRead
  <2> QED
    BY <2>1, <2>2, Weaker
<1>11. CASE prop.coding = "scaled"
  <2>b. PICK bits : bits = prop.num_bits /\ bits \in 0 .. 30
    BY <1>1
  <2>1. /\ r = Result(UNat(d, p, bits), p + bits) /\ code = ToBits(v, bits)
        /\ CellCoordHas(v, bits, 0)
    BY <1>11, <2>b DEF Float_Decode, FloatCode, FloatHas
  <2>2. ReadsAs(Result(UNat(d, p, bits), p + bits), d, p, ToBits(v, bits), v)
    BY <2>b, <2>1, ScaledRead
  <2> QED
    BY <2>1, <2>2, Weaker
<1> QED
  BY <1>2, <1>3, <1>4, <1>5, <1>6, <1>7, <1>8, <1>9, <1>10, <1>11 DEF IsFloat, FloatCodings

(***************************************************************************)
(* Vectors, strings, and the elements of arrays.                           *)
(***************************************************************************)

(* VectorXY_Decode is two floats in a row.                                 *)
LEMMA VectorXYIs ==
    ASSUME NEW d, NEW p \in Nat, NEW prop, Float_Decode(d, p, prop).at \in Nat
    PROVE  VectorXY_Decode(d, p, prop) =
              LET x == Float_Decode(d, p, prop)
                  y == Float_Decode(d, x.at, prop)
              IN  Result(<<x.v, y.v>>, y.at)
  BY DEF VectorXY_Decode

(* Vector_Decode is two floats, and a third or the sign of one.            *)
LEMMA VectorIs ==
    ASSUME NEW d, NEW p \in Nat, NEW prop, Float_Decode(d, p, prop).at \in Nat,
           Float_Decode(d, Float_Decode(d, p, prop).at, prop).at \in Nat
    PROVE  Vector_Decode(d, p, prop) =
              LET x == Float_Decode(d, p, prop)
                  y == Float_Decode(d, x.at, prop)
                  z == IF prop.coding = "normal" THEN Result(OneBit(d, y.at), y.at + 1)
                       ELSE Float_Decode(d, y.at, prop)
              IN  Result(<<x.v, y.v, z.v>>, z.at)
  BY DEF Vector_Decode

(* Both go on.                                                             *)
LEMMA VectorTyped ==
    ASSUME NEW d \in Seq(BitValues), NEW p \in Nat, NEW prop, IsFloat(prop)
    PROVE  GoesOn(VectorXY_Decode(d, p, prop), p) /\ GoesOn(Vector_Decode(d, p, prop), p)
<1>1. PICK x : x = Float_Decode(d, p, prop)
  OBVIOUS
<1>2. x.at \in Nat /\ x.at >= p
  BY <1>1, FloatTyped DEF GoesOn
<1>3. PICK q \in Nat : q = x.at
  BY <1>2
<1>4. PICK y : y = Float_Decode(d, q, prop)
  OBVIOUS
<1>5. y.at \in Nat /\ y.at >= q
  BY <1>4, FloatTyped DEF GoesOn
<1>6. PICK q2 \in Nat : q2 = y.at
  BY <1>5
<1>7. VectorXY_Decode(d, p, prop) = Result(<<x.v, y.v>>, y.at)
  BY <1>1, <1>2, <1>3, <1>4, VectorXYIs
<1>8. GoesOn(VectorXY_Decode(d, p, prop), p)
  BY <1>2, <1>3, <1>5, <1>7 DEF GoesOn, Result
<1>9. PICK z : z = IF prop.coding = "normal" THEN Result(OneBit(d, q2), q2 + 1)
                   ELSE Float_Decode(d, q2, prop)
  OBVIOUS
<1>10. z.at \in Nat /\ z.at >= q2
  <2>1. CASE prop.coding = "normal"
    BY <1>9, <2>1 DEF Result
  <2>2. CASE prop.coding # "normal"
    BY <1>9, <2>2, FloatTyped DEF GoesOn
  <2> QED
    BY <2>1, <2>2
<1>11. Vector_Decode(d, p, prop) = Result(<<x.v, y.v, z.v>>, z.at)
  BY <1>1, <1>2, <1>3, <1>4, <1>5, <1>6, <1>9, VectorIs
<1>12. GoesOn(Vector_Decode(d, p, prop), p)
  BY <1>2, <1>3, <1>5, <1>6, <1>10, <1>11 DEF GoesOn, Result
<1> QED
  BY <1>8, <1>12

(* One piece behind another, each read by itself.                          *)
Follows(compared, x, y, d, p, s, t, u, v) ==
    /\ x.at \in Nat /\ y.at \in Nat /\ y.at >= x.at
    /\ ReadsIf(compared, x, d, p, s, u)
    /\ t \in Seq(BitValues)
    /\ p + Len(s) <= Len(d) => ReadsIf(compared, y, d, p + Len(s), t, v)

BothRead(compared, x, y, d, p, s, t, u, v) ==
    /\ s \o t \in Seq(BitValues) /\ ReadTo(y.at, d, p, s \o t)
    /\ p + Len(s \o t) <= Len(d) /\ compared => x.v = u /\ y.v = v

(* Two codes that are read as written, one behind the other.               *)
LEMMA FollowsBoth ==
    ASSUME NEW compared, NEW x, NEW y, NEW d, NEW p, NEW s, NEW t, NEW u, NEW v,
           IsPlace(d, p), Follows(compared, x, y, d, p, s, t, u, v)
    PROVE  BothRead(compared, x, y, d, p, s, t, u, v)
<1>1. /\ d \in Seq(BitValues) /\ p \in Nat /\ s \in Seq(BitValues) /\ t \in Seq(BitValues)
      /\ ReadTo(x.at, d, p, s)
      /\ p + Len(s) <= Len(d) => ReadTo(y.at, d, p + Len(s), t)
  BY DEF IsPlace, Follows, ReadsIf
<1>2. PICK a \in Nat, b \in Nat : a = x.at /\ b = y.at /\ b >= a
  BY DEF Follows
<1>3. /\ ReadTo(a, d, p, s) /\ b >= a
      /\ p + Len(s) <= Len(d) => ReadTo(b, d, p + Len(s), t)
  BY <1>1, <1>2
<1>a. /\ d \in Seq(BitValues) /\ p \in Nat /\ s \in Seq(BitValues) /\ t \in Seq(BitValues)
  BY <1>1
<1>4. ReadTo(b, d, p, s \o t)
  BY <1>a, <1>3, ReadToBoth
<1>5. s \o t \in Seq(BitValues) /\ Len(s \o t) = Len(s) + Len(t)
  BY <1>a, JoinedBits
<1>6. Len(s) \in Nat /\ Len(t) \in Nat /\ Len(d) \in Nat
  BY <1>a
<1>7. ASSUME p + Len(s \o t) <= Len(d), compared PROVE x.v = u /\ y.v = v
  <2>1. p + Len(s) <= Len(d) /\ (p + Len(s)) + Len(t) <= Len(d)
    BY <1>a, <1>5, <1>6, <1>7
  <2> QED
    BY <1>7, <2>1 DEF Follows, ReadsIf
<1> QED
  BY <1>2, <1>4, <1>5, <1>7 DEF BothRead

(* What is written can be put behind any data, nothing at all for one.     *)
LEMMA ShownByNothing ==
    ASSUME NEW code
    PROVE  << >> \in Seq(BitValues) /\ 0 \in Nat /\ Shows(<< >>, 0, code)
<1>1. Len(<< >>) = 0
  OBVIOUS
<1>2. PICK e : e = << >>
  OBVIOUS
<1>3. Shows(e, 0, code)
  <2>1. ASSUME NEW k \in 1 .. Len(code) PROVE ~(0 + k <= Len(e))
    BY <1>1, <1>2
  <2> QED
    BY <2>1 DEF Shows
<1> QED
  BY <1>2, <1>3

(* The code of a float is bits.                                            *)
LEMMA FloatCodeTyped ==
    ASSUME NEW prop, IsFloat(prop), NEW v, FloatHas(prop, v)
    PROVE  FloatCode(prop, v) \in Seq(BitValues)
<1>1. PICK e \in Seq(BitValues), z \in Nat : Shows(e, z, FloatCode(prop, v))
  BY ShownByNothing
<1>2. ReadsIf(prop.coding # "noscale", Float_Decode(e, z, prop), e, z, FloatCode(prop, v), v)
  BY <1>1, FloatRead
<1> QED
  BY <1>2 DEF ReadsIf

(* VectorXY_Decode reads two floats as they were written.                  *)
LEMMA VectorXYRead ==
    ASSUME NEW d \in Seq(BitValues), NEW p \in Nat, NEW prop, IsFloat(prop),
           NEW v, v = <<v[1], v[2]>>, FloatHas(prop, v[1]), FloatHas(prop, v[2]),
           Shows(d, p, FloatCode(prop, v[1]) \o FloatCode(prop, v[2]))
    PROVE  ReadsIf(prop.coding # "noscale", VectorXY_Decode(d, p, prop), d, p,
                   FloatCode(prop, v[1]) \o FloatCode(prop, v[2]), v)
<1>s. PICK s \in Seq(BitValues), t \in Seq(BitValues) :
         s = FloatCode(prop, v[1]) /\ t = FloatCode(prop, v[2])
  BY FloatCodeTyped
<1>0. Shows(d, p, s) /\ Shows(d, p + Len(s), t) /\ p + Len(s) \in Nat
  <2>1. Shows(d, p, s \o t)
    BY <1>s
  <2> QED
    BY <2>1, ShowsJoined
<1>1. PICK x : x = Float_Decode(d, p, prop)
  OBVIOUS
<1>2. x.at \in Nat /\ x.at >= p
  BY <1>1, FloatTyped DEF GoesOn
<1>3. PICK q \in Nat : q = x.at
  BY <1>2
<1>4. PICK y : y = Float_Decode(d, q, prop)
  OBVIOUS
<1>5. y.at \in Nat /\ y.at >= q
  BY <1>4, FloatTyped DEF GoesOn
<1>7. VectorXY_Decode(d, p, prop) = Result(<<x.v, y.v>>, y.at)
  BY <1>1, <1>2, <1>3, <1>4, VectorXYIs
<1>8. ReadsIf(prop.coding # "noscale", x, d, p, s, v[1])
  BY <1>s, <1>0, <1>1, FloatRead
<1>9. ASSUME p + Len(s) <= Len(d)
      PROVE  ReadsIf(prop.coding # "noscale", y, d, p + Len(s), t, v[2])
  <2>1. q = p + Len(s)
    BY <1>3, <1>8, <1>9 DEF ReadsIf, ReadTo
  <2>2. Shows(d, q, FloatCode(prop, v[2]))
    BY <1>s, <1>0, <2>1
  <2>3. ReadsIf(prop.coding # "noscale", y, d, q, t, v[2])
    BY <1>s, <1>4, <2>2, FloatRead
  <2> QED
    BY <2>1, <2>3
<1>10. Follows(prop.coding # "noscale", x, y, d, p, s, t, v[1], v[2])
  BY <1>2, <1>3, <1>5, <1>8, <1>9 DEF Follows
<1>11. IsPlace(d, p)
  BY DEF IsPlace
<1>12. BothRead(prop.coding # "noscale", x, y, d, p, s, t, v[1], v[2])
  BY <1>10, <1>11, FollowsBoth
<1>13. ReadsIf(prop.coding # "noscale", VectorXY_Decode(d, p, prop), d, p, s \o t, v)
  BY <1>7, <1>12 DEF ReadsIf, Result, BothRead
<1> QED
  BY <1>s, <1>13

(* The sign of a normal's third part is read as written.                   *)
LEMMA SignRead ==
    ASSUME NEW compared, NEW d \in Seq(BitValues), NEW p \in Nat, NEW b \in BitValues,
           Shows(d, p, <<b>>)
    PROVE  ReadsIf(compared, Result(OneBit(d, p), p + 1), d, p, <<b>>, b)
<1>1. PICK c \in Seq(BitValues) : c = <<b>> /\ Len(c) = 1
  <2>1. <<b>> \in Seq(BitValues)
    OBVIOUS
  <2>2. Len(<<b>>) = 1
    OBVIOUS
  <2> QED
    BY <2>1, <2>2, Zenon
<1>2. ReadTo(p + Len(c), d, p, c)
  BY ReadToFixed
<1>3. p + 1 <= Len(d) => OneBit(d, p) = b
  BY ShownBit
<1>4. ReadsIf(compared, Result(OneBit(d, p), p + 1), d, p, c, b)
  BY <1>1, <1>2, <1>3 DEF ReadsIf, Result
<1> QED
  BY <1>1, <1>4

(* Vector_Decode reads a vector as it was written, a normal included.      *)
LEMMA VectorRead ==
    ASSUME NEW d \in Seq(BitValues), NEW p \in Nat, NEW prop, IsFloat(prop),
           NEW v, v = <<v[1], v[2], v[3]>>, FloatHas(prop, v[1]), FloatHas(prop, v[2]),
           IF prop.coding = "normal" THEN v[3] \in BitValues ELSE FloatHas(prop, v[3]),
           Shows(d, p, VectorCode(prop, v))
    PROVE  ReadsIf(prop.coding # "noscale", Vector_Decode(d, p, prop), d, p,
                   VectorCode(prop, v), v)
<1>1. PICK w : w = <<v[1], v[2]>>
  OBVIOUS
<1>2. w[1] = v[1] /\ w[2] = v[2] /\ w = <<w[1], w[2]>>
  BY <1>1
<1>3. PICK s \in Seq(BitValues) : s = FloatCode(prop, w[1]) \o FloatCode(prop, w[2])
  <2>1. FloatCode(prop, v[1]) \in Seq(BitValues) /\ FloatCode(prop, v[2]) \in Seq(BitValues)
    BY FloatCodeTyped
  <2>2. FloatCode(prop, v[1]) \o FloatCode(prop, v[2]) \in Seq(BitValues)
    BY <2>1, JoinedBits
  <2> QED
    BY <1>2, <2>2
<1>4. PICK t \in Seq(BitValues) :
         t = IF prop.coding = "normal" THEN <<v[3]>> ELSE FloatCode(prop, v[3])
  <2>1. CASE prop.coding = "normal"
    <3>1. PICK b \in BitValues : b = v[3]
      BY <2>1
    <3>2. <<b>> \in Seq(BitValues)
      OBVIOUS
    <3> QED
      BY <2>1, <3>1, <3>2
  <2>2. CASE prop.coding # "normal"
    <3>1. FloatHas(prop, v[3])
      BY <2>2
    <3>2. FloatCode(prop, v[3]) \in Seq(BitValues)
      BY <3>1, FloatCodeTyped
    <3> QED
      BY <2>2, <3>2
  <2> QED
    BY <2>1, <2>2
<1>5. VectorCode(prop, v) = s \o t
  BY <1>2, <1>3, <1>4 DEF VectorCode
<1>6. Shows(d, p, s) /\ Shows(d, p + Len(s), t) /\ p + Len(s) \in Nat
  <2>1. Shows(d, p, s \o t)
    BY <1>5
  <2> QED
    BY <2>1, ShowsJoined
<1>7. PICK x : x = VectorXY_Decode(d, p, prop)
  OBVIOUS
<1>8. x.at \in Nat /\ x.at >= p
  BY <1>7, VectorTyped DEF GoesOn
<1>9. PICK q \in Nat : q = x.at
  BY <1>8
<1>10. PICK z : z = IF prop.coding = "normal" THEN Result(OneBit(d, q), q + 1)
                    ELSE Float_Decode(d, q, prop)
  OBVIOUS
<1>11. z.at \in Nat /\ z.at >= q
  <2>1. CASE prop.coding = "normal"
    BY <1>10, <2>1 DEF Result
  <2>2. CASE prop.coding # "normal"
    BY <1>10, <2>2, FloatTyped DEF GoesOn
  <2> QED
    BY <2>1, <2>2
<1>12. Vector_Decode(d, p, prop) = Result(<<x.v[1], x.v[2], z.v>>, z.at)
  <2>1. Float_Decode(d, p, prop).at \in Nat
    BY FloatTyped DEF GoesOn
  <2>2. PICK a \in Nat : a = Float_Decode(d, p, prop).at
    BY <2>1
  <2>3. Float_Decode(d, a, prop).at \in Nat
    BY FloatTyped DEF GoesOn
  <2>4. x = Result(<<Float_Decode(d, p, prop).v, Float_Decode(d, a, prop).v>>,
                   Float_Decode(d, a, prop).at)
    BY <1>7, <2>1, <2>2, VectorXYIs
  <2>5. /\ x.v[1] = Float_Decode(d, p, prop).v /\ x.v[2] = Float_Decode(d, a, prop).v
        /\ q = Float_Decode(d, a, prop).at
    BY <1>9, <2>4 DEF Result
  <2> QED
    BY <1>10, <2>1, <2>2, <2>3, <2>5, VectorIs
<1>13. ReadsIf(prop.coding # "noscale", x, d, p, s, w)
  BY <1>2, <1>3, <1>6, <1>7, VectorXYRead
<1>14. ASSUME p + Len(s) <= Len(d)
       PROVE  ReadsIf(prop.coding # "noscale", z, d, p + Len(s), t, v[3])
  <2>1. q = p + Len(s)
    BY <1>9, <1>13, <1>14 DEF ReadsIf, ReadTo
  <2>2. Shows(d, q, t)
    BY <1>6, <2>1
  <2>3. ReadsIf(prop.coding # "noscale", z, d, q, t, v[3])
    <3>1. CASE prop.coding = "normal"
      <4>1. z = Result(OneBit(d, q), q + 1) /\ t = <<v[3]>> /\ v[3] \in BitValues
        BY <1>4, <1>10, <3>1
      <4>2. PICK b \in BitValues : b = v[3]
        BY <4>1
      <4>3. Shows(d, q, <<b>>)
        BY <2>2, <4>1, <4>2
      <4>4. ReadsIf(prop.coding # "noscale", Result(OneBit(d, q), q + 1), d, q, <<b>>, b)
        BY <4>3, SignRead
      <4> QED
        BY <4>1, <4>2, <4>4
    <3>2. CASE prop.coding # "normal"
      BY <1>4, <1>10, <2>2, <3>2, FloatRead
    <3> QED
      BY <3>1, <3>2
  <2> QED
    BY <2>1, <2>3
<1>15. Follows(prop.coding # "noscale", x, z, d, p, s, t, w, v[3])
  BY <1>8, <1>9, <1>11, <1>13, <1>14 DEF Follows
<1>16. IsPlace(d, p)
  BY DEF IsPlace
<1>17. BothRead(prop.coding # "noscale", x, z, d, p, s, t, w, v[3])
  BY <1>15, <1>16, FollowsBoth
<1>18. ReadsIf(prop.coding # "noscale", Vector_Decode(d, p, prop), d, p, s \o t, v)
  <2>1. ASSUME x.v = w, z.v = v[3] PROVE <<x.v[1], x.v[2], z.v>> = v
    BY <1>2, <2>1
  <2> QED
    BY <1>12, <1>17, <2>1 DEF ReadsIf, Result, BothRead
<1> QED
  BY <1>5, <1>18

(* String_Decode goes on by its length at least.                           *)
LEMMA StringTyped ==
    ASSUME NEW d \in Seq(BitValues), NEW p \in Nat
    PROVE  String_Decode(d, p).at \in Nat /\ String_Decode(d, p).at >= p + 9
<1>1. PICK n \in Nat : n = 9
  OBVIOUS
<1>2. PICK len \in Nat : len = UNat(d, p, n)
  BY UNatTyped
<1>3. String_Decode(d, p).at = p + 9 + 8 * len
  BY <1>1, <1>2 DEF String_Decode, Result, DT_MAX_STRING_BITS
<1> QED
  BY <1>3

CharBits(v) == [k \in 1 .. 8 * Len(v) |-> ToBits(v[(k + 7) \div 8], 8)[1 + ((k - 1) % 8)]]
IsChar(c) == c \in 0 .. 255

(* A character is eight bits.                                              *)
LEMMA CharFits ==
    ASSUME NEW c, IsChar(c)
    PROVE  NumberFits(c, 8) /\ ToBits(c, 8) \in Seq(BitValues) /\ Len(ToBits(c, 8)) = 8
<1>1. NumberFits(c, 8)
  <2>1. 2^8 = 256
    OBVIOUS
  <2> QED
    BY <2>1 DEF IsChar, NumberFits
<1>2. PICK n : n = 8
  OBVIOUS
<1>3. ToBits(c, n) \in Seq(BitValues) /\ Len(ToBits(c, n)) = n
  BY <1>1, <1>2, NumberBits
<1> QED
  BY <1>1, <1>2, <1>3

(* The bits of a string's characters, in a row.                            *)
LEMMA CharBitsAre ==
    ASSUME NEW v, NEW L \in Nat, Len(v) = L, \A i \in 1 .. L : IsChar(v[i])
    PROVE  /\ CharBits(v) \in Seq(BitValues) /\ Len(CharBits(v)) = 8 * L
           /\ \A i \in 1 .. L : \A j \in 1 .. 8 :
                 CharBits(v)[8 * (i - 1) + j] = ToBits(v[i], 8)[j]
<1> DEFINE Bit(k) == ToBits(v[(k + 7) \div 8], 8)[1 + ((k - 1) % 8)]
<1>0. 8 * L \in Nat
  OBVIOUS
<1>1. ASSUME NEW k \in 1 .. 8 * L PROVE Bit(k) \in BitValues
  <2>1. PICK i \in 1 .. L : i = (k + 7) \div 8
    OBVIOUS
  <2>2. PICK j \in 1 .. 8 : j = 1 + ((k - 1) % 8)
    OBVIOUS
  <2>3. IsChar(v[i])
    OBVIOUS
  <2>4. PICK s \in Seq(BitValues) : s = ToBits(v[i], 8) /\ Len(s) = 8
    BY <2>3, CharFits
  <2>5. j \in 1 .. Len(s)
    BY <2>4
  <2>6. s[j] \in BitValues
    BY <2>5, SeqMember
  <2> QED
    BY <2>1, <2>2, <2>4, <2>6
<1>2. CharBits(v) = [k \in 1 .. 8 * L |-> Bit(k)]
  BY DEF CharBits
<1> HIDE DEF Bit
<1>3. CharBits(v) \in Seq(BitValues) /\ Len(CharBits(v)) = 8 * L
  BY <1>0, <1>1, <1>2
<1>4. ASSUME NEW i \in 1 .. L, NEW j \in 1 .. 8
      PROVE  CharBits(v)[8 * (i - 1) + j] = ToBits(v[i], 8)[j]
  <2>1. PICK k \in 1 .. 8 * L : k = 8 * (i - 1) + j
    OBVIOUS
  <2>2. (k + 7) \div 8 = i /\ 1 + ((k - 1) % 8) = j
    BY <2>1
  <2>3. CharBits(v)[k] = Bit(k)
    BY <1>2
  <2> QED
    BY <2>1, <2>2, <2>3 DEF Bit
<1> QED
  BY <1>3, <1>4

IsText(v, L) == v \in Seq(0 .. 255) /\ L \in Nat /\ Len(v) = L /\ L < 2^DT_MAX_STRING_BITS

(* String_Decode reads a string as it was written.                         *)
LEMMA TextRead ==
    ASSUME NEW d \in Seq(BitValues), NEW p \in Nat, NEW v, NEW L, IsText(v, L),
           Shows(d, p, StringCode(v))
    PROVE  ReadsAs(String_Decode(d, p), d, p, StringCode(v), v)
<1>1. PICK n : n = DT_MAX_STRING_BITS /\ n = 9 /\ NumberFits(L, n)
  <2>1. PICK n : n = DT_MAX_STRING_BITS /\ n = 9
    BY DEF DT_MAX_STRING_BITS
  <2>2. L \in Nat /\ L < 2^n
    BY <2>1 DEF IsText
  <2>3. n \in 0 .. 30
    BY <2>1
  <2>4. NumberFits(L, n)
    BY <2>2, <2>3 DEF NumberFits
  <2> QED
    BY <2>1, <2>4
<1>2. L \in Nat /\ Len(v) = L /\ \A i \in 1 .. L : IsChar(v[i])
  <2>1. v \in Seq(0 .. 255) /\ L \in Nat /\ Len(v) = L
    BY DEF IsText
  <2>2. PICK T : T = 0 .. 255 /\ v \in Seq(T)
    BY <2>1
  <2>3. ASSUME NEW i \in 1 .. L PROVE v[i] \in T
    BY <2>1, <2>2, SeqMember
  <2> QED
    BY <2>1, <2>2, <2>3 DEF IsChar
<1> DEFINE s == ToBits(L, n)
           t == CharBits(v)
           code == StringCode(v)
           r == String_Decode(d, p)
<1>3. code = s \o t
  BY <1>1, <1>2 DEF StringCode, CharBits
<1>4. s \in Seq(BitValues) /\ Len(s) = n
  BY <1>1, NumberBits
<1>5. /\ t \in Seq(BitValues) /\ Len(t) = 8 * L
      /\ \A i \in 1 .. L : \A j \in 1 .. 8 : t[8 * (i - 1) + j] = ToBits(v[i], 8)[j]
  BY <1>2, CharBitsAre
<1>6. Shows(d, p, code) /\ code = StringCode(v)
  OBVIOUS
<1> HIDE DEF s, t, code
<1>7. IsPlace(d, p) /\ TwoPieces(code, s, t)
  BY <1>3, <1>4, <1>5 DEF IsPlace, TwoPieces
<1>8. /\ code \in Seq(BitValues) /\ Len(code) = Len(s) + Len(t)
      /\ Len(s) \in Nat /\ Len(t) \in Nat
      /\ Shows(d, p, s) /\ Shows(d, p + Len(s), t)
      /\ ReadTo(p + Len(code), d, p, code)
  <2>1. Shows(d, p, code)
    BY <1>6
  <2> QED
    BY <1>7, <2>1, PiecesShown
<1>9. Len(code) = 9 + 8 * L /\ Shows(d, p + 9, t)
  BY <1>1, <1>4, <1>5, <1>8
<1>10. PICK len : len = UNat(d, p, n)
  OBVIOUS
<1>11. r = Result([i \in 1 .. len |-> UNat(d, p + 9 + 8 * (i - 1), 8)], p + 9 + 8 * len)
  BY <1>1, <1>10 DEF String_Decode, DT_MAX_STRING_BITS
<1>12. r.at \in Nat /\ r.at >= p + 9
  BY StringTyped
<1> HIDE DEF r
<1>13. ASSUME p + 9 <= Len(d) PROVE len = L /\ r.at = p + Len(code)
  <2>1. IsThere(d, p, L, n)
    BY <1>1, <1>8, <1>13 DEF IsThere, s
  <2>2. len = L
    BY <1>1, <1>10, <2>1, PlainNumber
  <2>3. r.at = p + 9 + 8 * L
    BY <1>11, <2>2 DEF Result
  <2> QED
    BY <1>2, <1>9, <2>2, <2>3
<1>14. ReadTo(r.at, d, p, code)
  <2>1. PICK h \in Nat, at \in Nat : h = 9 /\ at = r.at
    BY <1>12
  <2>2. at >= p + h /\ Len(code) >= h /\ (p + h <= Len(d) => at = p + Len(code))
    BY <1>2, <1>9, <1>12, <1>13, <2>1
  <2>3. code \in Seq(BitValues)
    BY <1>8
  <2>4. ReadTo(at, d, p, code)
    BY <2>2, <2>3, ReadToPart
  <2> QED
    BY <2>1, <2>4
<1>15. ASSUME p + Len(code) <= Len(d) PROVE r.v = v
  <2>1. p + 9 <= Len(d)
    BY <1>2, <1>9, <1>15
  <2>2. len = L
    BY <1>13, <2>1
  <2>3. ASSUME NEW i \in 1 .. L PROVE UNat(d, p + 9 + 8 * (i - 1), 8) = v[i]
    <3>1. PICK q \in Nat : q = p + 9 + 8 * (i - 1) /\ q + 8 <= Len(d)
      <4>1. p + 9 + 8 * (i - 1) \in Nat /\ p + 9 + 8 * (i - 1) + 8 <= p + 9 + 8 * L
        BY <1>2
      <4>2. p + 9 + 8 * L <= Len(d) /\ Len(d) \in Nat
        BY <1>2, <1>9, <1>15
      <4> QED
        BY <1>2, <4>1, <4>2
    <3>2. IsChar(v[i])
      BY <1>2
    <3>3. PICK b : b = ToBits(v[i], 8) /\ Len(b) = 8
      BY <3>2, CharFits
    <3>4. ASSUME NEW j \in 1 .. 8, q + j <= Len(d) PROVE d[q + j] = b[j]
      <4>1. PICK k \in 1 .. Len(t) : k = 8 * (i - 1) + j
        BY <1>2, <1>5
      <4>2. (p + 9) + k = q + j
        BY <3>1, <4>1
      <4>3. t[k] = b[j]
        BY <1>5, <3>3, <4>1
      <4> QED
        BY <1>9, <3>4, <4>2, <4>3 DEF Shows
    <3>5. Shows(d, q, b)
      BY <3>3, <3>4 DEF Shows
    <3>6. PICK m : m = 8 /\ NumberFits(v[i], m)
      BY <3>2, CharFits
    <3>7. IsThere(d, q, v[i], m)
      BY <3>1, <3>3, <3>5, <3>6 DEF IsThere
    <3>8. UNat(d, q, m) = v[i]
      BY <3>6, <3>7, PlainNumber
    <3> QED
      BY <3>1, <3>6, <3>8
  <2>4. r.v = [i \in 1 .. L |-> v[i]]
    <3>1. r.v = [i \in 1 .. L |-> UNat(d, p + 9 + 8 * (i - 1), 8)]
      BY <1>11, <2>2 DEF Result
    <3> QED
      BY <2>3, <3>1
  <2>5. v = [i \in 1 .. L |-> v[i]]
    BY DEF IsText
  <2> QED
    BY <2>4, <2>5
<1>16. ReadsAs(r, d, p, code, v)
  BY <1>8, <1>14, <1>15 DEF ReadsAs
<1> QED
  BY <1>6, <1>16 DEF r

(* Powers of two are numbers.                                              *)
LEMMA PowerIsNat == \A a \in 0 .. 30 : 2^a \in Nat
<1> SUFFICES ASSUME NEW a \in 0 .. 30 PROVE 2^a \in Nat
  OBVIOUS
<1>1. CASE a \in 0 .. 29
  BY <1>1, Powers
<1>2. CASE a = 30
  <2>1. 29 \in 0 .. 29 /\ 30 \in 1 .. 30 /\ 30 = 29 + 1
    OBVIOUS
  <2>2. 2^29 \in Nat \ {0} /\ 2^30 = 2 * 2^29
    BY <2>1, Powers
  <2> QED
    BY <1>2, <2>2
<1> QED
  BY <1>1, <1>2

(* And grow.                                                               *)
LEMMA PowersGrow ==
    \A a \in 0 .. 30 : \A b \in 0 .. 30 : a <= b => 2^a \in Nat /\ 2^b \in Nat /\ 2^a <= 2^b
<1> DEFINE S == {k \in Nat : \A a \in 0 .. 30 : \A b \in 0 .. 30 :
                                b = a + k => 2^a \in Nat /\ 2^b \in Nat /\ 2^a <= 2^b}
<1>0. \A a \in 0 .. 30 : 2^a \in Nat
  BY PowerIsNat
<1>1. 0 \in S
  <2>1. ASSUME NEW a \in 0 .. 30, NEW b \in 0 .. 30, b = a + 0
        PROVE  2^a \in Nat /\ 2^b \in Nat /\ 2^a <= 2^b
    <3>1. a = b
      BY <2>1
    <3>2. 2^a \in Nat
      BY <1>0
    <3> QED
      BY <3>1, <3>2
  <2> QED
    BY <2>1
<1>2. ASSUME NEW k \in Nat, k \in S PROVE k + 1 \in S
  <2>1. ASSUME NEW a \in 0 .. 30, NEW b \in 0 .. 30, b = a + (k + 1)
        PROVE  2^a \in Nat /\ 2^b \in Nat /\ 2^a <= 2^b
    <3>1. PICK c \in 0 .. 29 : c = a + k /\ b = c + 1
      <4>1. a + k \in 0 .. 29 /\ b = (a + k) + 1
        BY <2>1
      <4> QED
        BY <4>1
    <3>2. c \in 0 .. 30 /\ b \in 1 .. 30
      BY <3>1
    <3>3. 2^a \in Nat /\ 2^c \in Nat /\ 2^a <= 2^c
      BY <1>2, <3>1, <3>2
    <3>4. 2^b = 2 * 2^c
      BY <3>1, <3>2, Powers
    <3> QED
      BY <3>3, <3>4
  <2> QED
    BY <2>1
<1>3. \A k \in Nat : k \in S
  <2> HIDE DEF S
  <2> QED
    BY <1>1, <1>2, NatSet
<1>4. ASSUME NEW a \in 0 .. 30, NEW b \in 0 .. 30, a <= b
      PROVE  2^a \in Nat /\ 2^b \in Nat /\ 2^a <= 2^b
  <2>1. PICK k \in Nat : b = a + k
    <3>1. b - a \in Nat /\ b = a + (b - a)
      BY <1>4
    <3> QED
      BY <3>1
  <2>2. k \in S
    BY <1>3
  <2> QED
    BY <2>1, <2>2
<1> QED
  BY <1>4

(* How many bits the number of an array's elements has, as it is read and  *)
(* as it is written.                                                       *)
MayCount(num) == num \in 0 .. 1023
ArrayBits(num) == Min({b \in 1 .. 10 : 2^b > num})

(* The bits that Array_Decode counts for an array's length are those that  *)
(* its length is written in.                                               *)
LEMMA CountBitsIs ==
    ASSUME NEW num, MayCount(num)
    PROVE  /\ ArrayBits(num) \in 1 .. 10 /\ num \in Nat /\ num < 2^ArrayBits(num)
           /\ CountBits(num) = ArrayBits(num)
<1> DEFINE S == {b \in 1 .. 10 : 2^b > num}
           T == {b \in 1 .. 31 : b = 1 \/ 2^(b - 1) <= num}
<1>0. num \in Nat
  BY DEF MayCount
<1>1. 10 \in S
  <2>1. 2^10 = 1024
    OBVIOUS
  <2>2. num < 1024
    BY DEF MayCount
  <2>3. 10 \in 1 .. 10
    OBVIOUS
  <2> QED
    BY <2>1, <2>2, <2>3
<1>2. PICK m : m = Min(S)
  OBVIOUS
<1>3. m \in S /\ \A x \in S : m <= x
  <2>1. PICK L \in Nat : L = 10
    OBVIOUS
  <2>a. \A x \in S : x \in 1 .. 10
    OBVIOUS
  <2> HIDE DEF S
  <2>2. S \subseteq 0 .. L /\ S # {}
    BY <1>1, <2>1, <2>a
  <2> QED
    BY <1>2, <2>2, LeastOf
<1>4. m \in 1 .. 10 /\ 2^m > num
  BY <1>3
<1>5. m \in T
  <2>1. CASE m = 1
    BY <2>1
  <2>2. CASE m # 1
    <3>1. PICK c \in 1 .. 10 : c = m - 1 /\ c \in 0 .. 30
      BY <1>4, <2>2
    <3>2. c \notin S
      BY <1>3, <1>4, <3>1
    <3>3. 2^c \in Nat
      <4>1. c \in 0 .. 30
        BY <3>1
      <4> QED
        BY <4>1, PowerIsNat
    <3>4. 2^c <= num
      BY <1>0, <3>2, <3>3
    <3> QED
      BY <1>4, <3>1, <3>4
  <2> QED
    BY <2>1, <2>2
<1>6. ASSUME NEW x \in T PROVE x <= m
  <2> SUFFICES ASSUME ~(x <= m) PROVE FALSE
    OBVIOUS
  <2>1. x \in 1 .. 31
    OBVIOUS
  <2>2. PICK c \in 0 .. 30 : c = x - 1 /\ m <= c /\ m \in 0 .. 30
    BY <1>4, <2>1
  <2>3. 2^c <= num
    BY <1>4, <2>2
  <2>4. 2^m \in Nat /\ 2^c \in Nat /\ 2^m <= 2^c
    BY <2>2, PowersGrow
  <2> QED
    BY <1>0, <1>4, <2>3, <2>4
<1>7. PICK M : M = Max(T)
  OBVIOUS
<1>8. M \in T /\ \A x \in T : x <= M
  <2>1. PICK L \in Nat : L = 31
    OBVIOUS
  <2>2. T \subseteq 0 .. L /\ T # {}
    BY <1>5, <2>1
  <2> HIDE DEF T
  <2> QED
    BY <1>7, <2>2, GreatestOf
<1>9. M = m
  <2>1. M <= m /\ m <= M
    BY <1>5, <1>6, <1>8
  <2>2. M \in Nat /\ m \in Nat
    BY <1>5, <1>8
  <2> QED
    BY <2>1, <2>2
<1> HIDE DEF S, T
<1>10. CountBits(num) = M
  BY <1>7 DEF CountBits, T
<1>11. ArrayBits(num) = m
  BY <1>2 DEF ArrayBits, S
<1> QED
  BY <1>0, <1>4, <1>9, <1>10, <1>11

(* What may be said of a prop that is not an array.                        *)
LEMMA ElementIs ==
    ASSUME NEW prop, IsElement(prop)
    PROVE  /\ prop.type \in {"Int", "Int64", "Float", "Vector", "VectorXY", "String"}
           /\ prop.unsigned \in BOOLEAN
           /\ prop.type = "Int" => prop.coding = "varint" \/ prop.num_bits \in 1 .. 32
           /\ prop.type = "Int64" => prop.coding = "varint" \/ LongWidth(prop.num_bits)
           /\ prop.type \in {"Float", "Vector", "VectorXY"} => IsFloat(prop)
  BY DEF IsElement, LongWidth, IsFloat

(* Reading such a prop goes on.                                            *)
LEMMA ElementTyped ==
    ASSUME NEW d \in Seq(BitValues), NEW p \in Nat, NEW prop, IsElement(prop)
    PROVE  GoesOn(DecodeElement(d, p, prop), p)
<1>1. CASE prop.type = "Int"
  <2>1. DecodeElement(d, p, prop) = Int_Decode(d, p, prop)
    BY <1>1 DEF DecodeElement
  <2>2. prop.coding = "varint" \/ prop.num_bits \in 1 .. 32
    BY <1>1, ElementIs
  <2>3. GoesOn(Int_Decode(d, p, prop), p)
    BY <2>2, IntTyped
  <2> QED
    BY <2>1, <2>3
<1>2. CASE prop.type = "Int64"
  <2>1. DecodeElement(d, p, prop) = Int64_Decode(d, p, prop)
    BY <1>2 DEF DecodeElement
  <2>2. (prop.coding = "varint" \/ LongWidth(prop.num_bits)) /\ prop.unsigned \in BOOLEAN
    BY <1>2, ElementIs
  <2>3. GoesOn(Int64_Decode(d, p, prop), p)
    BY <2>2, Int64Typed
  <2> QED
    BY <2>1, <2>3
<1>3. CASE prop.type = "Float"
  <2>1. DecodeElement(d, p, prop) = Float_Decode(d, p, prop)
    BY <1>3 DEF DecodeElement
  <2>2. IsFloat(prop)
    BY <1>3, ElementIs
  <2> QED
    BY <2>1, <2>2, FloatTyped
<1>4. CASE prop.type = "Vector"
  <2>1. DecodeElement(d, p, prop) = Vector_Decode(d, p, prop)
    BY <1>4 DEF DecodeElement
  <2>2. IsFloat(prop)
    BY <1>4, ElementIs
  <2> QED
    BY <2>1, <2>2, VectorTyped
<1>5. CASE prop.type = "VectorXY"
  <2>1. DecodeElement(d, p, prop) = VectorXY_Decode(d, p, prop)
    BY <1>5 DEF DecodeElement
  <2>2. IsFloat(prop)
    BY <1>5, ElementIs
  <2> QED
    BY <2>1, <2>2, VectorTyped
<1>6. CASE prop.type = "String"
  <2>1. DecodeElement(d, p, prop) = String_Decode(d, p)
    BY <1>6 DEF DecodeElement
  <2>2. String_Decode(d, p).at \in Nat /\ String_Decode(d, p).at >= p + 9
    BY StringTyped
  <2> QED
    BY <2>1, <2>2 DEF GoesOn
<1> QED
  BY <1>1, <1>2, <1>3, <1>4, <1>5, <1>6, ElementIs

(* Such a prop is read as it was written.                                  *)
LEMMA ElementRead ==
    ASSUME NEW d \in Seq(BitValues), NEW p \in Nat, NEW prop, IsElement(prop),
           NEW v, ElementHas(prop, v), Shows(d, p, ElementCode(prop, v))
    PROVE  ReadsIf(prop.coding # "noscale", DecodeElement(d, p, prop), d, p,
                   ElementCode(prop, v), v)
<1>1. CASE prop.type = "Int"
  <2>1. /\ DecodeElement(d, p, prop) = Int_Decode(d, p, prop)
        /\ ElementCode(prop, v) = IntCode(prop, v) /\ IntHas(prop, v)
    BY <1>1 DEF DecodeElement, ElementCode, ElementHas
  <2>2. (prop.coding = "varint" \/ prop.num_bits \in 1 .. 32) /\ prop.unsigned \in BOOLEAN
    BY <1>1, ElementIs
  <2>3. ReadsAs(Int_Decode(d, p, prop), d, p, IntCode(prop, v), v)
    BY <2>1, <2>2, IntRead
  <2> QED
    BY <2>1, <2>3, Weaker
<1>2. CASE prop.type = "Int64"
  <2>1. /\ DecodeElement(d, p, prop) = Int64_Decode(d, p, prop)
        /\ ElementCode(prop, v) = Int64Code(prop, v) /\ Int64Has(prop, v)
    BY <1>2 DEF DecodeElement, ElementCode, ElementHas
  <2>2. (prop.coding = "varint" \/ LongWidth(prop.num_bits)) /\ prop.unsigned \in BOOLEAN
    BY <1>2, ElementIs
  <2>3. ReadsAs(Int64_Decode(d, p, prop), d, p, Int64Code(prop, v), v)
    BY <2>1, <2>2, Int64Read
  <2> QED
    BY <2>1, <2>3, Weaker
<1>3. CASE prop.type = "Float"
  <2>1. /\ DecodeElement(d, p, prop) = Float_Decode(d, p, prop)
        /\ ElementCode(prop, v) = FloatCode(prop, v) /\ FloatHas(prop, v)
    BY <1>3 DEF DecodeElement, ElementCode, ElementHas
  <2>2. IsFloat(prop)
    BY <1>3, ElementIs
  <2> QED
    BY <2>1, <2>2, FloatRead
<1>4. CASE prop.type = "Vector"
  <2>1. /\ DecodeElement(d, p, prop) = Vector_Decode(d, p, prop)
        /\ ElementCode(prop, v) = VectorCode(prop, v)
    BY <1>4 DEF DecodeElement, ElementCode
  <2>2. IsFloat(prop)
    BY <1>4, ElementIs
  <2>3. /\ v = <<v[1], v[2], v[3]>> /\ FloatHas(prop, v[1]) /\ FloatHas(prop, v[2])
        /\ IF prop.coding = "normal" THEN v[3] \in BitValues ELSE FloatHas(prop, v[3])
    BY <1>4 DEF ElementHas
  <2>4. ReadsIf(prop.coding # "noscale", Vector_Decode(d, p, prop), d, p, VectorCode(prop, v), v)
    BY <2>1, <2>2, <2>3, VectorRead
  <2> QED
    BY <2>1, <2>4
<1>5. CASE prop.type = "VectorXY"
  <2>1. /\ DecodeElement(d, p, prop) = VectorXY_Decode(d, p, prop)
        /\ ElementCode(prop, v) = FloatCode(prop, v[1]) \o FloatCode(prop, v[2])
    BY <1>5 DEF DecodeElement, ElementCode
  <2>2. IsFloat(prop)
    BY <1>5, ElementIs
  <2>3. v = <<v[1], v[2]>> /\ FloatHas(prop, v[1]) /\ FloatHas(prop, v[2])
    BY <1>5 DEF ElementHas
  <2>4. ReadsIf(prop.coding # "noscale", VectorXY_Decode(d, p, prop), d, p,
                FloatCode(prop, v[1]) \o FloatCode(prop, v[2]), v)
    BY <2>1, <2>2, <2>3, VectorXYRead
  <2> QED
    BY <2>1, <2>4
<1>6. CASE prop.type = "String"
  <2>1. /\ DecodeElement(d, p, prop) = String_Decode(d, p)
        /\ ElementCode(prop, v) = StringCode(v)
    BY <1>6 DEF DecodeElement, ElementCode
  <2>2. v \in Seq(0 .. 255) /\ Len(v) < 2^DT_MAX_STRING_BITS
    BY <1>6 DEF ElementHas
  <2>3. PICK L : L = Len(v) /\ IsText(v, L)
    BY <2>2 DEF IsText
  <2>4. ReadsAs(String_Decode(d, p), d, p, StringCode(v), v)
    BY <2>1, <2>3, TextRead
  <2> QED
    BY <2>1, <2>4, Weaker
<1> QED
  BY <1>1, <1>2, <1>3, <1>4, <1>5, <1>6, ElementIs

(* Its code is bits.                                                       *)
LEMMA ElementCodeTyped ==
    ASSUME NEW prop, IsElement(prop), NEW v, ElementHas(prop, v)
    PROVE  ElementCode(prop, v) \in Seq(BitValues)
<1>1. PICK e \in Seq(BitValues), z \in Nat : Shows(e, z, ElementCode(prop, v))
  BY ShownByNothing
<1>2. ReadsIf(prop.coding # "noscale", DecodeElement(e, z, prop), e, z, ElementCode(prop, v), v)
  BY <1>1, ElementRead
<1> QED
  BY <1>2 DEF ReadsIf

(* Where the elements of an array begin, as they are read one by one.      *)
EndList(g, n, b, E) == g = [k \in 0 .. n |-> IF k = 0 THEN b ELSE E[g[k - 1]].at]

(* There is a list of the places where the elements of an array end.       *)
LEMMA EndsExist ==
    ASSUME NEW b, NEW E
    PROVE  \A n \in Nat : \E g : EndList(g, n, b, E)
<1> DEFINE S == {n \in Nat : \E g : EndList(g, n, b, E)}
<1>1. 0 \in S
  <2>1. EndList([k \in 0 .. 0 |-> b], 0, b, E)
    <3> DEFINE g == [k \in 0 .. 0 |-> b]
    <3>1. \A k \in 0 .. 0 : g[k] = IF k = 0 THEN b ELSE E[g[k - 1]].at
      OBVIOUS
    <3>2. g = [k \in 0 .. 0 |-> IF k = 0 THEN b ELSE E[g[k - 1]].at]
      BY <3>1
    <3> QED
      BY <3>2 DEF EndList
  <2> QED
    BY <2>1
<1>2. ASSUME NEW n \in Nat, n \in S PROVE n + 1 \in S
  <2>1. PICK g : EndList(g, n, b, E)
    BY <1>2
  <2> DEFINE h == [k \in 0 .. n + 1 |-> IF k = n + 1 THEN E[g[n]].at ELSE g[k]]
  <2>2. \A k \in 0 .. n : g[k] = IF k = 0 THEN b ELSE E[g[k - 1]].at
    BY <2>1, Zenon DEF EndList
  <2>3. ASSUME NEW k \in 0 .. n + 1 PROVE h[k] = IF k = 0 THEN b ELSE E[h[k - 1]].at
    <3>1. CASE k = n + 1
      <4>1. h[k] = E[g[n]].at
        BY <3>1
      <4>2. k # 0 /\ k - 1 = n /\ n \in 0 .. n + 1 /\ n # n + 1
        BY <3>1
      <4>3. h[n] = g[n]
        BY <4>2
      <4> QED
        BY <4>1, <4>2, <4>3
    <3>2. CASE k # n + 1
      <4>1. k \in 0 .. n /\ h[k] = g[k]
        BY <3>2
      <4>2. CASE k = 0
        BY <2>2, <4>1, <4>2
      <4>3. CASE k # 0
        <5>1. k - 1 \in 0 .. n + 1 /\ k - 1 # n + 1
          BY <3>2, <4>1, <4>3
        <5>2. h[k - 1] = g[k - 1]
          BY <5>1
        <5> QED
          BY <2>2, <4>1, <4>3, <5>2
      <4> QED
        BY <4>2, <4>3
    <3> QED
      BY <3>1, <3>2
  <2>4. h = [k \in 0 .. n + 1 |-> IF k = 0 THEN b ELSE E[h[k - 1]].at]
    BY <2>3
  <2>5. EndList(h, n + 1, b, E)
    BY <2>4 DEF EndList
  <2> QED
    BY <2>5
<1>3. \A n \in Nat : n \in S
  <2> HIDE DEF S
  <2> QED
    BY <1>1, <1>2, NatSet
<1> QED
  BY <1>3

(* Reads of the elements of an array, each where the one before it ended.  *)
Elements(d, prop) == [p \in Nat |-> DecodeElement(d, p, prop.element)]
ArrayLength(d, p, prop) == UNat(d, p, CountBits(prop.num_elements))
ArrayEnds(g, d, p, prop) ==
    EndList(g, ArrayLength(d, p, prop), p + CountBits(prop.num_elements), Elements(d, prop))

(* Array_Decode reads as many elements as it counted, each where the one   *)
(* before it ended.                                                        *)
LEMMA ArrayIs ==
    ASSUME NEW d, NEW p, NEW prop, ArrayLength(d, p, prop) \in Nat
    PROVE  \E g : /\ ArrayEnds(g, d, p, prop)
                  /\ Array_Decode(d, p, prop)
                        = Result([k \in 1 .. ArrayLength(d, p, prop) |-> Elements(d, prop)[g[k - 1]].v],
                                 g[ArrayLength(d, p, prop)])
<1> DEFINE n == ArrayLength(d, p, prop)
           b == p + CountBits(prop.num_elements)
           E == Elements(d, prop)
           g == CHOOSE g : g = [k \in 0 .. n |-> IF k = 0 THEN b ELSE E[g[k - 1]].at]
<1>1. \E f : EndList(f, n, b, E)
  BY EndsExist
<1>2. EndList(g, n, b, E)
  BY <1>1 DEF EndList
<1>3. Array_Decode(d, p, prop) = Result([k \in 1 .. n |-> E[g[k - 1]].v], g[n])
  BY DEF Array_Decode, ArrayLength, Elements
<1>4. ArrayEnds(g, d, p, prop)
  BY <1>2 DEF ArrayEnds
<1> QED
  BY <1>3, <1>4

(* Those places go on.                                                     *)
LEMMA EndsTyped ==
    ASSUME NEW d \in Seq(BitValues), NEW prop, IsElement(prop.element),
           NEW b \in Nat, NEW n \in Nat, NEW g, EndList(g, n, b, Elements(d, prop))
    PROVE  /\ g[0] = b
           /\ \A k \in 0 .. n : g[k] \in Nat /\ g[k] >= b
           /\ \A k \in 0 .. n : \A m \in 1 .. n : m = k + 1 =>
                 /\ Elements(d, prop)[g[k]] = DecodeElement(d, g[k], prop.element)
                 /\ g[m] = DecodeElement(d, g[k], prop.element).at /\ g[m] >= g[k]
<1> DEFINE E == Elements(d, prop)
<1>1. \A k \in 0 .. n : g[k] = IF k = 0 THEN b ELSE E[g[k - 1]].at
  BY Zenon DEF EndList
<1>2. \A q \in Nat : E[q] = DecodeElement(d, q, prop.element)
  BY DEF Elements
<1>3. \A q \in Nat : E[q].at \in Nat /\ E[q].at >= q
  <2> SUFFICES ASSUME NEW q \in Nat PROVE E[q].at \in Nat /\ E[q].at >= q
    OBVIOUS
  <2>1. GoesOn(DecodeElement(d, q, prop.element), q)
    BY ElementTyped
  <2> QED
    BY <1>2, <2>1 DEF GoesOn
<1> HIDE DEF E
<1>4. g[0] = b
  BY <1>1
<1> DEFINE S == {k \in Nat : k <= n => g[k] \in Nat /\ g[k] >= b}
<1>5. 0 \in S
  BY <1>4
<1>6. ASSUME NEW k \in Nat, k \in S PROVE k + 1 \in S
  <2> SUFFICES ASSUME k + 1 <= n PROVE g[k + 1] \in Nat /\ g[k + 1] >= b
    OBVIOUS
  <2>1. k + 1 \in 0 .. n /\ k + 1 # 0 /\ (k + 1) - 1 = k /\ k <= n
    OBVIOUS
  <2>2. g[k + 1] = E[g[k]].at
    BY <1>1, <2>1
  <2>3. g[k] \in Nat /\ g[k] >= b
    BY <1>6, <2>1
  <2>4. E[g[k]].at \in Nat /\ E[g[k]].at >= g[k]
    BY <1>3, <2>3
  <2> QED
    BY <2>2, <2>3, <2>4
<1>7. \A k \in Nat : k \in S
  <2> HIDE DEF S
  <2> QED
    BY <1>5, <1>6, NatSet
<1>8. ASSUME NEW k \in 0 .. n PROVE g[k] \in Nat /\ g[k] >= b
  <2>1. k \in S /\ k <= n
    <3> HIDE DEF S
    <3> QED
      BY <1>7
  <2> QED
    BY <2>1
<1>9. ASSUME NEW k \in 0 .. n, NEW m \in 1 .. n, m = k + 1
      PROVE  /\ E[g[k]] = DecodeElement(d, g[k], prop.element)
             /\ g[m] = DecodeElement(d, g[k], prop.element).at /\ g[m] >= g[k]
  <2>1. g[k] \in Nat
    BY <1>8
  <2>2. m \in 0 .. n /\ m # 0 /\ m - 1 = k
    BY <1>9
  <2>3. g[m] = E[g[k]].at
    BY <1>1, <2>2
  <2> QED
    BY <1>2, <1>3, <2>1, <2>3
<1> QED
  BY <1>4, <1>8, <1>9 DEF E

(* So Array_Decode goes on.                                                *)
LEMMA ArrayTyped ==
    ASSUME NEW d \in Seq(BitValues), NEW p \in Nat, NEW prop, MayCount(prop.num_elements),
           IsElement(prop.element)
    PROVE  /\ Array_Decode(d, p, prop).at \in Nat
           /\ Array_Decode(d, p, prop).at >= p + ArrayBits(prop.num_elements)
<1>0. PICK num : num = prop.num_elements
  OBVIOUS
<1>1. PICK c \in Nat : num = prop.num_elements /\ c = ArrayBits(num) /\ CountBits(num) = c
  <2>1. MayCount(num)
    BY <1>0
  <2>2. ArrayBits(num) \in 1 .. 10 /\ CountBits(num) = ArrayBits(num)
    BY <2>1, CountBitsIs
  <2> QED
    BY <1>0, <2>2
<1>2. PICK n \in Nat : n = ArrayLength(d, p, prop)
  <2>1. UNat(d, p, c) \in Nat
    BY UNatTyped
  <2> QED
    BY <1>1, <2>1 DEF ArrayLength
<1>3. PICK g : /\ ArrayEnds(g, d, p, prop)
               /\ Array_Decode(d, p, prop)
                     = Result([k \in 1 .. n |-> Elements(d, prop)[g[k - 1]].v], g[n])
  BY <1>2, ArrayIs
<1>4. PICK b \in Nat : b = p + c
  <2>1. p + c \in Nat
    OBVIOUS
  <2> QED
    BY <2>1
<1>5. EndList(g, n, b, Elements(d, prop))
  BY <1>1, <1>2, <1>3, <1>4 DEF ArrayEnds
<1>6. \A k \in 0 .. n : g[k] \in Nat /\ g[k] >= b
  BY <1>5, EndsTyped
<1>7. g[n] \in Nat /\ g[n] >= b
  <2>1. n \in 0 .. n
    OBVIOUS
  <2> QED
    BY <1>6, <2>1
<1>8. Array_Decode(d, p, prop).at = g[n]
  BY <1>3 DEF Result
<1> QED
  BY <1>1, <1>4, <1>7, <1>8

ElementParts(prop, v, n) == [i \in 1 .. n |-> ElementCode(prop.element, v[i])]
IsArrayOf(prop, v, n) ==
    /\ IsElement(prop.element) /\ n \in Nat
    /\ \A i \in 1 .. n : ElementHas(prop.element, v[i])

(* The codes of the elements of an array.                                  *)
LEMMA ElementPartsAre ==
    ASSUME NEW prop, NEW v, NEW n, IsArrayOf(prop, v, n)
    PROVE  /\ Parts(ElementParts(prop, v, n), n, BitValues)
           /\ \A i \in 1 .. n : ElementParts(prop, v, n)[i] = ElementCode(prop.element, v[i])
<1>1. \A i \in 1 .. n : ElementParts(prop, v, n)[i] = ElementCode(prop.element, v[i])
  BY DEF ElementParts
<1>2. \A i \in 1 .. n : ElementCode(prop.element, v[i]) \in Seq(BitValues)
  BY ElementCodeTyped DEF IsArrayOf
<1> QED
  BY <1>1, <1>2 DEF Parts, IsArrayOf

ElementsAreRead(d, b, prop, v, n, g) ==
    /\ ReadTo(g[n], d, b, Flat(ElementParts(prop, v, n), n))
    /\ b + Len(Flat(ElementParts(prop, v, n), n)) <= Len(d) /\ prop.element.coding # "noscale" =>
          \A k \in 1 .. n : Elements(d, prop)[g[k - 1]].v = v[k]

(* The elements of an array are read as they were written, each where the  *)
(* one before it ended.                                                    *)
LEMMA ElementsRead ==
    ASSUME NEW d, NEW b, NEW prop, NEW v, NEW n, NEW g, IsPlace(d, b), IsArrayOf(prop, v, n),
           EndList(g, n, b, Elements(d, prop)), Shows(d, b, Flat(ElementParts(prop, v, n), n))
    PROVE  ElementsAreRead(d, b, prop, v, n, g)
<1> DEFINE F == ElementParts(prop, v, n)
<1>0. d \in Seq(BitValues) /\ b \in Nat /\ n \in Nat /\ IsElement(prop.element)
      /\ Len(d) \in Nat
  BY DEF IsPlace, IsArrayOf
<1>1. /\ g[0] = b
      /\ \A k \in 0 .. n : g[k] \in Nat /\ g[k] >= b
      /\ \A k \in 0 .. n : \A m \in 1 .. n : m = k + 1 =>
            /\ Elements(d, prop)[g[k]] = DecodeElement(d, g[k], prop.element)
            /\ g[m] = DecodeElement(d, g[k], prop.element).at /\ g[m] >= g[k]
  BY <1>0, EndsTyped
<1>2. Parts(F, n, BitValues) /\ \A i \in 1 .. n : F[i] = ElementCode(prop.element, v[i])
  BY ElementPartsAre
<1>3. \A i \in 1 .. n : ElementHas(prop.element, v[i])
  BY DEF IsArrayOf
<1>s. Shows(d, b, Flat(F, n))
  OBVIOUS
<1> HIDE DEF F
<1>4. \A k \in 0 .. n : Flat(F, k) \in Seq(BitValues)
  BY <1>2, FlatTyped
<1>5. \A k \in 0 .. n : \A m \in 1 .. n : m = k + 1 => Flat(F, m) = Flat(F, k) \o F[m]
  BY <1>2, FlatMore
<1>6. \A k \in 0 .. n : \A m \in 1 .. n : m = k + 1 =>
         /\ Shows(d, b + Len(Flat(F, k)), F[m])
         /\ Len(Flat(F, m)) = Len(Flat(F, k)) + Len(F[m])
         /\ Len(Flat(F, k)) \in Nat /\ Len(Flat(F, m)) \in Nat /\ Len(F[m]) \in Nat
         /\ Len(Flat(F, m)) <= Len(Flat(F, n)) /\ Len(Flat(F, n)) \in Nat
  BY <1>0, <1>2, <1>s, ShowsPart
<1>7. ASSUME NEW k \in 0 .. n, NEW m \in 1 .. n, m = k + 1, g[k] = b + Len(Flat(F, k))
      PROVE  ReadsIf(prop.element.coding # "noscale", DecodeElement(d, g[k], prop.element),
                     d, g[k], F[m], v[m])
  <2>1. g[k] \in Nat /\ F[m] = ElementCode(prop.element, v[m]) /\ ElementHas(prop.element, v[m])
    BY <1>1, <1>2, <1>3
  <2>2. Shows(d, g[k], ElementCode(prop.element, v[m]))
    BY <1>6, <1>7, <2>1
  <2> QED
    BY <1>0, <2>1, <2>2, ElementRead
<1> DEFINE S == {k \in Nat : k <= n => ReadTo(g[k], d, b, Flat(F, k))}
<1>8. 0 \in S
  <2>1. Flat(F, 0) = <<>> /\ Flat(F, 0) \in Seq(BitValues)
    <3>1. 0 \in 0 .. n
      BY <1>0
    <3> QED
      BY <1>4, <3>1, FlatNothing
  <2>2. PICK e \in Seq(BitValues) : e = Flat(F, 0) /\ Len(e) = 0
    <3>1. Len(<<>>) = 0
      OBVIOUS
    <3> QED
      BY <2>1, <3>1
  <2>3. ReadTo(b + Len(e), d, b, e)
    BY <1>0, ReadToFixed
  <2>4. b + Len(e) = b
    BY <1>0, <2>2
  <2>5. ReadTo(g[0], d, b, Flat(F, 0))
    BY <1>1, <2>2, <2>3, <2>4
  <2> QED
    BY <2>5
<1>9. ASSUME NEW k \in Nat, k \in S PROVE k + 1 \in S
  <2> SUFFICES ASSUME k + 1 <= n PROVE ReadTo(g[k + 1], d, b, Flat(F, k + 1))
    OBVIOUS
  <2>1. PICK m \in 1 .. n : m = k + 1 /\ k \in 0 .. n /\ m \in 0 .. n
    <3>1. k + 1 \in 1 .. n /\ k + 1 \in 0 .. n /\ k \in 0 .. n
      BY <1>0
    <3> QED
      BY <3>1
  <2>2. ReadTo(g[k], d, b, Flat(F, k))
    BY <1>9, <2>1
  <2>3. PICK s \in Seq(BitValues), t \in Seq(BitValues) :
           s = Flat(F, k) /\ t = F[m] /\ Flat(F, m) = s \o t
    <3>1. F[m] \in Seq(BitValues)
      BY <1>2, <2>1 DEF Parts
    <3> QED
      BY <1>4, <1>5, <2>1, <3>1
  <2>4. PICK x \in Nat, y \in Nat : x = g[k] /\ y = g[m] /\ y >= x
    BY <1>1, <2>1
  <2>5. ASSUME b + Len(s) <= Len(d) PROVE ReadTo(y, d, b + Len(s), t)
    <3>1. g[k] = b + Len(Flat(F, k))
      BY <2>2, <2>3, <2>5 DEF ReadTo
    <3>2. ReadsIf(prop.element.coding # "noscale", DecodeElement(d, g[k], prop.element),
                  d, g[k], F[m], v[m])
      BY <1>7, <2>1, <3>1
    <3>3. g[m] = DecodeElement(d, g[k], prop.element).at
      BY <1>1, <2>1
    <3> QED
      BY <2>3, <2>4, <3>1, <3>2, <3>3 DEF ReadsIf
  <2>6. ReadTo(x, d, b, s)
    BY <2>2, <2>3, <2>4
  <2>7. ReadTo(y, d, b, s \o t)
    BY <1>0, <2>4, <2>5, <2>6, ReadToBoth
  <2> QED
    BY <2>1, <2>3, <2>4, <2>7
<1>10. \A k \in Nat : k \in S
  <2> HIDE DEF S
  <2> QED
    BY <1>8, <1>9, NatSet
<1>11. ASSUME NEW k \in 0 .. n PROVE ReadTo(g[k], d, b, Flat(F, k))
  <2>1. k \in S /\ k <= n
    <3> HIDE DEF S
    <3> QED
      BY <1>10
  <2> QED
    BY <2>1
<1>12. ASSUME b + Len(Flat(F, n)) <= Len(d), prop.element.coding # "noscale", NEW m \in 1 .. n
       PROVE  Elements(d, prop)[g[m - 1]].v = v[m]
  <2>1. PICK k \in 0 .. n : m = k + 1 /\ k = m - 1
    <3>1. m - 1 \in 0 .. n /\ m = (m - 1) + 1
      BY <1>0
    <3> QED
      BY <3>1
  <2>2. /\ Len(Flat(F, m)) = Len(Flat(F, k)) + Len(F[m])
        /\ Len(Flat(F, k)) \in Nat /\ Len(Flat(F, m)) \in Nat /\ Len(F[m]) \in Nat
        /\ Len(Flat(F, m)) <= Len(Flat(F, n)) /\ Len(Flat(F, n)) \in Nat
    BY <1>6, <2>1
  <2>3. b + Len(Flat(F, k)) <= Len(d) /\ (b + Len(Flat(F, k))) + Len(F[m]) <= Len(d)
    <3>1. PICK x \in Nat, y \in Nat, z \in Nat, w \in Nat, l \in Nat :
             /\ x = Len(Flat(F, k)) /\ y = Len(F[m]) /\ z = Len(Flat(F, m)) /\ w = Len(Flat(F, n))
             /\ l = Len(d) /\ z = x + y /\ z <= w
      BY <1>0, <2>2
    <3>2. b + w <= l
      BY <1>12, <3>1
    <3>3. z = x + y /\ z <= w /\ x \in Nat /\ y \in Nat /\ w \in Nat /\ l \in Nat
      BY <3>1
    <3>4. b + x <= l /\ (b + x) + y <= l
      BY <1>0, <3>2, <3>3
    <3> QED
      BY <3>1, <3>4
  <2>4. g[k] = b + Len(Flat(F, k))
    BY <1>11, <2>3 DEF ReadTo
  <2>5. ReadsIf(prop.element.coding # "noscale", DecodeElement(d, g[k], prop.element),
                d, g[k], F[m], v[m])
    BY <1>7, <2>1, <2>4
  <2>6. DecodeElement(d, g[k], prop.element).v = v[m]
    BY <1>12, <2>3, <2>4, <2>5 DEF ReadsIf
  <2> QED
    BY <1>1, <2>1, <2>6
<1>13. ReadTo(g[n], d, b, Flat(F, n))
  <2>1. n \in 0 .. n
    BY <1>0
  <2> QED
    BY <1>11, <2>1
<1> QED
  BY <1>12, <1>13 DEF ElementsAreRead, F
=============================================================================
