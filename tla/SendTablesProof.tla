--------------------------- MODULE SendTablesProof ---------------------------
(***************************************************************************)
(* The sort of PropSort, and the parser of SendTables around it, for any   *)
(* recording: any tables that refer to each other without a circle, of any *)
(* number and depth, and any number of classes.                            *)
(*   1. The sort keeps every prop and orders them by rank.                 *)
(*   2. Sequences that are flattened: where their elements are, in which   *)
(*      order, and what their entries are.                                 *)
(*   3. Tables, links and walks: how a walk goes on, and which of two is   *)
(*      before the other.                                                  *)
(*   4. The excludes and props gathered are those of the walks, by         *)
(*      induction over the depth.                                          *)
(*   5. The inductive invariant of the parser, and the theorems.           *)
(*   6. The recursion ends before the depth at which it is cut off.        *)
(***************************************************************************)
EXTENDS SendTables, Lemmas, SequenceTheorems, TLAPS

(* The props in front of start are in order, and none of them ranks behind *)
(* a priority that is left; the others have one that is left.              *)
Partial ==
    /\ \A i, j \in 1 .. start :
          i < j => Rank(flattenedProps[i]) <= Rank(flattenedProps[j])
    /\ \A i \in 1 .. start, q \in priorities : Rank(flattenedProps[i]) <= q
    /\ \A i \in Left : Rank(flattenedProps[i]) \in priorities

Finished == ~sorting => priorities = {}

SortInv == SortTypeOK /\ Permuted /\ Partial /\ Finished
-----------------------------------------------------------------------------
(* A rank is a natural number.                                             *)
LEMMA RankTyped == ASSUME NEW p \in Props PROVE Rank(p) \in Nat
BY PropsAssumption DEF Rank, CHANGES_OFTEN_PRIORITY

(* A prop that is taken with the least priority that is left, and whose    *)
(* rank is left, ranks with that priority.                                 *)
LEMMA TakenInRank ==
    ASSUME SortTypeOK, NEW p \in Props, NEW priority, IsNext(priority), Taken(p, priority),
           Rank(p) \in priorities
    PROVE  Rank(p) = priority
<1>1. priority \in Nat /\ priority <= Rank(p)
  BY DEF SortTypeOK, IsNext
<1>2. p.priority \in Nat /\ p.often \in BOOLEAN
  BY PropsAssumption
<1> QED BY <1>1, <1>2 DEF Taken, Rank, CHANGES_OFTEN_PRIORITY

(* A prop that is not taken with a priority has another rank.              *)
LEMMA NotTakenNotInRank ==
    ASSUME NEW p \in Props, NEW priority \in Nat, ~Taken(p, priority)
    PROVE  Rank(p) # priority
BY PropsAssumption DEF Taken, Rank, CHANGES_OFTEN_PRIORITY

(* A swap.                                                                 *)
LEMMA SwapProperties ==
    ASSUME NEW s \in Seq(Props), NEW i \in 1 .. Len(s), NEW j \in 1 .. Len(s)
    PROVE  /\ Swap(s, i, j) \in Seq(Props)
           /\ Len(Swap(s, i, j)) = Len(s)
           /\ Swap(s, i, j)[i] = s[j]
           /\ Swap(s, i, j)[j] = s[i]
           /\ \A k \in 1 .. Len(s) : k # i /\ k # j => Swap(s, i, j)[k] = s[k]
<1>1. s[i] \in Props /\ s[j] \in Props
  BY ElementOfSeq
<1>2. /\ [s EXCEPT ![i] = s[j]] \in Seq(Props)
      /\ Len([s EXCEPT ![i] = s[j]]) = Len(s)
      /\ \A k \in 1 .. Len(s) : [s EXCEPT ![i] = s[j]][k] = IF k = i THEN s[j] ELSE s[k]
  BY <1>1, ExceptSeq
<1>3. Swap(s, i, j) = [[s EXCEPT ![i] = s[j]] EXCEPT ![j] = s[i]]
  BY DEF Swap
<1>4. /\ Swap(s, i, j) \in Seq(Props)
      /\ Len(Swap(s, i, j)) = Len(s)
      /\ \A k \in 1 .. Len(s) :
            Swap(s, i, j)[k] = IF k = j THEN s[i] ELSE [s EXCEPT ![i] = s[j]][k]
  BY <1>1, <1>2, <1>3, ExceptSeq
<1> QED BY <1>2, <1>4

Rearranged(s, g) ==
    \E f \in Bijections(Len(g)) : \A k \in 1 .. Len(g) : s[k] = g[f[k]]

(* What was a permutation of the gathered props is one after a swap.       *)
LEMMA SwapPermutes ==
    ASSUME NEW s \in Seq(Props), NEW g \in Seq(Props), Len(s) = Len(g),
           NEW i \in 1 .. Len(s), NEW j \in 1 .. Len(s),
           Rearranged(s, g)
    PROVE  Rearranged(Swap(s, i, j), g)
<1>0. PICK f \in Bijections(Len(g)) : \A k \in 1 .. Len(g) : s[k] = g[f[k]]
  BY DEF Rearranged
<1> DEFINE n == Len(g)
           h == [k \in 1 .. n |-> IF k = i THEN f[j] ELSE IF k = j THEN f[i] ELSE f[k]]
<1>1. /\ f \in [1 .. n -> 1 .. n]
      /\ \A k, l \in 1 .. n : f[k] = f[l] => k = l
  BY DEF Bijections
<1>2. h \in [1 .. n -> 1 .. n]
  BY <1>1
<1>3. \A k, l \in 1 .. n : h[k] = h[l] => k = l
  BY <1>1
<1>4. h \in Bijections(n)
  BY <1>2, <1>3 DEF Bijections
<1>5. \A k \in 1 .. n : Swap(s, i, j)[k] = g[h[k]]
  <2> SUFFICES ASSUME NEW k \in 1 .. n PROVE Swap(s, i, j)[k] = g[h[k]]
    OBVIOUS
  <2>1. i \in 1 .. n /\ j \in 1 .. n /\ k \in 1 .. Len(s)
    OBVIOUS
  <2>2. /\ Swap(s, i, j)[i] = s[j] /\ Swap(s, i, j)[j] = s[i]
        /\ k # i /\ k # j => Swap(s, i, j)[k] = s[k]
    BY <2>1, SwapProperties
  <2>3. h[k] = IF k = i THEN f[j] ELSE IF k = j THEN f[i] ELSE f[k]
    OBVIOUS
  <2>4. s[i] = g[f[i]] /\ s[j] = g[f[j]] /\ s[k] = g[f[k]]
    BY <1>0, <2>1
  <2> HIDE DEF h, n
  <2> QED BY <2>2, <2>3, <2>4
<1> HIDE DEF h
<1> QED BY <1>4, <1>5 DEF Rearranged

-----------------------------------------------------------------------------
(* The sort starts with the invariant.                                     *)
LEMMA SortInitInv == SortInit => SortInv
<1> SUFFICES ASSUME SortInit PROVE SortInv
  OBVIOUS
<1>1. PICK n \in 0 .. MaxProps : gathered \in [1 .. n -> Props]
  BY DEF SortInit
<1>2. /\ flattenedProps = gathered /\ start = 0 /\ sorting = TRUE
      /\ priorities = {CHANGES_OFTEN_PRIORITY} \union PrioritiesOf(gathered)
  BY DEF SortInit
<1>3. gathered \in Seq(Props) /\ Len(gathered) = n /\ n \in Nat
  BY <1>1, MaxPropsAssumption, SeqDef
<1>4. \A i \in 1 .. n : gathered[i] \in Props
  BY <1>1
<1>5. priorities \subseteq Nat
  BY <1>1, <1>2, <1>4, PropsAssumption DEF PrioritiesOf, CHANGES_OFTEN_PRIORITY
<1>6. SortTypeOK
  BY <1>2, <1>3, <1>5 DEF SortTypeOK
<1>7. Permuted
  <2> DEFINE id == [i \in 1 .. n |-> i]
  <2>1. id \in Bijections(n)
    BY <1>3 DEF Bijections
  <2>2. \A i \in 1 .. n : gathered[i] = gathered[id[i]]
    OBVIOUS
  <2> QED BY <1>2, <1>3, <2>1, <2>2 DEF Permuted
<1>8. Partial
  <2>1. 1 .. start = {} /\ Left = 1 .. n
    BY <1>2, <1>3 DEF Left
  <2>2. \A i \in 1 .. n : Rank(gathered[i]) \in priorities
    BY <1>1, <1>2 DEF Rank, PrioritiesOf
  <2> QED BY <1>2, <2>1, <2>2 DEF Partial
<1> QED BY <1>2, <1>6, <1>7, <1>8 DEF SortInv, Finished

(* A prop is taken.                                                        *)
LEMMA TakePropInv == ASSUME SortInv, NEW priority \in priorities, TakeProp(priority) PROVE SortInv'
<1>1. PICK c \in Left :
         /\ Taken(flattenedProps[c], priority)
         /\ flattenedProps' = Swap(flattenedProps, start + 1, c)
  BY DEF TakeProp
<1>2. /\ SortTypeOK /\ sorting /\ IsNext(priority) /\ start' = start + 1
      /\ gathered' = gathered /\ priorities' = priorities /\ sorting' = sorting
  BY DEF SortInv, TakeProp, Advance
<1>3. /\ flattenedProps \in Seq(Props) /\ start \in 0 .. Len(flattenedProps)
      /\ priorities \subseteq Nat /\ priority \in Nat
  BY <1>2 DEF SortTypeOK
<1>4. /\ Len(flattenedProps) \in Nat
      /\ c \in 1 .. Len(flattenedProps) /\ start + 1 \in 1 .. Len(flattenedProps)
      /\ start + 1 <= c
  BY <1>3 DEF Left
<1> DEFINE old == flattenedProps
           new == Swap(flattenedProps, start + 1, c)
<1>5. /\ new \in Seq(Props) /\ Len(new) = Len(old)
      /\ new[start + 1] = old[c] /\ new[c] = old[start + 1]
      /\ \A k \in 1 .. Len(old) : k # start + 1 /\ k # c => new[k] = old[k]
  BY <1>3, <1>4, SwapProperties
<1>6. SortTypeOK'
  BY <1>1, <1>2, <1>3, <1>4, <1>5 DEF SortTypeOK
<1>7. Permuted'
  <2>1. Rearranged(old, gathered) /\ Len(old) = Len(gathered)
    BY DEF SortInv, Permuted, Rearranged
  <2>2. gathered \in Seq(Props)
    BY <1>2 DEF SortTypeOK
  <2>3. Rearranged(new, gathered)
    BY <1>3, <1>4, <2>1, <2>2, SwapPermutes
  <2>4. Len(new) = Len(gathered)
    BY <1>5, <2>1
  <2> QED BY <1>1, <1>2, <2>3, <2>4 DEF Permuted, Rearranged
<1>8. Partial'
  <2>1. \A k \in 1 .. Len(old) : old[k] \in Props
    BY <1>3, ElementOfSeq
  <2>2. Rank(old[c]) = priority
    <3>1. Rank(old[c]) \in priorities
      BY DEF SortInv, Partial
    <3> QED BY <1>1, <1>2, <1>4, <2>1, <3>1, TakenInRank
  <2>3. \A k \in 1 .. start : new[k] = old[k]
    BY <1>3, <1>4, <1>5
  <2>4. \A k \in 1 .. start, q \in priorities : Rank(old[k]) <= q
    BY DEF SortInv, Partial
  <2>5. \A i, j \in 1 .. start + 1 : i < j => Rank(new[i]) <= Rank(new[j])
    <3> SUFFICES ASSUME NEW i \in 1 .. start + 1, NEW j \in 1 .. start + 1, i < j
                 PROVE  Rank(new[i]) <= Rank(new[j])
      OBVIOUS
    <3>1. i \in 1 .. start
      BY <1>3
    <3>2. CASE j \in 1 .. start
      <4>1. Rank(old[i]) <= Rank(old[j])
        BY <3>1, <3>2 DEF SortInv, Partial
      <4> QED BY <2>3, <3>1, <3>2, <4>1
    <3>3. CASE j = start + 1
      BY <1>5, <2>2, <2>3, <2>4, <3>1, <3>3
    <3> QED BY <1>3, <3>2, <3>3
  <2>6. \A i \in 1 .. start + 1, q \in priorities : Rank(new[i]) <= q
    <3> SUFFICES ASSUME NEW i \in 1 .. start + 1, NEW q \in priorities
                 PROVE  Rank(new[i]) <= q
      OBVIOUS
    <3>1. CASE i \in 1 .. start
      BY <2>3, <2>4, <3>1
    <3>2. CASE i = start + 1
      BY <1>2, <1>5, <2>2, <3>2 DEF IsNext
    <3> QED BY <1>3, <3>1, <3>2
  <2>7. \A i \in start + 2 .. Len(old) : Rank(new[i]) \in priorities
    <3> SUFFICES ASSUME NEW i \in start + 2 .. Len(old) PROVE Rank(new[i]) \in priorities
      OBVIOUS
    <3>1. \A k \in Left : Rank(old[k]) \in priorities
      BY DEF SortInv, Partial
    <3>2. i \in Left /\ start + 1 \in Left /\ i \in 1 .. Len(old) /\ i # start + 1
      BY <1>3, <1>4 DEF Left
    <3>3. new[i] = IF i = c THEN old[start + 1] ELSE old[i]
      BY <1>5, <3>2
    <3> QED BY <3>1, <3>2, <3>3
  <2>8. Left' = start + 2 .. Len(old)
    BY <1>1, <1>2, <1>3, <1>5 DEF Left
  <2> HIDE DEF new
  <2>9. flattenedProps' = new
    BY <1>1 DEF new
  <2> QED BY <1>2, <2>5, <2>6, <2>7, <2>8, <2>9 DEF Partial
<1> QED BY <1>2, <1>6, <1>7, <1>8 DEF SortInv, Finished

(* A priority is left.                                                     *)
LEMMA NextPriorityInv ==
    ASSUME SortInv, NEW priority \in priorities, NextPriority(priority) PROVE SortInv'
<1>1. /\ SortTypeOK /\ IsNext(priority) /\ priorities' = priorities \ {priority}
      /\ \A i \in Left : ~Taken(flattenedProps[i], priority)
      /\ sorting
      /\ UNCHANGED <<flattenedProps, gathered, start, sorting>>
  BY DEF SortInv, NextPriority
<1>2. SortTypeOK'
  BY <1>1 DEF SortTypeOK
<1>3. Permuted'
  BY <1>1 DEF SortInv, Permuted
<1>4. Partial'
  <2>1. \A i \in Left : Rank(flattenedProps[i]) \in priorities \ {priority}
    <3> SUFFICES ASSUME NEW i \in Left
                 PROVE  Rank(flattenedProps[i]) \in priorities /\ Rank(flattenedProps[i]) # priority
      OBVIOUS
    <3>1. flattenedProps \in Seq(Props) /\ i \in 1 .. Len(flattenedProps)
      BY <1>1 DEF SortTypeOK, Left
    <3>2. flattenedProps[i] \in Props
      BY <3>1, ElementOfSeq
    <3>3. priority \in Nat
      BY <1>1 DEF SortTypeOK
    <3>4. Rank(flattenedProps[i]) # priority
      BY <1>1, <3>2, <3>3, NotTakenNotInRank
    <3> QED BY <3>4 DEF SortInv, Partial
  <2>2. /\ \A i, j \in 1 .. start :
              i < j => Rank(flattenedProps[i]) <= Rank(flattenedProps[j])
        /\ \A i \in 1 .. start, q \in priorities : Rank(flattenedProps[i]) <= q
    BY DEF SortInv, Partial
  <2>3. Left' = Left
    BY <1>1 DEF Left
  <2> QED BY <1>1, <2>1, <2>2, <2>3 DEF Partial
<1> QED BY <1>1, <1>2, <1>3, <1>4 DEF SortInv, Finished

(* No priority is left.                                                    *)
LEMMA EndSortInv == ASSUME SortInv, EndSort PROVE SortInv'
<1>1. /\ priorities = {} /\ sorting' = FALSE
      /\ UNCHANGED <<flattenedProps, gathered, priorities, start>>
  BY DEF EndSort
<1>2. SortTypeOK' /\ Permuted'
  BY <1>1 DEF SortInv, SortTypeOK, Permuted
<1>3. Left' = Left
  BY <1>1 DEF Left
<1>4. Partial'
  BY <1>1, <1>3 DEF SortInv, Partial
<1> QED BY <1>1, <1>2, <1>4 DEF SortInv, Finished

(* The sort stands still.                                                  *)
LEMMA SortStutterInv == ASSUME SortInv, UNCHANGED sortVars PROVE SortInv'
<1>1. SortTypeOK' /\ Permuted' /\ Finished'
  BY DEF SortInv, SortTypeOK, Permuted, Finished, sortVars
<1>2. Left' = Left
  BY DEF Left, sortVars
<1>3. Partial'
  BY <1>2 DEF SortInv, Partial, sortVars
<1> QED BY <1>1, <1>3 DEF SortInv

(* Every step of the sort keeps the invariant.                             *)
LEMMA SortStepInv == SortInv /\ [SortStep]_sortVars => SortInv'
BY TakePropInv, NextPriorityInv, EndSortInv, SortStutterInv DEF SortStep

InRankOrder(props) ==
    \A i, j \in DOMAIN props : i < j => Rank(props[i]) <= Rank(props[j])

(* When no priority is left, the props are in order.                       *)
LEMMA NoneLeft == ASSUME SortInv, priorities = {} PROVE InRankOrder(flattenedProps)
<1>1. Left = {}
  BY DEF SortInv, Partial
<1>2. flattenedProps \in Seq(Props) /\ start \in 0 .. Len(flattenedProps)
  BY DEF SortInv, SortTypeOK
<1>3. start = Len(flattenedProps) /\ DOMAIN flattenedProps = 1 .. start
  BY <1>1, <1>2 DEF Left
<1> QED BY <1>3 DEF SortInv, Partial, InRankOrder

LEMMA InvSorted == SortInv => Sorted
BY NoneLeft DEF SortInv, Finished, Sorted, InRankOrder
-----------------------------------------------------------------------------
(* The cursor stays inside the props, which stay props.                    *)
THEOREM TypeCorrect == SortSpec => []SortTypeOK
<1>1. SortInv => SortTypeOK
  BY DEF SortInv
<1> QED BY <1>1, SortInitInv, SortStepInv, PTL DEF SortSpec

(* No prop is lost or doubled.                                             *)
THEOREM PropsAreKept == SortSpec => []Permuted
<1>1. SortInv => Permuted
  BY DEF SortInv
<1> QED BY <1>1, SortInitInv, SortStepInv, PTL DEF SortSpec

(* The sort sorts by rank.                                                 *)
THEOREM SortIsSorted == SortSpec => []Sorted
BY SortInitInv, SortStepInv, InvSorted, PTL DEF SortSpec
-----------------------------------------------------------------------------
(* Where a position of a flattened sequence lies in its parts.             *)
LEMMA FlatElement ==
    ASSUME NEW N, NEW T, NEW F, Parts(F, N, T)
    PROVE  \A n \in 0 .. N : \A k \in 1 .. Len(Flat(F, n)) :
              \E m \in 1 .. n : \E j \in 1 .. Len(F[m]) : Flat(F, n)[k] = F[m][j]
<1>0. N \in Nat /\ \A i \in 1 .. N : F[i] \in Seq(T)
  BY DEF Parts
<1>t. \A n \in 0 .. N : Flat(F, n) \in Seq(T)
  BY FlatTyped
<1>j. \A n \in 0 .. N : \A m \in 1 .. N : m = n + 1 => Flat(F, m) = Flat(F, n) \o F[m]
  BY FlatMore
<1> DEFINE S == {n \in Nat : n <= N => 
              \A k \in 1 .. Len(Flat(F, n)) :
                 \E m \in 1 .. n : \E j \in 1 .. Len(F[m]) : Flat(F, n)[k] = F[m][j]}
<1>1. 0 \in S
  <2>1. Flat(F, 0) = <<>>
    BY FlatNothing
  <2> QED
    BY <2>1
<1>2. ASSUME NEW n \in Nat, n \in S PROVE n + 1 \in S
  <2>1. SUFFICES ASSUME n + 1 <= N, NEW k \in 1 .. Len(Flat(F, n + 1)) 
                 PROVE  \E m \in 1 .. n + 1 : \E j \in 1 .. Len(F[m]) : Flat(F, n + 1)[k] = F[m][j]
    OBVIOUS
  <2>2. n \in 0 .. N /\ n + 1 \in 1 .. N
    BY <1>0, <2>1
  <2>3. Flat(F, n) \in Seq(T) /\ F[n + 1] \in Seq(T)
    BY <1>0, <1>t, <2>2
  <2>4. Flat(F, n + 1) = Flat(F, n) \o F[n + 1]
    BY <1>j, <2>2
  <2>5. /\ Len(Flat(F, n + 1)) = Len(Flat(F, n)) + Len(F[n + 1])
        /\ \A i \in 1 .. Len(Flat(F, n)) : Flat(F, n + 1)[i] = Flat(F, n)[i]
        /\ \A i \in 1 .. Len(F[n + 1]) : Flat(F, n + 1)[Len(Flat(F, n)) + i] = F[n + 1][i]
    BY <2>3, <2>4, Joined
  <2>6. Len(Flat(F, n)) \in Nat /\ Len(F[n + 1]) \in Nat
    BY <2>3
  <2>7. CASE k <= Len(Flat(F, n))
    <3>1. k \in 1 .. Len(Flat(F, n))
      BY <2>5, <2>6, <2>7
    <3>2. \E m \in 1 .. n : \E j \in 1 .. Len(F[m]) : Flat(F, n)[k] = F[m][j]
      BY <1>2, <2>2, <3>1
    <3>3. PICK m \in 1 .. n : \E j \in 1 .. Len(F[m]) : Flat(F, n)[k] = F[m][j]
      BY <3>2
    <3>4. (\E j \in 1 .. Len(F[m]) : Flat(F, n + 1)[k] = F[m][j]) /\ m \in 1 .. n + 1
      BY <2>5, <3>1, <3>3
    <3> QED
      BY <3>4
  <2>8. CASE ~(k <= Len(Flat(F, n)))
    <3>1. PICK j \in 1 .. Len(F[n + 1]) : k = Len(Flat(F, n)) + j
      <4>1. k - Len(Flat(F, n)) \in 1 .. Len(F[n + 1])
        BY <2>5, <2>6, <2>8
      <4>2. k = Len(Flat(F, n)) + (k - Len(Flat(F, n)))
        BY <2>6
      <4> QED
        BY <4>1, <4>2
    <3>2. Flat(F, n + 1)[k] = F[n + 1][j]
      BY <2>5, <3>1
    <3>3. n + 1 \in 1 .. n + 1
      OBVIOUS
    <3> QED
      BY <3>2, <3>3
  <2> QED
    BY <2>7, <2>8
<1>3. \A n \in Nat : n \in S
  BY <1>1, <1>2, NatSet
<1>4. ASSUME NEW n \in 0 .. N
      PROVE  \A k \in 1 .. Len(Flat(F, n)) :
                \E m \in 1 .. n : \E j \in 1 .. Len(F[m]) : Flat(F, n)[k] = F[m][j]
  <2>1. n \in Nat /\ n <= N
    BY <1>0
  <2>2. n \in S
    BY <1>3, <2>1
  <2> QED
    BY ZenonT(60), <2>1, <2>2
<1> QED
  BY ZenonT(60), <1>4

(* Every member of a part is one of the whole.                             *)
LEMMA FlatHas ==
    ASSUME NEW N, NEW T, NEW F, Parts(F, N, T),
           NEW m \in 1 .. N, NEW j \in 1 .. Len(F[m])
    PROVE  \E k \in 1 .. Len(Flat(F, N)) : Flat(F, N)[k] = F[m][j]
<1>0. N \in Nat /\ F[m] \in Seq(T)
  BY DEF Parts
<1>n. PICK n \in 0 .. N : m = n + 1
  <2>1. m - 1 \in 0 .. N /\ m = (m - 1) + 1
    BY <1>0
  <2> QED
    BY <2>1
<1>1. /\ Len(Flat(F, n)) + Len(F[m]) <= Len(Flat(F, N))
      /\ \A k \in 1 .. Len(F[m]) : Flat(F, N)[Len(Flat(F, n)) + k] = F[m][k]
  <2>1. \A a \in 0 .. N : \A b \in 1 .. N : b = a + 1 =>
           /\ Len(Flat(F, a)) + Len(F[b]) <= Len(Flat(F, N))
           /\ \A k \in 1 .. Len(F[b]) : Flat(F, N)[Len(Flat(F, a)) + k] = F[b][k]
    BY FlatParts
  <2> QED
    BY <1>n, <2>1
<1>2. Flat(F, n) \in Seq(T) /\ Flat(F, N) \in Seq(T)
  <2>1. N \in 0 .. N
    BY <1>0
  <2> QED
    BY <2>1, FlatTyped
<1>3. Len(F[m]) \in Nat /\ Len(Flat(F, n)) \in Nat /\ Len(Flat(F, N)) \in Nat
  BY <1>0, <1>2
<1>4. Len(Flat(F, n)) + j \in 1 .. Len(Flat(F, N))
  BY <1>1, <1>3
<1> QED
  BY <1>1, <1>4

(* Every walk of s is before those behind it.                              *)
Ordered(s) == \A i, j \in 1 .. Len(s) : i < j => Before(s[i], s[j])

(* Two ordered sequences, the first of them before the second.             *)
LEMMA OrderedJoin ==
    ASSUME NEW T, NEW s \in Seq(T), NEW t \in Seq(T), Ordered(s), Ordered(t),
           \A i \in 1 .. Len(s) : \A j \in 1 .. Len(t) : Before(s[i], t[j])
    PROVE  Ordered(s \o t)
<1>1. Len(s) \in Nat /\ Len(t) \in Nat /\ Len(s \o t) = Len(s) + Len(t)
  BY Joined
<1>2. /\ \A k \in 1 .. Len(s) : (s \o t)[k] = s[k]
      /\ \A k \in 1 .. Len(t) : (s \o t)[Len(s) + k] = t[k]
  BY Joined
<1>3. \A k \in 1 .. Len(s) + Len(t) :
         k \in 1 .. Len(s) \/ \E l \in 1 .. Len(t) : k = Len(s) + l
  <2> TAKE k \in 1 .. Len(s) + Len(t)
  <2>1. k \in 1 .. Len(s) \/ (k - Len(s) \in 1 .. Len(t) /\ k = Len(s) + (k - Len(s)))
    BY <1>1
  <2> QED
    BY <2>1
<1> DEFINE u == s \o t
<1> HIDE DEF u
<1>4. SUFFICES ASSUME NEW i \in 1 .. Len(s) + Len(t), NEW j \in 1 .. Len(s) + Len(t), i < j
               PROVE  Before(u[i], u[j])
  BY <1>1 DEF Ordered, u
<1>5. CASE j \in 1 .. Len(s)
  <2>1. i \in 1 .. Len(s)
    BY <1>1, <1>4, <1>5
  <2>2. u[i] = s[i] /\ u[j] = s[j]
    BY <1>2, <1>5, <2>1 DEF u
  <2> QED
    BY <1>4, <1>5, <2>1, <2>2 DEF Ordered
<1>6. ASSUME NEW l \in 1 .. Len(t), j = Len(s) + l PROVE Before(u[i], u[j])
  <2>1. u[j] = t[l]
    BY <1>2, <1>6 DEF u
  <2>2. CASE i \in 1 .. Len(s)
    BY <1>2, <2>1, <2>2 DEF u
  <2>3. ASSUME NEW h \in 1 .. Len(t), i = Len(s) + h PROVE Before(u[i], u[j])
    <3>1. u[i] = t[h] /\ h < l
      BY <1>1, <1>2, <1>4, <1>6, <2>3 DEF u
    <3> QED
      BY <2>1, <3>1 DEF Ordered
  <2> QED
    BY <1>3, <2>2, <2>3
<1> QED
  BY <1>3, <1>5, <1>6

(* Ordered parts, each before the next.                                    *)
LEMMA FlatOrdered ==
    ASSUME NEW N, NEW T, NEW F, Parts(F, N, T), \A i \in 1 .. N : Ordered(F[i]),
           \A i, j \in 1 .. N : i < j =>
              \A k \in 1 .. Len(F[i]) : \A l \in 1 .. Len(F[j]) : Before(F[i][k], F[j][l])
    PROVE  Ordered(Flat(F, N))
<1>0. N \in Nat /\ \A i \in 1 .. N : F[i] \in Seq(T)
  BY DEF Parts
<1>t. \A n \in 0 .. N : Flat(F, n) \in Seq(T)
  BY FlatTyped
<1>j. \A n \in 0 .. N : \A m \in 1 .. N : m = n + 1 => Flat(F, m) = Flat(F, n) \o F[m]
  BY FlatMore
<1>e. \A n \in 0 .. N : \A k \in 1 .. Len(Flat(F, n)) :
              \E m \in 1 .. n : \E j \in 1 .. Len(F[m]) : Flat(F, n)[k] = F[m][j]
  BY FlatElement
<1> DEFINE S == {n \in Nat : n <= N => Ordered(Flat(F, n))}
<1>1. 0 \in S
  <2>1. Flat(F, 0) = <<>>
    BY FlatNothing
  <2> QED
    BY <2>1 DEF Ordered
<1>2. ASSUME NEW n \in Nat, n \in S PROVE n + 1 \in S
  <2>1. SUFFICES ASSUME n + 1 <= N PROVE Ordered(Flat(F, n + 1))
    OBVIOUS
  <2>2. n \in 0 .. N /\ n + 1 \in 1 .. N
    BY <1>0, <2>1
  <2>3. Flat(F, n) \in Seq(T) /\ F[n + 1] \in Seq(T)
    BY <1>0, <1>t, <2>2
  <2>4. Flat(F, n + 1) = Flat(F, n) \o F[n + 1]
    BY <1>j, <2>2
  <2>5. Ordered(Flat(F, n)) /\ Ordered(F[n + 1])
    BY <1>0, <1>2, <2>2
  <2>6. ASSUME NEW i \in 1 .. Len(Flat(F, n)), NEW j \in 1 .. Len(F[n + 1])
        PROVE  Before(Flat(F, n)[i], F[n + 1][j])
    <3>1. PICK m \in 1 .. n : \E h \in 1 .. Len(F[m]) : Flat(F, n)[i] = F[m][h]
      BY <1>e, <2>2
    <3>2. m \in 1 .. N /\ m < n + 1
      BY <1>0, <2>2
    <3> QED
      BY <2>2, <3>1, <3>2
  <2> QED
    BY <2>3, <2>4, <2>5, <2>6, OrderedJoin
<1>3. \A n \in Nat : n \in S
  BY <1>1, <1>2, NatSet
<1> QED
  BY <1>0, <1>3

(* The entries of the props at the ends of walks.                          *)
EntryOf(w) == FlattenedPropEntry(s_DataTables[w[Len(w)][1]], w[Len(w)][2])
Entries(s) == [k \in 1 .. Len(s) |-> EntryOf(s[k])]

(* The entries of walks are a sequence.                                    *)
LEMMA EntriesTyped ==
    ASSUME NEW T, NEW s \in Seq(T)
    PROVE  /\ Entries(s) \in Seq({EntryOf(w) : w \in T})
           /\ Len(Entries(s)) = Len(s)
           /\ \A k \in 1 .. Len(s) : Entries(s)[k] = EntryOf(s[k])
<1>1. \A k \in 1 .. Len(s) : s[k] \in T
  OBVIOUS
<1>2. \A k \in 1 .. Len(s) : EntryOf(s[k]) \in {EntryOf(w) : w \in T}
  BY <1>1
<1> HIDE <1>1
<1>3. Len(s) \in Nat
  OBVIOUS
<1> QED
  BY <1>2, <1>3 DEF Entries

(* The entries of a joined sequence.                                       *)
LEMMA EntriesJoin ==
    ASSUME NEW T, NEW s \in Seq(T), NEW t \in Seq(T)
    PROVE  Entries(s \o t) = Entries(s) \o Entries(t)
<1> DEFINE A == {EntryOf(w) : w \in T}
           u == Entries(s \o t)
           v == Entries(s) \o Entries(t)
<1>1. s \o t \in Seq(T) /\ Len(s \o t) = Len(s) + Len(t) /\ Len(s) \in Nat /\ Len(t) \in Nat
  BY Joined
<1>2. /\ Entries(s) \in Seq(A) /\ Len(Entries(s)) = Len(s)
      /\ \A k \in 1 .. Len(s) : Entries(s)[k] = EntryOf(s[k])
  BY EntriesTyped
<1>3. /\ Entries(t) \in Seq(A) /\ Len(Entries(t)) = Len(t)
      /\ \A k \in 1 .. Len(t) : Entries(t)[k] = EntryOf(t[k])
  BY EntriesTyped
<1>4. /\ u \in Seq(A) /\ Len(u) = Len(s) + Len(t)
      /\ \A k \in 1 .. Len(s) + Len(t) : u[k] = EntryOf((s \o t)[k])
  BY <1>1, EntriesTyped
<1>5. /\ v \in Seq(A) /\ Len(v) = Len(s) + Len(t)
      /\ \A k \in 1 .. Len(s) : v[k] = EntryOf(s[k])
      /\ \A k \in 1 .. Len(t) : v[Len(s) + k] = EntryOf(t[k])
  <2> DEFINE p == Entries(s)
             q == Entries(t)
  <2> HIDE DEF A, p, q
  <2>1. p \in Seq(A) /\ q \in Seq(A)
    BY <1>2, <1>3 DEF p, q
  <2>2. /\ p \o q \in Seq(A) /\ Len(p \o q) = Len(p) + Len(q)
        /\ \A k \in 1 .. Len(p) : (p \o q)[k] = p[k]
        /\ \A k \in 1 .. Len(q) : (p \o q)[Len(p) + k] = q[k]
    BY <2>1, Joined
  <2> QED
    BY <1>2, <1>3, <2>2 DEF p, q
<1>6. /\ \A k \in 1 .. Len(s) : (s \o t)[k] = s[k]
      /\ \A k \in 1 .. Len(t) : (s \o t)[Len(s) + k] = t[k]
  BY Joined
<1> HIDE DEF u, v, A
<1>7. ASSUME NEW k \in 1 .. Len(u) PROVE u[k] = v[k]
  <2>1. k \in 1 .. Len(s) \/ (k - Len(s) \in 1 .. Len(t) /\ k = Len(s) + (k - Len(s)))
    BY <1>1, <1>4
  <2>2. CASE k \in 1 .. Len(s)
    BY <1>1, <1>4, <1>5, <1>6, <2>2
  <2>3. ASSUME NEW l \in 1 .. Len(t), k = Len(s) + l PROVE u[k] = v[k]
    <3>1. v[k] = EntryOf(t[l]) /\ (s \o t)[k] = t[l]
      BY <1>5, <1>6, <2>3
    <3> QED
      BY <1>4, <3>1
  <2> QED
    BY <2>1, <2>2, <2>3
<1>8. u = v
  BY <1>4, <1>5, <1>7, SameElements
<1> QED
  BY <1>8 DEF u, v

(* The entries of a flattened one.                                         *)
LEMMA FlatEntries ==
    ASSUME NEW N, NEW T, NEW F, Parts(F, N, T), NEW G, \A i \in 1 .. N : G[i] = Entries(F[i])
    PROVE  Flat(G, N) = Entries(Flat(F, N))
<1> DEFINE A == {EntryOf(w) : w \in T}
<1>0. N \in Nat /\ \A i \in 1 .. N : F[i] \in Seq(T)
  BY DEF Parts
<1>p. Parts(G, N, A)
  <2>1. \A i \in 1 .. N : Entries(F[i]) \in Seq(A)
    BY <1>0, EntriesTyped
  <2> QED
    BY <1>0, <2>1 DEF Parts
<1>t. \A n \in 0 .. N : Flat(F, n) \in Seq(T)
  BY FlatTyped
<1>j. \A n \in 0 .. N : \A m \in 1 .. N : m = n + 1 => Flat(F, m) = Flat(F, n) \o F[m]
  BY FlatMore
<1> HIDE DEF A
<1>g. \A n \in 0 .. N : \A m \in 1 .. N : m = n + 1 => Flat(G, m) = Flat(G, n) \o G[m]
  BY <1>p, FlatMore
<1> DEFINE S == {n \in Nat : n <= N => Flat(G, n) = Entries(Flat(F, n))}
<1>1. 0 \in S
  <2>1. Flat(F, 0) = <<>> /\ Flat(G, 0) = <<>>
    BY FlatNothing
  <2>2. Entries(<<>>) = <<>>
    BY DEF Entries
  <2> QED
    BY <2>1, <2>2
<1>2. ASSUME NEW n \in Nat, n \in S PROVE n + 1 \in S
  <2>1. SUFFICES ASSUME n + 1 <= N PROVE Flat(G, n + 1) = Entries(Flat(F, n + 1))
    OBVIOUS
  <2>2. n \in 0 .. N /\ n + 1 \in 1 .. N
    BY <1>0, <2>1
  <2>3. Flat(F, n) \in Seq(T) /\ F[n + 1] \in Seq(T)
    BY <1>0, <1>t, <2>2
  <2>4. Flat(F, n + 1) = Flat(F, n) \o F[n + 1] /\ Flat(G, n + 1) = Flat(G, n) \o G[n + 1]
    BY <1>j, <1>g, <2>2
  <2>5. Flat(G, n) = Entries(Flat(F, n)) /\ G[n + 1] = Entries(F[n + 1])
    BY <1>2, <2>2
  <2>6. Entries(Flat(F, n) \o F[n + 1]) = Entries(Flat(F, n)) \o Entries(F[n + 1])
    BY <2>3, EntriesJoin
  <2> QED
    BY <2>4, <2>5, <2>6
<1>3. \A n \in Nat : n \in S
  BY <1>1, <1>2, NatSet
<1> QED
  BY <1>0, <1>3
-----------------------------------------------------------------------------
(* The functions that PropsOf and ExcludesOf define by recursion, up to n. *)
PropsTo(g, excludes, n) ==
    g = [depth \in 0 .. n |->
            [table \in DOMAIN s_DataTables |->
                IF depth = 0 THEN Nothing
                ELSE GatherProps_IterateProps(excludes, table, g[depth - 1])]]
ExcludesTo(g, n) ==
    g = [depth \in 0 .. n |->
            [table \in DOMAIN s_DataTables |->
                IF depth = 0 THEN {} ELSE GatherExcludes(table, g[depth - 1])]]

(* The recursion of GatherProps defines a function.                        *)
LEMMA PropsToExist == \A excludes : \A n \in Nat : \E g : PropsTo(g, excludes, n)
<1> SUFFICES ASSUME NEW excludes PROVE \A n \in Nat : \E g : PropsTo(g, excludes, n)
  OBVIOUS
<1> DEFINE S == {n \in Nat : \E g : PropsTo(g, excludes, n)}
           first == [table \in DOMAIN s_DataTables |-> Nothing]
           next(b) == [table \in DOMAIN s_DataTables |->
                          GatherProps_IterateProps(excludes, table, b)]
<1>0. \A g : \A n \in Nat :
        PropsTo(g, excludes, n) <=>
            g = [depth \in 0 .. n |-> IF depth = 0 THEN first ELSE next(g[depth - 1])]
  <2> TAKE g
  <2> TAKE n \in Nat
  <2>1. \A depth \in 0 .. n :
           [table \in DOMAIN s_DataTables |->
                IF depth = 0 THEN Nothing
                ELSE GatherProps_IterateProps(excludes, table, g[depth - 1])]
             = IF depth = 0 THEN first ELSE next(g[depth - 1])
    OBVIOUS
  <2> HIDE DEF first, next
  <2>2. [depth \in 0 .. n |->
            [table \in DOMAIN s_DataTables |->
                IF depth = 0 THEN Nothing
                ELSE GatherProps_IterateProps(excludes, table, g[depth - 1])]]
          = [depth \in 0 .. n |-> IF depth = 0 THEN first ELSE next(g[depth - 1])]
    BY <2>1
  <2> QED
    BY <2>2 DEF PropsTo
<1> HIDE DEF first, next
<1>1. 0 \in S
  <2>1. [depth \in 0 .. 0 |-> first]
          = [depth \in 0 .. 0 |->
                IF depth = 0 THEN first ELSE next([k \in 0 .. 0 |-> first][depth - 1])]
    OBVIOUS
  <2>2. PropsTo([depth \in 0 .. 0 |-> first], excludes, 0)
    BY <1>0, <2>1
  <2> QED
    BY <2>2
<1>2. ASSUME NEW n \in Nat, n \in S PROVE n + 1 \in S
  <2>1. PICK g : PropsTo(g, excludes, n)
    BY <1>2
  <2> DEFINE h == [depth \in 0 .. n + 1 |-> IF depth = n + 1 THEN next(g[n]) ELSE g[depth]]
  <2>2. \A depth \in 0 .. n : g[depth] = IF depth = 0 THEN first ELSE next(g[depth - 1])
    <3>1. g = [depth \in 0 .. n |-> IF depth = 0 THEN first ELSE next(g[depth - 1])]
      BY <1>0, <2>1
    <3> DEFINE f == [depth \in 0 .. n |-> IF depth = 0 THEN first ELSE next(g[depth - 1])]
    <3>2. \A depth \in 0 .. n : f[depth] = IF depth = 0 THEN first ELSE next(g[depth - 1])
      OBVIOUS
    <3> HIDE DEF f
    <3>3. g = f
      BY <3>1 DEF f
    <3> QED
      BY <3>2, <3>3
  <2>3. ASSUME NEW depth \in 0 .. n + 1
        PROVE  h[depth] = IF depth = 0 THEN first ELSE next(h[depth - 1])
    <3>1. CASE depth = n + 1
      <4>1. depth - 1 = n /\ depth # 0 /\ n \in 0 .. n + 1 /\ n # n + 1
        BY <3>1
      <4>2. h[depth] = next(g[n]) /\ h[n] = g[n]
        BY <3>1, <4>1
      <4> QED
        BY <4>1, <4>2
    <3>2. CASE depth # n + 1
      <4>1. depth \in 0 .. n /\ h[depth] = g[depth] /\ (depth # 0 => h[depth - 1] = g[depth - 1])
        BY <3>2
      <4> QED
        BY <2>2, <4>1
    <3> QED
      BY <3>1, <3>2
  <2>4. h = [depth \in 0 .. n + 1 |-> h[depth]]
    OBVIOUS
  <2>5. h = [depth \in 0 .. n + 1 |-> IF depth = 0 THEN first ELSE next(h[depth - 1])]
    <3> HIDE DEF h
    <3> QED
      BY <2>3, <2>4
  <2>6. PropsTo(h, excludes, n + 1)
    <3> HIDE DEF h
    <3> QED
      BY <1>0, <2>5
  <2> QED
    BY <2>6
<1>3. \A n \in Nat : n \in S
  BY <1>1, <1>2, NatSet
<1> QED
  BY <1>3

(* And so does that of GatherExcludes.                                     *)
LEMMA ExcludesToExist == \A n \in Nat : \E g : ExcludesTo(g, n)
<1> DEFINE S == {n \in Nat : \E g : ExcludesTo(g, n)}
           first == [table \in DOMAIN s_DataTables |-> {}]
           next(b) == [table \in DOMAIN s_DataTables |-> GatherExcludes(table, b)]
<1>0. \A g : \A n \in Nat :
        ExcludesTo(g, n) <=>
            g = [depth \in 0 .. n |-> IF depth = 0 THEN first ELSE next(g[depth - 1])]
  <2> TAKE g
  <2> TAKE n \in Nat
  <2>1. \A depth \in 0 .. n :
           [table \in DOMAIN s_DataTables |->
                IF depth = 0 THEN {} ELSE GatherExcludes(table, g[depth - 1])]
             = IF depth = 0 THEN first ELSE next(g[depth - 1])
    OBVIOUS
  <2> HIDE DEF first, next
  <2>2. [depth \in 0 .. n |->
            [table \in DOMAIN s_DataTables |->
                IF depth = 0 THEN {} ELSE GatherExcludes(table, g[depth - 1])]]
          = [depth \in 0 .. n |-> IF depth = 0 THEN first ELSE next(g[depth - 1])]
    BY <2>1
  <2> QED
    BY <2>2 DEF ExcludesTo
<1> HIDE DEF first, next
<1>1. 0 \in S
  <2>1. [depth \in 0 .. 0 |-> first]
          = [depth \in 0 .. 0 |->
                IF depth = 0 THEN first ELSE next([k \in 0 .. 0 |-> first][depth - 1])]
    OBVIOUS
  <2>2. ExcludesTo([depth \in 0 .. 0 |-> first], 0)
    BY <1>0, <2>1
  <2> QED
    BY <2>2
<1>2. ASSUME NEW n \in Nat, n \in S PROVE n + 1 \in S
  <2>1. PICK g : ExcludesTo(g, n)
    BY <1>2
  <2> DEFINE h == [depth \in 0 .. n + 1 |-> IF depth = n + 1 THEN next(g[n]) ELSE g[depth]]
  <2>2. \A depth \in 0 .. n : g[depth] = IF depth = 0 THEN first ELSE next(g[depth - 1])
    <3>1. g = [depth \in 0 .. n |-> IF depth = 0 THEN first ELSE next(g[depth - 1])]
      BY <1>0, <2>1
    <3> DEFINE f == [depth \in 0 .. n |-> IF depth = 0 THEN first ELSE next(g[depth - 1])]
    <3>2. \A depth \in 0 .. n : f[depth] = IF depth = 0 THEN first ELSE next(g[depth - 1])
      OBVIOUS
    <3> HIDE DEF f
    <3>3. g = f
      BY <3>1 DEF f
    <3> QED
      BY <3>2, <3>3
  <2>3. ASSUME NEW depth \in 0 .. n + 1
        PROVE  h[depth] = IF depth = 0 THEN first ELSE next(h[depth - 1])
    <3>1. CASE depth = n + 1
      <4>1. depth - 1 = n /\ depth # 0 /\ n \in 0 .. n + 1 /\ n # n + 1
        BY <3>1
      <4>2. h[depth] = next(g[n]) /\ h[n] = g[n]
        BY <3>1, <4>1
      <4> QED
        BY <4>1, <4>2
    <3>2. CASE depth # n + 1
      <4>1. depth \in 0 .. n /\ h[depth] = g[depth] /\ (depth # 0 => h[depth - 1] = g[depth - 1])
        BY <3>2
      <4> QED
        BY <2>2, <4>1
    <3> QED
      BY <3>1, <3>2
  <2>4. h = [depth \in 0 .. n + 1 |-> h[depth]]
    OBVIOUS
  <2>5. h = [depth \in 0 .. n + 1 |-> IF depth = 0 THEN first ELSE next(h[depth - 1])]
    <3> HIDE DEF h
    <3> QED
      BY <2>3, <2>4
  <2>6. ExcludesTo(h, n + 1)
    <3> HIDE DEF h
    <3> QED
      BY <1>0, <2>5
  <2> QED
    BY <2>6
<1>3. \A n \in Nat : n \in S
  BY <1>1, <1>2, NatSet
<1> QED
  BY <1>3

(* It is what PropsOf takes.                                               *)
LEMMA PropsOfIs ==
    ASSUME Len(s_DataTables) \in Nat, NEW excludes
    PROVE  \E g : /\ PropsTo(g, excludes, Len(s_DataTables))
                  /\ \A root : PropsOf(excludes, root) = GatherProps(g[Len(s_DataTables)][root])
<1> DEFINE g == CHOOSE g : PropsTo(g, excludes, Len(s_DataTables))
<1>1. PropsTo(g, excludes, Len(s_DataTables))
  BY PropsToExist
<1>2. \A root : PropsOf(excludes, root) = GatherProps(g[Len(s_DataTables)][root])
  BY DEF PropsOf, PropsTo, Depths
<1> QED
  BY <1>1, <1>2

(* It is what ExcludesOf takes.                                            *)
LEMMA ExcludesOfIs ==
    ASSUME Len(s_DataTables) \in Nat
    PROVE  \E g : /\ ExcludesTo(g, Len(s_DataTables))
                  /\ \A root : ExcludesOf(root) = g[Len(s_DataTables)][root]
<1> DEFINE g == CHOOSE g : ExcludesTo(g, Len(s_DataTables))
<1>1. ExcludesTo(g, Len(s_DataTables))
  BY ExcludesToExist
<1>2. \A root : ExcludesOf(root) = g[Len(s_DataTables)][root]
  BY DEF ExcludesOf, ExcludesTo, Depths
<1> QED
  BY <1>1, <1>2
-----------------------------------------------------------------------------
(* The tables and their props are sequences.                               *)
TablesSane ==
    /\ IsSequence(s_DataTables)
    /\ \A t \in 1 .. Len(s_DataTables) : IsSequence(s_DataTables[t].props)

(* What a sequence has.                                                    *)
LEMMA SequenceIs ==
    ASSUME NEW s, IsSequence(s)
    PROVE  Len(s) \in Nat /\ DOMAIN s = 1 .. Len(s)
<1>1. Len(s) \in Nat /\ s = [k \in 1 .. Len(s) |-> s[k]]
  BY DEF IsSequence
<1>2. DOMAIN [k \in 1 .. Len(s) |-> s[k]] = 1 .. Len(s)
  OBVIOUS
<1> QED
  BY <1>1, <1>2, Zenon

(* What the tables have.                                                   *)
LEMMA TablesAre ==
    ASSUME TablesSane
    PROVE  /\ Len(s_DataTables) \in Nat
           /\ DOMAIN s_DataTables = 1 .. Len(s_DataTables)
           /\ \A t \in DOMAIN s_DataTables :
                 /\ Len(s_DataTables[t].props) \in Nat
                 /\ DOMAIN s_DataTables[t].props = 1 .. Len(s_DataTables[t].props)
<1>1. Len(s_DataTables) \in Nat /\ DOMAIN s_DataTables = 1 .. Len(s_DataTables)
  BY SequenceIs DEF TablesSane
<1>2. ASSUME NEW t \in DOMAIN s_DataTables
      PROVE  /\ Len(s_DataTables[t].props) \in Nat
             /\ DOMAIN s_DataTables[t].props = 1 .. Len(s_DataTables[t].props)
  <2>1. IsSequence(s_DataTables[t].props)
    BY <1>1 DEF TablesSane
  <2> QED
    BY <2>1, SequenceIs
<1> QED
  BY <1>1, <1>2

(* The least of a set of numbers.                                          *)
LEMMA MinIs ==
    ASSUME NEW A \in SUBSET Nat, A # {}
    PROVE  Min(A) \in A /\ \A y \in A : Min(A) <= y
<1>1. \E x \in A : \A y \in A : x <= y
  <2> SUFFICES ASSUME \A x \in A : \E y \in A : ~(x <= y) PROVE FALSE
    OBVIOUS
  <2> DEFINE S == {n \in Nat : \A k \in A : n <= k}
  <2>1. 0 \in S
    OBVIOUS
  <2>2. ASSUME NEW n \in Nat, n \in S PROVE n + 1 \in S
    <3>1. n \notin A
      BY <2>2
    <3> QED
      BY <2>2, <3>1
  <2>3. \A n \in Nat : n \in S
    BY <2>1, <2>2, NatSet
  <2>4. PICK x \in A : TRUE
    OBVIOUS
  <2>5. x + 1 \in S
    BY <2>3
  <2> QED
    BY <2>5
<1> QED
  BY <1>1 DEF Min

(* A table that is found by its name is one of them.                       *)
LEMMA ByName ==
    ASSUME TablesSane, NEW name
    PROVE  /\ GetTableByName(name) = 0 \/ GetTableByName(name) \in DOMAIN s_DataTables
           /\ GetTableByName(name) \in Nat
           /\ (\E j \in DOMAIN s_DataTables : s_DataTables[j].net_table_name = name) =>
                 GetTableByName(name) # 0
<1> DEFINE found == {i \in DOMAIN s_DataTables : s_DataTables[i].net_table_name = name}
<1>1. DOMAIN s_DataTables = 1 .. Len(s_DataTables) /\ Len(s_DataTables) \in Nat
  BY TablesAre
<1>2. found \in SUBSET Nat
  BY <1>1
<1>3. found # {} => Min(found) \in found
  BY <1>2, MinIs
<1>4. GetTableByName(name) = IF found = {} THEN 0 ELSE Min(found)
  BY DEF GetTableByName
<1>5. 0 \notin DOMAIN s_DataTables
  BY <1>1
<1> QED
  BY <1>1, <1>3, <1>4, <1>5

(* And so is one that a link refers to.                                    *)
LEMMA SubIs ==
    ASSUME TablesSane, NEW l
    PROVE  /\ SubOf(l) = 0 \/ SubOf(l) \in DOMAIN s_DataTables
           /\ SubOf(l) \in Nat
           /\ SubOf(l) # 0 => PropOf(l).type = "DataTable"
<1>1. CASE PropOf(l).type = "DataTable"
  BY <1>1, ByName DEF SubOf
<1>2. CASE PropOf(l).type # "DataTable"
  BY <1>2 DEF SubOf
<1> QED
  BY <1>1, <1>2

(* A link is a table and one of its props.                                 *)
LEMMA LinksAre ==
    \A l : l \in Links <=>
        \E t \in DOMAIN s_DataTables : \E i \in DOMAIN s_DataTables[t].props : l = <<t, i>>
  BY DEF Links

(* The walks of at most d links from t.                                    *)
WalksOf(d, t) ==
    {w \in UNION {[1 .. n -> Links] : n \in 1 .. d} :
        w[1][1] = t /\ \A k \in 2 .. Len(w) : w[k][1] = SubOf(w[k - 1])}

(* What a walk has.                                                        *)
LEMMA WalkIs ==
    ASSUME NEW d \in Nat, NEW t, NEW w \in WalksOf(d, t)
    PROVE  /\ Len(w) \in 1 .. d /\ w \in Seq(Links) /\ DOMAIN w = 1 .. Len(w)
           /\ w = [k \in 1 .. Len(w) |-> w[k]]
           /\ \A k \in 1 .. Len(w) : w[k] \in Links
           /\ w[1][1] = t /\ \A k \in 2 .. Len(w) : w[k][1] = SubOf(w[k - 1])
           /\ Last(w) = w[Len(w)]
<1>1. PICK n \in 1 .. d : w \in [1 .. n -> Links]
  BY DEF WalksOf
<1>2. n \in Nat /\ w \in Seq(Links) /\ Len(w) = n
  BY <1>1
<1>3. DOMAIN w = 1 .. n /\ w = [k \in 1 .. n |-> w[k]] /\ \A k \in 1 .. n : w[k] \in Links
  BY <1>1
<1>4. w[1][1] = t /\ \A k \in 2 .. Len(w) : w[k][1] = SubOf(w[k - 1])
  BY DEF WalksOf
<1> QED
  BY <1>2, <1>3, <1>4 DEF Last

(* What makes a walk.                                                      *)
LEMMA IsWalk ==
    ASSUME NEW d \in Nat, NEW t, NEW w, NEW n \in 1 .. d,
           w = [k \in 1 .. n |-> w[k]], \A k \in 1 .. n : w[k] \in Links,
           w[1][1] = t, \A k \in 2 .. n : w[k][1] = SubOf(w[k - 1])
    PROVE  w \in WalksOf(d, t) /\ Len(w) = n
<1>1. w \in [1 .. n -> Links]
  OBVIOUS
<1>2. Len(w) = n
  BY <1>1
<1>3. w \in UNION {[1 .. m -> Links] : m \in 1 .. d}
  BY <1>1
<1> QED
  BY <1>2, <1>3 DEF WalksOf

(* The walk that w becomes behind the link l.                              *)
Behind(l, w) == [k \in 1 .. Len(w) + 1 |-> IF k = 1 THEN l ELSE w[k - 1]]

(* A walk behind a link.                                                   *)
LEMMA BehindIs ==
    ASSUME NEW d \in Nat, NEW t, NEW w \in WalksOf(d, t), NEW l
    PROVE  /\ DOMAIN Behind(l, w) = 1 .. Len(w) + 1
           /\ Len(Behind(l, w)) = Len(w) + 1
           /\ Behind(l, w)[1] = l
           /\ \A k \in 1 .. Len(w) : Behind(l, w)[k + 1] = w[k]
           /\ \A k \in 2 .. Len(w) + 1 : Behind(l, w)[k] = w[k - 1]
           /\ Last(Behind(l, w)) = Last(w)
           /\ Behind(l, w)[Len(w) + 1] = w[Len(w)]
<1>1. Len(w) \in Nat /\ Len(w) >= 1 /\ Last(w) = w[Len(w)]
  BY WalkIs
<1>2. DOMAIN Behind(l, w) = 1 .. Len(w) + 1 /\ Len(Behind(l, w)) = Len(w) + 1
  BY <1>1 DEF Behind
<1>3. Behind(l, w)[1] = l /\ \A k \in 1 .. Len(w) : Behind(l, w)[k + 1] = w[k]
  BY <1>1 DEF Behind
<1>4. \A k \in 2 .. Len(w) + 1 : Behind(l, w)[k] = w[k - 1]
  BY <1>1 DEF Behind
<1>5. Behind(l, w)[Len(w) + 1] = w[Len(w)]
  BY <1>1, <1>3
<1> QED
  BY <1>1, <1>2, <1>3, <1>4, <1>5 DEF Last

(* It is a walk, if the link refers to where it starts.                    *)
LEMMA BehindWalk ==
    ASSUME NEW d \in Nat, NEW l \in Links, NEW w \in WalksOf(d, SubOf(l))
    PROVE  Behind(l, w) \in WalksOf(d + 1, l[1])
<1> DEFINE v == Behind(l, w)
           n == Len(w) + 1
<1>1. /\ Len(w) \in 1 .. d /\ \A k \in 1 .. Len(w) : w[k] \in Links
      /\ w[1][1] = SubOf(l) /\ \A k \in 2 .. Len(w) : w[k][1] = SubOf(w[k - 1])
  BY WalkIs
<1>2. /\ v[1] = l
      /\ \A k \in 2 .. n : v[k] = w[k - 1]
  BY BehindIs
<1>3. n \in 1 .. d + 1
  BY <1>1
<1>4. v = [k \in 1 .. n |-> v[k]]
  BY DEF Behind
<1> HIDE DEF v
<1>5. \A k \in 1 .. n : v[k] \in Links
  <2> TAKE k \in 1 .. n
  <2>1. CASE k = 1
    BY <1>2, <2>1
  <2>2. CASE k # 1
    <3>1. k \in 2 .. n /\ k - 1 \in 1 .. Len(w)
      BY <1>1, <2>2
    <3> QED
      BY <1>1, <1>2, <3>1
  <2> QED
    BY <2>1, <2>2
<1>6. \A k \in 2 .. n : v[k][1] = SubOf(v[k - 1])
  <2> TAKE k \in 2 .. n
  <2>1. CASE k = 2
    <3>1. v[k] = w[1] /\ v[k - 1] = l
      BY <1>1, <1>2, <2>1
    <3> QED
      BY <1>1, <3>1
  <2>2. CASE k # 2
    <3>1. k - 1 \in 2 .. n /\ k - 1 \in 2 .. Len(w)
      BY <1>1, <2>2
    <3>2. v[k] = w[k - 1] /\ v[k - 1] = w[(k - 1) - 1]
      BY <1>2, <3>1
    <3> QED
      BY <1>1, <3>1, <3>2
  <2> QED
    BY <2>1, <2>2
<1> HIDE DEF n
<1>7. PICK e \in Nat : e = d + 1
  OBVIOUS
<1>8. v \in WalksOf(e, l[1])
  BY <1>2, <1>3, <1>4, <1>5, <1>6, <1>7, IsWalk
<1> QED
  BY <1>7, <1>8 DEF v

(* A link alone is a walk.                                                 *)
LEMMA OneWalk ==
    ASSUME NEW d \in Nat, NEW l \in Links
    PROVE  <<l>> \in WalksOf(d + 1, l[1])
<1> DEFINE v == <<l>>
<1>1. v = [k \in 1 .. 1 |-> v[k]] /\ v[1] = l /\ Len(v) = 1
  OBVIOUS
<1> HIDE DEF v
<1>2. 1 \in 1 .. d + 1 /\ \A k \in 1 .. 1 : v[k] \in Links
  BY <1>1
<1>3. \A k \in 2 .. 1 : v[k][1] = SubOf(v[k - 1])
  OBVIOUS
<1>4. PICK e \in Nat : e = d + 1
  OBVIOUS
<1>5. v \in WalksOf(e, l[1])
  BY <1>1, <1>2, <1>3, <1>4, IsWalk
<1> QED
  BY <1>4, <1>5 DEF v

(* A walk is a link, or a walk behind one.                                 *)
LEMMA WalkSplit ==
    ASSUME NEW d \in Nat, NEW t, NEW w \in WalksOf(d + 1, t)
    PROVE  /\ w[1] \in Links /\ w[1][1] = t
           /\ \/ w = <<w[1]>> /\ Len(w) = 1
              \/ \E v \in WalksOf(d, SubOf(w[1])) : w = Behind(w[1], v)
<1> DEFINE n == Len(w)
<1>0. d + 1 \in Nat
  OBVIOUS
<1>1. /\ n \in 1 .. d + 1 /\ w = [k \in 1 .. n |-> w[k]]
      /\ \A k \in 1 .. n : w[k] \in Links
      /\ w[1][1] = t /\ \A k \in 2 .. n : w[k][1] = SubOf(w[k - 1])
  BY <1>0, WalkIs
<1> HIDE DEF n
<1>2. w[1] \in Links
  BY <1>1
<1>3. CASE n = 1
  <2>1. w = [k \in 1 .. 1 |-> w[k]]
    BY <1>1, <1>3
  <2>2. [k \in 1 .. 1 |-> w[k]] = <<w[1]>>
    OBVIOUS
  <2> QED
    BY <1>1, <1>2, <1>3, <2>1, <2>2 DEF n
<1>4. CASE n # 1
  <2> DEFINE v == [k \in 1 .. n - 1 |-> w[k + 1]]
             m == n - 1
  <2>1. m \in 1 .. d /\ m \in Nat /\ n = m + 1
    BY <1>1, <1>4
  <2>2. \A k \in 1 .. m : v[k] = w[k + 1]
    OBVIOUS
  <2>3. v = [k \in 1 .. m |-> v[k]]
    OBVIOUS
  <2>l. Len(v) = m
    BY <2>1
  <2> HIDE DEF v, m
  <2>4. \A k \in 1 .. m : v[k] \in Links
    <3> TAKE k \in 1 .. m
    <3>1. k + 1 \in 1 .. n
      BY <2>1
    <3> QED
      BY <1>1, <2>2, <3>1
  <2>5. v[1][1] = SubOf(w[1])
    <3>1. 2 \in 2 .. n /\ 1 \in 1 .. m /\ 1 + 1 = 2 /\ 2 - 1 = 1
      BY <2>1
    <3>2. w[2][1] = SubOf(w[2 - 1])
      BY <1>1, <3>1
    <3>3. v[1] = w[1 + 1]
      BY <2>2, <3>1
    <3> QED
      BY <3>1, <3>2, <3>3
  <2>6. \A k \in 2 .. m : v[k][1] = SubOf(v[k - 1])
    <3> TAKE k \in 2 .. m
    <3>1. k + 1 \in 2 .. n /\ k \in 1 .. m /\ k - 1 \in 1 .. m /\ (k - 1) + 1 = k /\ (k + 1) - 1 = k
      BY <2>1
    <3>2. w[k + 1][1] = SubOf(w[(k + 1) - 1])
      BY <1>1, <3>1
    <3>3. v[k] = w[k + 1] /\ v[k - 1] = w[(k - 1) + 1]
      BY <2>2, <3>1
    <3> QED
      BY <3>1, <3>2, <3>3
  <2>7. v \in WalksOf(d, SubOf(w[1]))
    BY <2>1, <2>3, <2>4, <2>5, <2>6, IsWalk
  <2>8. w = Behind(w[1], v)
    <3>1. \A k \in 1 .. n : w[k] = IF k = 1 THEN w[1] ELSE v[k - 1]
      <4> TAKE k \in 1 .. n
      <4>1. CASE k # 1
        <5>1. k - 1 \in 1 .. m /\ (k - 1) + 1 = k
          BY <2>1, <4>1
        <5> QED
          BY <2>2, <4>1, <5>1
      <4> QED
        BY <4>1
    <3>2. w = [k \in 1 .. n |-> IF k = 1 THEN w[1] ELSE v[k - 1]]
      BY <1>1, <3>1
    <3> QED
      BY <2>1, <2>l, <3>2 DEF Behind
  <2> QED
    BY <1>1, <1>2, <2>7, <2>8
<1> QED
  BY <1>3, <1>4
-----------------------------------------------------------------------------
Fine(excludes, l) == ~Skipped(excludes, s_DataTables[l[1]], PropOf(l))
(* The walks to props that are sent.                                       *)
SentOf(excludes, d, t) ==
    {w \in WalksOf(d, t) :
        PropOf(Last(w)).type # "DataTable" /\ \A k \in DOMAIN w : Fine(excludes, w[k])}

(* All that the walk goes through from k on is collapsed.                  *)
OwnFrom(k, x) == \A j \in k .. Len(x) - 1 : PropOf(x[j]).collapsible

(* The order, in terms of OwnFrom.                                         *)
LEMMA BeforeIs ==
    ASSUME NEW v, NEW w
    PROVE  Before(v, w) <=>
              \E k \in DOMAIN v \intersect DOMAIN w :
                  /\ v[k] # w[k] /\ \A j \in 1 .. k - 1 : v[j] = w[j]
                  /\ IF OwnFrom(k, v) <=> OwnFrom(k, w) THEN v[k][2] < w[k][2]
                     ELSE OwnFrom(k, w)
  BY DEF Before, OwnFrom

(* What a link has.                                                        *)
LEMMA LinkIs ==
    ASSUME TablesSane, NEW l \in Links
    PROVE  /\ l[1] \in DOMAIN s_DataTables /\ l[2] \in DOMAIN s_DataTables[l[1]].props
           /\ l[1] \in Nat \ {0} /\ l[2] \in Nat \ {0} /\ l = <<l[1], l[2]>>
<1>1. PICK t \in DOMAIN s_DataTables : \E i \in DOMAIN s_DataTables[t].props : l = <<t, i>>
  BY LinksAre
<1>2. PICK i \in DOMAIN s_DataTables[t].props : l = <<t, i>>
  BY <1>1
<1>3. t \in Nat \ {0} /\ i \in Nat \ {0}
  BY TablesAre
<1> QED
  BY <1>2, <1>3

(* Of two walks one is not both before and behind the other.               *)
LEMMA BeforeNotBehind ==
    ASSUME TablesSane, NEW d \in Nat, NEW t, NEW v \in WalksOf(d, t), NEW w \in WalksOf(d, t),
           Before(v, w)
    PROVE  ~Before(w, v) /\ v # w
<1>0. /\ DOMAIN v = 1 .. Len(v) /\ DOMAIN w = 1 .. Len(w) /\ Len(v) \in Nat /\ Len(w) \in Nat
      /\ \A k \in 1 .. Len(v) : v[k] \in Links
      /\ \A k \in 1 .. Len(w) : w[k] \in Links
  BY WalkIs
<1>1. PICK k \in DOMAIN v \intersect DOMAIN w :
         /\ v[k] # w[k] /\ \A j \in 1 .. k - 1 : v[j] = w[j]
         /\ IF OwnFrom(k, v) <=> OwnFrom(k, w) THEN v[k][2] < w[k][2] ELSE OwnFrom(k, w)
  BY BeforeIs
<1>2. v[k][2] \in Nat /\ w[k][2] \in Nat /\ k \in Nat /\ k >= 1
  <2>1. v[k] \in Links /\ w[k] \in Links /\ k \in Nat /\ k >= 1
    BY <1>0
  <2> QED
    BY <2>1, LinkIs
<1>3. SUFFICES ASSUME Before(w, v) PROVE FALSE
  BY <1>1
<1>4. PICK h \in DOMAIN w \intersect DOMAIN v :
         /\ w[h] # v[h] /\ \A j \in 1 .. h - 1 : w[j] = v[j]
         /\ IF OwnFrom(h, w) <=> OwnFrom(h, v) THEN w[h][2] < v[h][2] ELSE OwnFrom(h, v)
  BY <1>3, BeforeIs
<1>5. h = k
  <2>1. h \in Nat /\ h >= 1
    BY <1>0
  <2>2. ~(h < k)
    BY <1>1, <1>2, <1>4, <2>1
  <2>3. ~(k < h)
    BY <1>1, <1>2, <1>4, <2>1
  <2> QED
    BY <1>2, <2>1, <2>2, <2>3
<1> QED
  BY <1>1, <1>2, <1>4, <1>5

(* Two walks are to each other as they are behind a link.                  *)
LEMMA OwnBehind ==
    ASSUME NEW d \in Nat, NEW t, NEW w \in WalksOf(d, t), NEW l, NEW k \in 1 .. Len(w)
    PROVE  /\ OwnFrom(k + 1, Behind(l, w)) <=> OwnFrom(k, w)
           /\ OwnFrom(1, Behind(l, w)) <=> PropOf(l).collapsible /\ OwnFrom(1, w)
<1>1. /\ Len(Behind(l, w)) = Len(w) + 1 /\ Len(w) \in Nat /\ Len(w) >= 1
      /\ Behind(l, w)[1] = l
      /\ \A j \in 1 .. Len(w) : Behind(l, w)[j + 1] = w[j]
  BY BehindIs, WalkIs
<1> DEFINE b == Behind(l, w)
           n == Len(w)
<1> HIDE DEF b, n
<1>2. \A h \in 1 .. n : OwnFrom(h + 1, b) <=> OwnFrom(h, w)
  <2> TAKE h \in 1 .. n
  <2>1. ASSUME OwnFrom(h + 1, b), NEW j \in h .. n - 1 PROVE PropOf(w[j]).collapsible
    <3>1. j + 1 \in h + 1 .. Len(b) - 1 /\ j \in 1 .. n
      BY <1>1 DEF b, n
    <3>2. PropOf(b[j + 1]).collapsible /\ b[j + 1] = w[j]
      BY <1>1, <2>1, <3>1 DEF OwnFrom, b, n
    <3> QED
      BY <3>2
  <2>2. ASSUME OwnFrom(h, w), NEW j \in h + 1 .. Len(b) - 1 PROVE PropOf(b[j]).collapsible
    <3>1. j - 1 \in h .. n - 1 /\ j - 1 \in 1 .. n /\ (j - 1) + 1 = j
      BY <1>1 DEF b, n
    <3>2. PropOf(w[j - 1]).collapsible /\ b[(j - 1) + 1] = w[j - 1]
      BY <1>1, <2>2, <3>1 DEF OwnFrom, b, n
    <3> QED
      BY <3>1, <3>2
  <2> QED
    BY <2>1, <2>2 DEF OwnFrom, n
<1>3. OwnFrom(1, b) <=> PropOf(l).collapsible /\ OwnFrom(2, b)
  <2>1. Len(b) - 1 \in Nat /\ Len(b) - 1 >= 1 /\ b[1] = l
    BY <1>1 DEF b, n
  <2>2. 1 .. Len(b) - 1 = {1} \union (2 .. Len(b) - 1)
    BY <2>1
  <2> QED
    BY <2>1, <2>2 DEF OwnFrom
<1>4. 1 \in 1 .. n /\ 1 + 1 = 2
  BY <1>1 DEF n
<1>5. OwnFrom(2, b) <=> OwnFrom(1, w)
  BY <1>2, <1>4
<1> QED
  BY <1>2, <1>3, <1>5 DEF b, n

(* Behind the same link the order stays.                                   *)
LEMMA BeforeBehind ==
    ASSUME NEW d \in Nat, NEW t, NEW v \in WalksOf(d, t), NEW w \in WalksOf(d, t), NEW l,
           Before(v, w)
    PROVE  Before(Behind(l, v), Behind(l, w))
<1> DEFINE a == Behind(l, v)
           b == Behind(l, w)
<1>0. /\ DOMAIN v = 1 .. Len(v) /\ DOMAIN w = 1 .. Len(w) /\ Len(v) \in Nat /\ Len(w) \in Nat
  BY WalkIs
<1>1. PICK k \in DOMAIN v \intersect DOMAIN w :
         /\ v[k] # w[k] /\ \A j \in 1 .. k - 1 : v[j] = w[j]
         /\ IF OwnFrom(k, v) <=> OwnFrom(k, w) THEN v[k][2] < w[k][2] ELSE OwnFrom(k, w)
  BY BeforeIs
<1>2. k \in 1 .. Len(v) /\ k \in 1 .. Len(w)
  BY <1>0
<1>3. OwnFrom(k + 1, a) <=> OwnFrom(k, v)
  BY <1>2, OwnBehind
<1>4. OwnFrom(k + 1, b) <=> OwnFrom(k, w)
  BY <1>2, OwnBehind
<1>5. /\ DOMAIN a = 1 .. Len(v) + 1 /\ a[1] = l
      /\ \A j \in 1 .. Len(v) : a[j + 1] = v[j]
  BY BehindIs
<1>6. /\ DOMAIN b = 1 .. Len(w) + 1 /\ b[1] = l
      /\ \A j \in 1 .. Len(w) : b[j + 1] = w[j]
  BY BehindIs
<1> HIDE DEF a, b
<1>7. k + 1 \in DOMAIN a \intersect DOMAIN b /\ a[k + 1] = v[k] /\ b[k + 1] = w[k]
  BY <1>0, <1>2, <1>5, <1>6
<1>8. \A j \in 1 .. (k + 1) - 1 : a[j] = b[j]
  <2> TAKE j \in 1 .. (k + 1) - 1
  <2>1. CASE j = 1
    BY <1>5, <1>6, <2>1
  <2>2. CASE j # 1
    <3>1. j - 1 \in 1 .. k - 1 /\ j - 1 \in 1 .. Len(v) /\ j - 1 \in 1 .. Len(w) /\ (j - 1) + 1 = j
      BY <1>2, <2>2
    <3>2. a[(j - 1) + 1] = v[j - 1] /\ b[(j - 1) + 1] = w[j - 1]
      BY <1>5, <1>6, <3>1
    <3> QED
      BY <1>1, <3>1, <3>2
  <2> QED
    BY <2>1, <2>2
<1>9. Before(a, b)
  BY <1>1, <1>3, <1>4, <1>7, <1>8, BeforeIs
<1> QED
  BY <1>9 DEF a, b

(* Two walks that part at the first link.                                  *)
LEMMA BeforeAtOnce ==
    ASSUME NEW d \in Nat, NEW t, NEW v \in WalksOf(d, t), NEW w \in WalksOf(d, t),
           v[1] # w[1],
           IF OwnFrom(1, v) <=> OwnFrom(1, w) THEN v[1][2] < w[1][2] ELSE OwnFrom(1, w)
    PROVE  Before(v, w)
<1>1. 1 \in DOMAIN v \intersect DOMAIN w
  <2>1. /\ DOMAIN v = 1 .. Len(v) /\ DOMAIN w = 1 .. Len(w) /\ Len(v) \in 1 .. d
        /\ Len(w) \in 1 .. d
    BY WalkIs
  <2> QED
    BY <2>1
<1>2. \A j \in 1 .. 1 - 1 : v[j] = w[j]
  OBVIOUS
<1> QED
  BY <1>1, <1>2, BeforeIs

(* What comes from below a table that is not collapsed is before what the  *)
(* table has.                                                              *)
LEMMA BelowFirst ==
    ASSUME TablesSane, NEW excludes, NEW d \in Nat, NEW t, NEW v \in SentOf(excludes, d, t),
           NEW w \in SentOf(excludes, d, t), ~OwnFrom(1, v), OwnFrom(1, w)
    PROVE  Before(v, w)
<1>0. v \in WalksOf(d, t) /\ w \in WalksOf(d, t)
  BY DEF SentOf
<1>1. /\ DOMAIN v = 1 .. Len(v) /\ Len(v) \in Nat /\ Len(v) >= 1
      /\ v = [k \in 1 .. Len(v) |-> v[k]]
      /\ \A k \in 1 .. Len(v) : v[k] \in Links
      /\ \A k \in 2 .. Len(v) : v[k][1] = SubOf(v[k - 1])
      /\ Last(v) = v[Len(v)]
  BY <1>0, WalkIs
<1>2. /\ DOMAIN w = 1 .. Len(w) /\ Len(w) \in Nat /\ Len(w) >= 1
      /\ w = [k \in 1 .. Len(w) |-> w[k]]
      /\ \A k \in 1 .. Len(w) : w[k] \in Links
      /\ \A k \in 2 .. Len(w) : w[k][1] = SubOf(w[k - 1])
      /\ Last(w) = w[Len(w)]
  BY <1>0, WalkIs
<1>3. SubOf(v[Len(v)]) = 0 /\ SubOf(w[Len(w)]) = 0
  <2>1. PropOf(v[Len(v)]).type # "DataTable" /\ PropOf(w[Len(w)]).type # "DataTable"
    BY <1>1, <1>2 DEF SentOf
  <2> QED
    BY <2>1 DEF SubOf
<1> DEFINE m == IF Len(v) <= Len(w) THEN Len(v) ELSE Len(w)
           bad == {k \in 1 .. m : v[k] # w[k]}
<1>4. m \in Nat /\ m <= Len(v) /\ m <= Len(w) /\ m >= 1 /\ (m = Len(v) \/ m = Len(w))
  BY <1>1, <1>2
<1>5. PICK n \in 0 .. m : (\A i \in 1 .. n : i \notin bad) /\ (n = m \/ n + 1 \in bad)
  <2> HIDE DEF bad, m
  <2> QED
    BY <1>4, FirstIn
<1>6. \A i \in 1 .. n : v[i] = w[i]
  BY <1>4, <1>5
<1>7. n # m
  <2> SUFFICES ASSUME n = m PROVE FALSE
    OBVIOUS
  <2> HIDE DEF m, bad
  <2>1. Len(v) # Len(w)
    <3> SUFFICES ASSUME Len(v) = Len(w) PROVE FALSE
      OBVIOUS
    <3>1. \A i \in 1 .. Len(v) : v[i] = w[i]
      BY <1>4, <1>6
    <3>2. v = w
      BY <1>1, <1>2, <3>1
    <3> QED
      BY <3>2
  <2>2. CASE m = Len(v)
    <3>1. m + 1 \in 2 .. Len(w) /\ (m + 1) - 1 = m /\ m + 1 \in 1 .. Len(w) /\ m \in 1 .. n
      BY <1>1, <1>2, <1>4, <2>1, <2>2
    <3>2. w[m + 1][1] = SubOf(w[(m + 1) - 1]) /\ w[m] = v[m]
      BY <1>2, <1>6, <3>1
    <3>3. w[m + 1][1] = 0
      BY <1>3, <2>2, <3>1, <3>2
    <3> QED
      BY <1>2, <3>1, <3>3, LinkIs
  <2>3. CASE m = Len(w)
    <3>1. m + 1 \in 2 .. Len(v) /\ (m + 1) - 1 = m /\ m + 1 \in 1 .. Len(v) /\ m \in 1 .. n
      BY <1>1, <1>2, <1>4, <2>1, <2>3
    <3>2. v[m + 1][1] = SubOf(v[(m + 1) - 1]) /\ w[m] = v[m]
      BY <1>1, <1>6, <3>1
    <3>3. v[m + 1][1] = 0
      BY <1>3, <2>3, <3>1, <3>2
    <3> QED
      BY <1>1, <3>1, <3>3, LinkIs
  <2> QED
    BY <1>4, <2>2, <2>3
<1> DEFINE k == n + 1
<1>8. /\ k \in DOMAIN v \intersect DOMAIN w /\ v[k] # w[k] /\ k \in Nat /\ k >= 1
      /\ \A j \in 1 .. k - 1 : v[j] = w[j]
      /\ k <= Len(v) /\ k <= Len(w)
  BY <1>1, <1>2, <1>4, <1>5, <1>6, <1>7
<1> HIDE DEF k, m, bad
<1>9. OwnFrom(k, w)
  <2>1. \A j \in k .. Len(w) - 1 : j \in 1 .. Len(w) - 1
    BY <1>2, <1>8
  <2> QED
    BY <2>1 DEF OwnFrom
<1>10. ~OwnFrom(k, v)
  <2>1. PICK j \in 1 .. Len(v) - 1 : ~PropOf(v[j]).collapsible
    BY DEF OwnFrom
  <2>2. j >= k
    <3> SUFFICES ASSUME j < k PROVE FALSE
      BY <1>1, <1>8
    <3>1. j \in 1 .. k - 1 /\ j \in 1 .. Len(w) - 1
      BY <1>1, <1>2, <1>8
    <3>2. v[j] = w[j] /\ PropOf(w[j]).collapsible
      BY <1>8, <3>1 DEF OwnFrom
    <3> QED
      BY <2>1, <3>2
  <2>3. j \in k .. Len(v) - 1
    BY <1>1, <1>8, <2>2
  <2> QED
    BY <2>1, <2>3 DEF OwnFrom
<1> QED
  BY <1>8, <1>9, <1>10, BeforeIs
-----------------------------------------------------------------------------
(* A walk that starts where a link refers to.                              *)
LEMMA BelowIs ==
    ASSUME TablesSane, NEW d \in Nat, NEW l, NEW v \in WalksOf(d, SubOf(l))
    PROVE  /\ SubOf(l) # 0 /\ SubOf(l) \in DOMAIN s_DataTables
           /\ PropOf(l).type = "DataTable"
           /\ SubOf(l) = GetTableByName(PropOf(l).dt_name)
<1>1. Len(v) \in 1 .. d /\ \A k \in 1 .. Len(v) : v[k] \in Links
  BY WalkIs
<1>2. v[1] \in Links /\ v[1][1] = SubOf(l)
  BY <1>1, WalkIs
<1>3. SubOf(l) # 0
  BY <1>2, LinkIs
<1> QED
  BY <1>3, SubIs DEF SubOf

(* The excludes that walks of at most d links end at.                      *)
ExcludedBy(d, t) ==
    {<<PropOf(Last(w)).dt_name, PropOf(Last(w)).var_name>> :
        w \in {v \in WalksOf(d, t) : PropOf(Last(v)).exclude}}

(* The excludes of one more level.                                         *)
LEMMA ExcludesStep ==
    ASSUME TablesSane, NEW d \in Nat, NEW t \in DOMAIN s_DataTables, NEW below,
           \A s \in DOMAIN s_DataTables : below[s] = ExcludedBy(d, s)
    PROVE  GatherExcludes(t, below) = ExcludedBy(d + 1, t)
<1> DEFINE props == s_DataTables[t].props
           own == {<<p.dt_name, p.var_name>> : p \in {q \in ToSet(props) : q.exclude}}
           sub == UNION {below[i] : i \in SubTables(t)}
<1>0. GatherExcludes(t, below) = own \union sub
  BY DEF GatherExcludes
<1>1. ASSUME NEW e \in own PROVE e \in ExcludedBy(d + 1, t)
  <2>1. PICK p \in ToSet(props) : p.exclude /\ e = <<p.dt_name, p.var_name>>
    OBVIOUS
  <2>2. PICK i \in DOMAIN props : p = props[i]
    BY DEF ToSet
  <2> DEFINE l == <<t, i>>
  <2>3. l \in Links /\ PropOf(l) = p /\ l[1] = t
    BY <2>2, LinksAre DEF PropOf
  <2> HIDE DEF l
  <2>4. <<l>> \in WalksOf(d + 1, t)
    BY <2>3, OneWalk
  <2>5. Last(<<l>>) = l
    BY DEF Last
  <2> QED
    BY <2>1, <2>3, <2>4, <2>5 DEF ExcludedBy
<1>2. ASSUME NEW e \in sub PROVE e \in ExcludedBy(d + 1, t)
  <2>1. PICK s \in SubTables(t) : e \in below[s]
    OBVIOUS
  <2>2. PICK p \in ToSet(props) : p.type = "DataTable" /\ s = GetTableByName(p.dt_name) /\ s # 0
    BY <2>1 DEF SubTables
  <2>3. PICK i \in DOMAIN props : p = props[i]
    BY DEF ToSet
  <2> DEFINE l == <<t, i>>
  <2>4. l \in Links /\ PropOf(l) = p /\ l[1] = t
    BY <2>3, LinksAre DEF PropOf
  <2> HIDE DEF l
  <2>5. SubOf(l) = s /\ s \in DOMAIN s_DataTables
    BY <2>2, <2>4, SubIs DEF SubOf
  <2>6. PICK v \in WalksOf(d, s) : /\ PropOf(Last(v)).exclude
                                   /\ e = <<PropOf(Last(v)).dt_name, PropOf(Last(v)).var_name>>
    BY <2>1, <2>5 DEF ExcludedBy
  <2>7. Behind(l, v) \in WalksOf(d + 1, t) /\ Last(Behind(l, v)) = Last(v)
    BY <2>4, <2>5, BehindWalk, BehindIs
  <2> QED
    BY <2>6, <2>7 DEF ExcludedBy
<1>3. ASSUME NEW e \in ExcludedBy(d + 1, t) PROVE e \in own \union sub
  <2>1. PICK w \in WalksOf(d + 1, t) : /\ PropOf(Last(w)).exclude
                                       /\ e = <<PropOf(Last(w)).dt_name, PropOf(Last(w)).var_name>>
    BY DEF ExcludedBy
  <2> DEFINE l == w[1]
  <2>2. /\ l \in Links /\ l[1] = t
        /\ \/ w = <<l>> /\ Len(w) = 1
           \/ \E v \in WalksOf(d, SubOf(l)) : w = Behind(l, v)
    BY WalkSplit
  <2>3. l[2] \in DOMAIN props /\ PropOf(l) = props[l[2]] /\ PropOf(l) \in ToSet(props)
    BY <2>2, LinkIs DEF PropOf, ToSet
  <2> HIDE DEF l
  <2>4. CASE w = <<l>> /\ Len(w) = 1
    <3>1. Last(w) = l
      BY <2>4 DEF Last
    <3> QED
      BY <2>1, <2>3, <3>1
  <2>5. ASSUME NEW v \in WalksOf(d, SubOf(l)), w = Behind(l, v) PROVE e \in sub
    <3>1. Last(w) = Last(v)
      BY <2>5, BehindIs
    <3>2. /\ SubOf(l) # 0 /\ SubOf(l) \in DOMAIN s_DataTables
          /\ PropOf(l).type = "DataTable" /\ SubOf(l) = GetTableByName(PropOf(l).dt_name)
      BY BelowIs
    <3>3. SubOf(l) \in SubTables(t)
      BY <2>3, <3>2 DEF SubTables
    <3>4. e \in below[SubOf(l)]
      BY <2>1, <3>1, <3>2 DEF ExcludedBy
    <3> QED
      BY <3>3, <3>4
  <2> QED
    BY <2>2, <2>4, <2>5
<1> HIDE DEF own, sub
<1> QED
  BY <1>0, <1>1, <1>2, <1>3

(* The excludes of a class are those that are anywhere below its table.    *)
LEMMA ExcludesAre ==
    ASSUME TablesSane, NEW root \in DOMAIN s_DataTables
    PROVE  ExcludesOf(root) = ExcludedBy(Len(s_DataTables), root)
<1> DEFINE N == Len(s_DataTables)
<1>0. N \in Nat /\ DOMAIN s_DataTables = 1 .. N
  BY TablesAre
<1>1. PICK g : ExcludesTo(g, N) /\ \A r : ExcludesOf(r) = g[N][r]
  BY <1>0, ExcludesOfIs
<1> HIDE DEF N
<1>2. \A depth \in 0 .. N : \A t \in DOMAIN s_DataTables :
         g[depth][t] = IF depth = 0 THEN {} ELSE GatherExcludes(t, g[depth - 1])
  <2>1. g = [depth \in 0 .. N |->
                [table \in DOMAIN s_DataTables |->
                    IF depth = 0 THEN {} ELSE GatherExcludes(table, g[depth - 1])]]
    BY <1>1 DEF ExcludesTo
  <2> DEFINE f == [depth \in 0 .. N |->
                [table \in DOMAIN s_DataTables |->
                    IF depth = 0 THEN {} ELSE GatherExcludes(table, g[depth - 1])]]
  <2>2. \A depth \in 0 .. N : \A t \in DOMAIN s_DataTables :
           f[depth][t] = IF depth = 0 THEN {} ELSE GatherExcludes(t, g[depth - 1])
    OBVIOUS
  <2> HIDE DEF f
  <2>3. g = f
    BY <2>1 DEF f
  <2> QED
    BY <2>2, <2>3
<1> DEFINE S == {d \in Nat : d <= N => \A t \in DOMAIN s_DataTables : g[d][t] = ExcludedBy(d, t)}
<1>3. 0 \in S
  <2>1. \A t : ExcludedBy(0, t) = {}
    BY DEF ExcludedBy, WalksOf
  <2>2. 0 \in 0 .. N
    BY <1>0
  <2>3. \A t \in DOMAIN s_DataTables : g[0][t] = {}
    BY <1>2, <2>2
  <2>4. \A t \in DOMAIN s_DataTables : g[0][t] = ExcludedBy(0, t)
    BY <2>1, <2>3
  <2> QED
    BY <2>4
<1>4. ASSUME NEW d \in Nat, d \in S PROVE d + 1 \in S
  <2>1. SUFFICES ASSUME d + 1 <= N, NEW t \in DOMAIN s_DataTables
                 PROVE  g[d + 1][t] = ExcludedBy(d + 1, t)
    OBVIOUS
  <2>2. d + 1 \in 0 .. N /\ d + 1 # 0 /\ (d + 1) - 1 = d /\ d <= N
    BY <1>0, <2>1
  <2>3. g[d + 1][t] = GatherExcludes(t, g[d])
    BY <1>2, <2>2
  <2>4. \A s \in DOMAIN s_DataTables : g[d][s] = ExcludedBy(d, s)
    BY <1>4, <2>2
  <2> QED
    BY <2>3, <2>4, ExcludesStep
<1>5. \A d \in Nat : d \in S
  BY <1>3, <1>4, NatSet
<1>6. g[N][root] = ExcludedBy(N, root)
  BY <1>0, <1>5
<1> QED
  BY <1>1, <1>6 DEF N

(* The props that the server sends for a table are the walks to props that *)
(* are sent.                                                               *)
LEMMA SentPropsAre ==
    ASSUME TablesSane, NEW root \in DOMAIN s_DataTables
    PROVE  SentProps(root) = SentOf(ExcludesOf(root), Len(s_DataTables), root)
<1> DEFINE N == Len(s_DataTables)
           ex == ExcludesOf(root)
<1>0. N \in Nat /\ DOMAIN s_DataTables = 1 .. N
  BY TablesAre
<1>1. Walks(root) = WalksOf(N, root)
  BY <1>0 DEF Walks, WalksOf
<1>2. ex = {<<PropOf(Last(w)).dt_name, PropOf(Last(w)).var_name>> :
               w \in {v \in Walks(root) : PropOf(Last(v)).exclude}}
  BY <1>1, ExcludesAre DEF ExcludedBy
<1> HIDE DEF ex
<1>3. SentProps(root) =
        {w \in Walks(root) :
            /\ PropOf(Last(w)).type # "DataTable"
            /\ \A k \in DOMAIN w :
                  ~PropOf(w[k]).exclude /\ ~PropOf(w[k]).insideArray /\ NameOf(w[k]) \notin ex}
  BY <1>2 DEF SentProps
<1>4. \A l : Fine(ex, l) <=>
               ~PropOf(l).exclude /\ ~PropOf(l).insideArray /\ NameOf(l) \notin ex
  BY DEF Fine, Skipped, IsPropExcluded, NameOf
<1>5. SentProps(root) =
        {w \in Walks(root) :
            PropOf(Last(w)).type # "DataTable" /\ \A k \in DOMAIN w : Fine(ex, w[k])}
  BY <1>3, <1>4
<1> QED
  BY <1>1, <1>5 DEF SentOf, ex
-----------------------------------------------------------------------------
(* b and o list the walks X, in order: b those that come from below a      *)
(* table that is not collapsed.  Their props are what is gathered.         *)
Lists(b, o, X, all) ==
    /\ b \in Seq(X) /\ o \in Seq(X)
    /\ \A k \in 1 .. Len(b) : ~OwnFrom(1, b[k])
    /\ \A k \in 1 .. Len(o) : OwnFrom(1, o[k])
    /\ \A w \in X : (\E k \in 1 .. Len(b) : b[k] = w) \/ (\E k \in 1 .. Len(o) : o[k] = w)
    /\ Ordered(b) /\ Ordered(o)
    /\ all.class = Entries(b) /\ all.temp = Entries(o)

(* What is listed for a prop that is skipped.                              *)
LEMMA ListsNone ==
    Lists(<<>>, <<>>, {}, Nothing)
<1>1. Entries(<<>>) = <<>>
  BY DEF Entries
<1> QED
  BY <1>1 DEF Lists, Ordered, Nothing

(* Walks behind a link.                                                    *)
Prefixed(l, s) == [k \in 1 .. Len(s) |-> Behind(l, s[k])]

(* Behind the link l the walks X are among Y.                              *)
ShiftTo(l, X, Y) ==
    /\ \A w \in X : Behind(l, w) \in Y /\ EntryOf(Behind(l, w)) = EntryOf(w)
    /\ \A v, w \in X : Before(v, w) => Before(Behind(l, v), Behind(l, w))

(* Walks behind a link are walks of one link more.                         *)
LEMMA WalksShift ==
    ASSUME NEW d \in Nat, NEW t, NEW l, NEW X, X \subseteq WalksOf(d, t),
           NEW Y, \A w \in X : Behind(l, w) \in Y
    PROVE  ShiftTo(l, X, Y)
<1>1. ASSUME NEW w \in X PROVE EntryOf(Behind(l, w)) = EntryOf(w)
  <2>1. w \in WalksOf(d, t)
    OBVIOUS
  <2>2. /\ Len(Behind(l, w)) = Len(w) + 1
        /\ Behind(l, w)[Len(w) + 1] = w[Len(w)]
    BY <2>1, BehindIs
  <2> QED
    BY <2>2 DEF EntryOf
<1>2. ASSUME NEW v \in X, NEW w \in X, Before(v, w) PROVE Before(Behind(l, v), Behind(l, w))
  <2>1. v \in WalksOf(d, t) /\ w \in WalksOf(d, t)
    OBVIOUS
  <2> QED
    BY <1>2, <2>1, BeforeBehind
<1> QED
  BY <1>1, <1>2 DEF ShiftTo

(* Walks behind a link, as a sequence.                                     *)
LEMMA PrefixedIs ==
    ASSUME NEW l, NEW X, NEW Y, ShiftTo(l, X, Y), NEW s \in Seq(X), Ordered(s)
    PROVE  /\ Prefixed(l, s) \in Seq(Y)
           /\ Len(Prefixed(l, s)) = Len(s)
           /\ \A k \in 1 .. Len(s) : Prefixed(l, s)[k] = Behind(l, s[k])
           /\ Ordered(Prefixed(l, s))
           /\ Entries(Prefixed(l, s)) = Entries(s)
<1> DEFINE p == Prefixed(l, s)
<1>0. Len(s) \in Nat /\ \A k \in 1 .. Len(s) : s[k] \in X
  OBVIOUS
<1>1. p \in Seq(Y)
  <2>1. \A k \in 1 .. Len(s) : Behind(l, s[k]) \in Y
    BY <1>0 DEF ShiftTo
  <2> QED
    BY <1>0, <2>1 DEF Prefixed
<1>2. Len(p) = Len(s) /\ \A k \in 1 .. Len(s) : p[k] = Behind(l, s[k])
  BY <1>0 DEF Prefixed
<1> HIDE DEF p
<1>3. Ordered(p)
  <2> SUFFICES ASSUME NEW i \in 1 .. Len(p), NEW j \in 1 .. Len(p), i < j PROVE Before(p[i], p[j])
    BY DEF Ordered
  <2>1. i \in 1 .. Len(s) /\ j \in 1 .. Len(s)
    BY <1>2
  <2>2. Before(s[i], s[j])
    BY <2>1 DEF Ordered
  <2>3. Before(Behind(l, s[i]), Behind(l, s[j]))
    BY <1>0, <2>1, <2>2 DEF ShiftTo
  <2> QED
    BY <1>2, <2>1, <2>3
<1>4. Entries(p) = Entries(s)
  <2>1. \A k \in 1 .. Len(s) : EntryOf(p[k]) = EntryOf(s[k])
    BY <1>0, <1>2 DEF ShiftTo
  <2> QED
    BY <1>2, <2>1 DEF Entries
<1> QED
  BY <1>1, <1>2, <1>3, <1>4 DEF p

(* What is sent of the walks that begin with the link l.                   *)
SentFrom(excludes, d, l) == {w \in SentOf(excludes, d, l[1]) : w[1] = l}

(* Those that go on.                                                       *)
LEMMA SentBehind ==
    ASSUME TablesSane, NEW excludes, NEW d \in Nat, NEW l \in Links, Fine(excludes, l),
           SubOf(l) # 0
    PROVE  SentFrom(excludes, d + 1, l) = {Behind(l, w) : w \in SentOf(excludes, d, SubOf(l))}
<1> DEFINE X == SentOf(excludes, d, SubOf(l))
<1>1. ASSUME NEW w \in X PROVE Behind(l, w) \in SentFrom(excludes, d + 1, l)
  <2> DEFINE v == Behind(l, w)
  <2>1. /\ w \in WalksOf(d, SubOf(l)) /\ PropOf(Last(w)).type # "DataTable"
        /\ \A k \in DOMAIN w : Fine(excludes, w[k])
    BY DEF SentOf
  <2>2. /\ DOMAIN v = 1 .. Len(w) + 1 /\ v[1] = l
        /\ \A k \in 2 .. Len(w) + 1 : v[k] = w[k - 1]
        /\ Last(v) = Last(w)
    BY <2>1, BehindIs
  <2>3. DOMAIN w = 1 .. Len(w) /\ Len(w) \in Nat
    BY <2>1, WalkIs
  <2>4. v \in WalksOf(d + 1, l[1])
    BY <2>1, BehindWalk
  <2> HIDE DEF v
  <2>5. \A k \in DOMAIN v : Fine(excludes, v[k])
    <3> TAKE k \in DOMAIN v
    <3>1. CASE k = 1
      BY <2>2, <3>1
    <3>2. CASE k # 1
      <4>1. k \in 2 .. Len(w) + 1 /\ k - 1 \in DOMAIN w
        BY <2>2, <2>3, <3>2
      <4> QED
        BY <2>1, <2>2, <4>1
    <3> QED
      BY <3>1, <3>2
  <2>6. v \in SentFrom(excludes, d + 1, l)
    BY <2>1, <2>2, <2>4, <2>5 DEF SentOf, SentFrom
  <2> QED
    BY <2>6 DEF v
<1>2. ASSUME NEW v \in SentFrom(excludes, d + 1, l) PROVE \E w \in X : v = Behind(l, w)
  <2>1. /\ v \in WalksOf(d + 1, l[1]) /\ PropOf(Last(v)).type # "DataTable"
        /\ \A k \in DOMAIN v : Fine(excludes, v[k])
        /\ v[1] = l
    BY DEF SentOf, SentFrom
  <2>2. \/ v = <<l>> /\ Len(v) = 1
        \/ \E w \in WalksOf(d, SubOf(l)) : v = Behind(l, w)
    BY <2>1, WalkSplit
  <2>3. ~(v = <<l>> /\ Len(v) = 1)
    <3> SUFFICES ASSUME v = <<l>> /\ Len(v) = 1 PROVE FALSE
      OBVIOUS
    <3>1. Last(v) = l
      BY DEF Last
    <3> QED
      BY <2>1, <3>1, SubIs
  <2>4. PICK w \in WalksOf(d, SubOf(l)) : v = Behind(l, w)
    BY <2>2, <2>3
  <2>5. /\ DOMAIN v = 1 .. Len(w) + 1 /\ Last(v) = Last(w)
        /\ \A k \in 1 .. Len(w) : v[k + 1] = w[k]
    BY <2>4, BehindIs
  <2>6. DOMAIN w = 1 .. Len(w) /\ Len(w) \in Nat
    BY WalkIs
  <2>7. \A k \in DOMAIN w : Fine(excludes, w[k])
    <3> TAKE k \in DOMAIN w
    <3>1. k \in 1 .. Len(w) /\ k + 1 \in DOMAIN v
      BY <2>5, <2>6
    <3> QED
      BY <2>1, <2>5, <3>1
  <2> QED
    BY <2>1, <2>4, <2>5, <2>7 DEF SentOf
<1> QED
  BY <1>1, <1>2

(* What a prop gives.                                                      *)
LEMMA PropLists ==
    ASSUME TablesSane, NEW excludes, NEW d \in Nat, NEW t \in DOMAIN s_DataTables,
           NEW i \in DOMAIN s_DataTables[t].props, NEW below,
           \A s \in DOMAIN s_DataTables : \E b, o : Lists(b, o, SentOf(excludes, d, s), below[s])
    PROVE  \E b, o : Lists(b, o, SentFrom(excludes, d + 1, <<t, i>>), OfProp(excludes, t, i, below))
<1> DEFINE l == <<t, i>>
           prop == s_DataTables[t].props[i]
           sub == GetTableByName(prop.dt_name)
           X == SentFrom(excludes, d + 1, l)
           all == OfProp(excludes, t, i, below)
<1>1. l \in Links /\ PropOf(l) = prop /\ l[1] = t /\ l[2] = i
  BY LinksAre DEF PropOf
<1>2. Skipped(excludes, s_DataTables[t], prop) <=> ~Fine(excludes, l)
  BY <1>1 DEF Fine
<1>3. all = IF ~Fine(excludes, l) THEN Nothing
            ELSE IF prop.type # "DataTable"
            THEN [class |-> <<>>, temp |-> <<FlattenedPropEntry(s_DataTables[t], i)>>]
            ELSE IF sub = 0 THEN Nothing
            ELSE IF prop.collapsible THEN below[sub]
            ELSE [class |-> GatherProps(below[sub]), temp |-> <<>>]
  BY <1>2 DEF OfProp
<1>4. prop.type = "DataTable" => SubOf(l) = sub
  BY <1>1 DEF SubOf
<1>5. sub = 0 \/ sub \in DOMAIN s_DataTables
  BY ByName
<1> HIDE DEF all, sub, prop, l
<1>6. \A w \in X : /\ w \in WalksOf(d + 1, t) /\ w[1] = l /\ Fine(excludes, l)
                   /\ PropOf(Last(w)).type # "DataTable"
                   /\ \/ w = <<l>> /\ Len(w) = 1
                      \/ \E v \in WalksOf(d, SubOf(l)) : w = Behind(l, v)
  <2> TAKE w \in X
  <2>1. /\ w \in WalksOf(d + 1, t) /\ w[1] = l /\ PropOf(Last(w)).type # "DataTable"
        /\ \A k \in DOMAIN w : Fine(excludes, w[k])
    BY <1>1 DEF SentFrom, SentOf
  <2>2. 1 \in DOMAIN w
    <3>1. d + 1 \in Nat
      OBVIOUS
    <3>2. Len(w) \in 1 .. d + 1 /\ DOMAIN w = 1 .. Len(w)
      BY <2>1, <3>1, WalkIs
    <3> QED
      BY <3>2
  <2> QED
    BY <2>1, <2>2, WalkSplit
<1> HIDE DEF X
<1>7. CASE ~Fine(excludes, l)
  <2>1. X = {} /\ all = Nothing
    BY <1>3, <1>6, <1>7
  <2> QED
    BY <2>1, ListsNone DEF X, all, l
<1>8. CASE Fine(excludes, l) /\ prop.type # "DataTable"
  <2> DEFINE o == <<<<l>>>>
  <2>1. <<l>> \in X
    <3>1. <<l>> \in WalksOf(d + 1, t)
      BY <1>1, OneWalk
    <3>2. Last(<<l>>) = l /\ DOMAIN <<l>> = {1} /\ <<l>>[1] = l
      BY DEF Last
    <3> QED
      BY <1>1, <1>8, <3>1, <3>2 DEF X, SentFrom, SentOf
  <2>2. \A w \in X : w = <<l>>
    BY <1>1, <1>6, <1>8, BelowIs
  <2>3. o \in Seq(X) /\ Len(o) = 1 /\ o[1] = <<l>>
    BY <2>1
  <2>4. OwnFrom(1, <<l>>)
    BY DEF OwnFrom
  <2>5. EntryOf(<<l>>) = FlattenedPropEntry(s_DataTables[t], i)
    BY <1>1 DEF EntryOf
  <2>6. Entries(o) = <<FlattenedPropEntry(s_DataTables[t], i)>> /\ Entries(<<>>) = <<>>
    BY <2>3, <2>5 DEF Entries
  <2>7. all.class = <<>> /\ all.temp = <<FlattenedPropEntry(s_DataTables[t], i)>>
    BY <1>3, <1>8
  <2>8. Ordered(o) /\ Ordered(<<>>)
    BY <2>3 DEF Ordered
  <2> HIDE DEF o
  <2>9. Lists(<<>>, o, X, all)
    BY <2>2, <2>3, <2>4, <2>6, <2>7, <2>8 DEF Lists
  <2> QED
    BY <2>9 DEF X, all, l
<1>9. CASE Fine(excludes, l) /\ prop.type = "DataTable" /\ sub = 0
  <2>1. \A w \in X : FALSE
    <3> TAKE w \in X
    <3>1. CASE w = <<l>> /\ Len(w) = 1
      <4>1. Last(w) = l
        BY <3>1 DEF Last
      <4> QED
        BY <1>1, <1>6, <1>9, <4>1
    <3> QED
      BY <1>4, <1>6, <1>9, <3>1, BelowIs
  <2>2. X = {} /\ all = Nothing
    BY <1>3, <1>9, <2>1
  <2> QED
    BY <2>2, ListsNone DEF X, all, l
<1>10. CASE Fine(excludes, l) /\ prop.type = "DataTable" /\ sub # 0
  <2> DEFINE Y == SentOf(excludes, d, sub)
  <2>1. SubOf(l) = sub /\ sub \in DOMAIN s_DataTables
    BY <1>4, <1>5, <1>10
  <2>2. PICK b, o : Lists(b, o, Y, below[sub])
    BY <2>1
  <2>3. Y \subseteq WalksOf(d, sub)
    BY DEF SentOf
  <2>4. X = {Behind(l, w) : w \in Y}
    BY <1>1, <1>10, <2>1, SentBehind DEF X
  <2>5. /\ b \in Seq(Y) /\ o \in Seq(Y) /\ Ordered(b) /\ Ordered(o)
        /\ \A k \in 1 .. Len(b) : ~OwnFrom(1, b[k])
        /\ \A k \in 1 .. Len(o) : OwnFrom(1, o[k])
        /\ \A w \in Y : (\E k \in 1 .. Len(b) : b[k] = w) \/ (\E k \in 1 .. Len(o) : o[k] = w)
        /\ below[sub].class = Entries(b) /\ below[sub].temp = Entries(o)
    BY <2>2 DEF Lists
  <2>6. \A w \in Y : OwnFrom(1, Behind(l, w)) <=> prop.collapsible /\ OwnFrom(1, w)
    <3> TAKE w \in Y
    <3>1. w \in WalksOf(d, sub)
      BY <2>3
    <3>2. 1 \in 1 .. Len(w)
      <4>1. Len(w) \in 1 .. d
        BY <3>1, WalkIs
      <4> QED
        BY <4>1
    <3> QED
      BY <1>1, <3>1, <3>2, OwnBehind
  <2>s. ShiftTo(l, Y, X)
    <3> HIDE DEF Y
    <3>1. \A w \in Y : Behind(l, w) \in X
      BY <2>4
    <3> QED
      BY <2>3, <3>1, WalksShift
  <2>y. \A w \in Y : w \in SentOf(excludes, d, sub)
    OBVIOUS
  <2> HIDE DEF Y
  <2>7. CASE prop.collapsible
    <3> DEFINE p == Prefixed(l, b)
               q == Prefixed(l, o)
    <3>1. /\ p \in Seq(X) /\ Len(p) = Len(b) /\ Ordered(p) /\ Entries(p) = Entries(b)
          /\ \A k \in 1 .. Len(b) : p[k] = Behind(l, b[k])
      <4> HIDE DEF p
      <4>1. b \in Seq(Y) /\ Ordered(b)
        BY <2>5
      <4>2. /\ Prefixed(l, b) \in Seq(X)
            /\ Len(Prefixed(l, b)) = Len(b)
            /\ \A k \in 1 .. Len(b) : Prefixed(l, b)[k] = Behind(l, b[k])
            /\ Ordered(Prefixed(l, b))
            /\ Entries(Prefixed(l, b)) = Entries(b)
        BY <2>s, <4>1, PrefixedIs
      <4> QED
        BY <4>2 DEF p
    <3>2. /\ q \in Seq(X) /\ Len(q) = Len(o) /\ Ordered(q) /\ Entries(q) = Entries(o)
          /\ \A k \in 1 .. Len(o) : q[k] = Behind(l, o[k])
      <4> HIDE DEF q
      <4>1. o \in Seq(Y) /\ Ordered(o)
        BY <2>5
      <4>2. /\ Prefixed(l, o) \in Seq(X)
            /\ Len(Prefixed(l, o)) = Len(o)
            /\ \A k \in 1 .. Len(o) : Prefixed(l, o)[k] = Behind(l, o[k])
            /\ Ordered(Prefixed(l, o))
            /\ Entries(Prefixed(l, o)) = Entries(o)
        BY <2>s, <4>1, PrefixedIs
      <4> QED
        BY <4>2 DEF q
    <3>3. all = below[sub]
      BY <1>3, <1>10, <2>7
    <3>4. (\A k \in 1 .. Len(b) : b[k] \in Y) /\ (\A k \in 1 .. Len(o) : o[k] \in Y)
      BY <2>5
    <3> HIDE DEF p, q
    <3>5. \A k \in 1 .. Len(p) : ~OwnFrom(1, p[k])
      BY <2>5, <2>6, <2>7, <3>1, <3>4
    <3>6. \A k \in 1 .. Len(q) : OwnFrom(1, q[k])
      BY <2>5, <2>6, <2>7, <3>2, <3>4
    <3>7. \A w \in X : (\E k \in 1 .. Len(p) : p[k] = w) \/ (\E k \in 1 .. Len(q) : q[k] = w)
      BY <2>4, <2>5, <3>1, <3>2
    <3>8. Lists(p, q, X, all)
      BY <2>5, <3>1, <3>2, <3>3, <3>5, <3>6, <3>7 DEF Lists
    <3> QED
      BY <3>8 DEF X, all, l
  <2>8. CASE ~prop.collapsible
    <3> DEFINE s == b \o o
               p == Prefixed(l, s)
    <3>1. (\A k \in 1 .. Len(b) : b[k] \in Y) /\ (\A k \in 1 .. Len(o) : o[k] \in Y)
      BY <2>5
    <3>2. \A k \in 1 .. Len(b) : \A j \in 1 .. Len(o) : Before(b[k], o[j])
      BY <2>5, <2>y, <3>1, BelowFirst
    <3>3. s \in Seq(Y) /\ Ordered(s)
      BY <2>5, <3>2, OrderedJoin
    <3>4. /\ p \in Seq(X) /\ Len(p) = Len(s) /\ Ordered(p) /\ Entries(p) = Entries(s)
          /\ \A k \in 1 .. Len(s) : p[k] = Behind(l, s[k])
      <4> HIDE DEF p
      <4>1. s \in Seq(Y) /\ Ordered(s)
        BY <3>3
      <4>2. /\ Prefixed(l, s) \in Seq(X)
            /\ Len(Prefixed(l, s)) = Len(s)
            /\ \A k \in 1 .. Len(s) : Prefixed(l, s)[k] = Behind(l, s[k])
            /\ Ordered(Prefixed(l, s))
            /\ Entries(Prefixed(l, s)) = Entries(s)
        BY <2>s, <4>1, PrefixedIs
      <4> QED
        BY <4>2 DEF p
    <3>5. Entries(s) = Entries(b) \o Entries(o)
      BY <2>5, EntriesJoin
    <3>6. all.class = Entries(b) \o Entries(o) /\ all.temp = <<>>
      BY <1>3, <1>10, <2>5, <2>8 DEF GatherProps
    <3>7. /\ Len(s) = Len(b) + Len(o) /\ Len(b) \in Nat /\ Len(o) \in Nat
          /\ \A k \in 1 .. Len(b) : s[k] = b[k]
          /\ \A k \in 1 .. Len(o) : s[Len(b) + k] = o[k]
      BY <2>5, Joined
    <3>8. \A w \in Y : \E k \in 1 .. Len(s) : s[k] = w
      <4> TAKE w \in Y
      <4>1. ASSUME NEW k \in 1 .. Len(b), b[k] = w PROVE \E j \in 1 .. Len(s) : s[j] = w
        <5>1. k \in 1 .. Len(s) /\ s[k] = w
          BY <3>7, <4>1
        <5> QED
          BY <5>1
      <4>2. ASSUME NEW k \in 1 .. Len(o), o[k] = w PROVE \E j \in 1 .. Len(s) : s[j] = w
        <5>1. Len(b) + k \in 1 .. Len(s) /\ s[Len(b) + k] = w
          BY <3>7, <4>2
        <5> QED
          BY <5>1
      <4> QED
        BY <2>5, <4>1, <4>2
    <3>9. \A k \in 1 .. Len(s) : s[k] \in Y
      BY <3>3
    <3> HIDE DEF p, s
    <3>10. \A k \in 1 .. Len(p) : ~OwnFrom(1, p[k])
      BY <2>6, <2>8, <3>4, <3>9
    <3>11. \A w \in X : \E k \in 1 .. Len(p) : p[k] = w
      BY <2>4, <3>4, <3>8
    <3>12. Entries(<<>>) = <<>> /\ Ordered(<<>>) /\ <<>> \in Seq(X) /\ Len(<<>>) = 0
      BY DEF Entries, Ordered
    <3>13. Lists(p, <<>>, X, all)
      BY <3>4, <3>5, <3>6, <3>10, <3>11, <3>12 DEF Lists
    <3> QED
      BY <3>13 DEF X, all, l
  <2> QED
    BY <2>7, <2>8
<1> QED
  BY <1>7, <1>8, <1>9, <1>10
-----------------------------------------------------------------------------
(* What a table gives, all its props together.                             *)
LEMMA TableLists ==
    ASSUME TablesSane, NEW excludes, NEW d \in Nat, NEW t \in DOMAIN s_DataTables, NEW below,
           \A s \in DOMAIN s_DataTables : \E b, o : Lists(b, o, SentOf(excludes, d, s), below[s])
    PROVE  \E b, o : Lists(b, o, SentOf(excludes, d + 1, t),
                           GatherProps_IterateProps(excludes, t, below))
<1> DEFINE n == Len(s_DataTables[t].props)
           X == SentOf(excludes, d + 1, t)
           P(i) == SentFrom(excludes, d + 1, <<t, i>>)
           of(i) == OfProp(excludes, t, i, below)
           F == [i \in 1 .. n |-> CHOOSE q : Lists(q[1], q[2], P(i), of(i))]
           B == [i \in 1 .. n |-> F[i][1]]
           O == [i \in 1 .. n |-> F[i][2]]
           C == [i \in 1 .. n |-> of(i).class]
           T == [i \in 1 .. n |-> of(i).temp]
           all == GatherProps_IterateProps(excludes, t, below)
<1>0. n \in Nat /\ DOMAIN s_DataTables[t].props = 1 .. n
  BY TablesAre
<1>1. all.class = FlattenSeq(C) /\ all.temp = FlattenSeq(T)
  BY <1>0 DEF GatherProps_IterateProps
<1>2. FlattenSeq(C) = Flat(C, n) /\ FlattenSeq(T) = Flat(T, n)
  <2>1. C = [i \in 1 .. n |-> C[i]] /\ T = [i \in 1 .. n |-> T[i]]
    OBVIOUS
  <2> HIDE DEF C, T, n
  <2> QED
    BY <2>1, FlatWhole
<1>3. ASSUME NEW i \in 1 .. n PROVE Lists(B[i], O[i], P(i), of(i))
  <2>1. PICK b, o : Lists(b, o, P(i), of(i))
    BY <1>0, PropLists
  <2>2. <<b, o>>[1] = b /\ <<b, o>>[2] = o
    OBVIOUS
  <2> HIDE DEF P, of
  <2>3. Lists(<<b, o>>[1], <<b, o>>[2], P(i), of(i))
    BY <2>1, <2>2
  <2>4. Lists(F[i][1], F[i][2], P(i), of(i))
    <3>1. F[i] = CHOOSE q : Lists(q[1], q[2], P(i), of(i))
      OBVIOUS
    <3> HIDE DEF F
    <3> QED
      BY <2>3, <3>1
  <2>5. B[i] = F[i][1] /\ O[i] = F[i][2]
    OBVIOUS
  <2> HIDE DEF B, O, F
  <2> QED
    BY <2>4, <2>5
<1>4. \A i \in 1 .. n : C[i] = of(i).class /\ T[i] = of(i).temp
  OBVIOUS
<1>5. \A i : \A w : w \in P(i) <=> w \in X /\ w[1] = <<t, i>>
  BY DEF SentFrom
<1> HIDE DEF n, P, of, F, B, O, C, T, all
<1>6. ASSUME NEW i \in 1 .. n
      PROVE  /\ B[i] \in Seq(P(i)) /\ O[i] \in Seq(P(i)) /\ Ordered(B[i]) /\ Ordered(O[i])
             /\ \A k \in 1 .. Len(B[i]) : ~OwnFrom(1, B[i][k]) /\ B[i][k] \in P(i)
             /\ \A k \in 1 .. Len(O[i]) : OwnFrom(1, O[i][k]) /\ O[i][k] \in P(i)
             /\ \A w \in P(i) :
                   (\E k \in 1 .. Len(B[i]) : B[i][k] = w) \/ (\E k \in 1 .. Len(O[i]) : O[i][k] = w)
             /\ C[i] = Entries(B[i]) /\ T[i] = Entries(O[i])
  <2>1. B[i] \in Seq(P(i)) /\ O[i] \in Seq(P(i))
    BY <1>3 DEF Lists
  <2>2. /\ \A k \in 1 .. Len(B[i]) : B[i][k] \in P(i)
        /\ \A k \in 1 .. Len(O[i]) : O[i][k] \in P(i)
    BY <2>1
  <2> QED
    BY <1>3, <1>4, <2>1, <2>2 DEF Lists
<1>7. ASSUME NEW i \in 1 .. n PROVE B[i] \in Seq(X) /\ O[i] \in Seq(X)
  <2>1. P(i) \subseteq X
    BY <1>5
  <2>2. \A s \in Seq(P(i)) : s \in Seq(X)
    BY <2>1
  <2> QED
    BY <1>6, <2>2
<1>8. Parts(B, n, X) /\ Parts(O, n, X)
  BY <1>0, <1>7 DEF Parts
<1> DEFINE b == Flat(B, n)
           o == Flat(O, n)
<1>9. b \in Seq(X) /\ o \in Seq(X)
  <2>1. n \in 0 .. n
    BY <1>0
  <2> HIDE DEF X
  <2> QED
    BY <1>8, <2>1, FlatTyped
<1>w. \A v \in X : v \in WalksOf(d + 1, t) /\ d + 1 \in Nat
  BY DEF SentOf
<1>10. Ordered(b)
  <2>1. ASSUME NEW i \in 1 .. n, NEW j \in 1 .. n, i < j,
               NEW k \in 1 .. Len(B[i]), NEW h \in 1 .. Len(B[j])
        PROVE  Before(B[i][k], B[j][h])
    <3> DEFINE v == B[i][k]
               w == B[j][h]
    <3>1. /\ v \in P(i) /\ w \in P(j) /\ ~OwnFrom(1, v) /\ ~OwnFrom(1, w)
      BY <1>6
    <3>2. v[1] = <<t, i>> /\ w[1] = <<t, j>> /\ v \in X /\ w \in X
      BY <1>5, <3>1
    <3> HIDE DEF v, w
    <3>3. v[1] # w[1] /\ v[1][2] < w[1][2]
      BY <2>1, <3>2
    <3>4. Before(v, w)
      BY <1>w, <3>1, <3>2, <3>3, BeforeAtOnce
    <3> QED
      BY <3>4 DEF v, w
  <2>2. \A i \in 1 .. n : Ordered(B[i])
    BY <1>6
  <2> HIDE DEF X
  <2> QED
    BY <1>8, <2>1, <2>2, FlatOrdered
<1>11. Ordered(o)
  <2>1. ASSUME NEW i \in 1 .. n, NEW j \in 1 .. n, i < j,
               NEW k \in 1 .. Len(O[i]), NEW h \in 1 .. Len(O[j])
        PROVE  Before(O[i][k], O[j][h])
    <3> DEFINE v == O[i][k]
               w == O[j][h]
    <3>1. /\ v \in P(i) /\ w \in P(j) /\ OwnFrom(1, v) /\ OwnFrom(1, w)
      BY <1>6
    <3>2. v[1] = <<t, i>> /\ w[1] = <<t, j>> /\ v \in X /\ w \in X
      BY <1>5, <3>1
    <3> HIDE DEF v, w
    <3>3. v[1] # w[1] /\ v[1][2] < w[1][2]
      BY <2>1, <3>2
    <3>4. Before(v, w)
      BY <1>w, <3>1, <3>2, <3>3, BeforeAtOnce
    <3> QED
      BY <3>4 DEF v, w
  <2>2. \A i \in 1 .. n : Ordered(O[i])
    BY <1>6
  <2> HIDE DEF X
  <2> QED
    BY <1>8, <2>1, <2>2, FlatOrdered
<1>12. \A k \in 1 .. Len(b) : ~OwnFrom(1, b[k])
  <2> TAKE k \in 1 .. Len(b)
  <2>1. n \in 0 .. n
    BY <1>0
  <2>2. \E i \in 1 .. n : \E j \in 1 .. Len(B[i]) : b[k] = B[i][j]
    <3> HIDE DEF X
    <3>1. \A m \in 0 .. n : \A h \in 1 .. Len(Flat(B, m)) :
             \E i \in 1 .. m : \E j \in 1 .. Len(B[i]) : Flat(B, m)[h] = B[i][j]
      <4>1. Parts(B, n, X)
        BY <1>8
      <4> QED
        BY <4>1, FlatElement
    <3> QED
      BY <2>1, <3>1
  <2> QED
    BY <1>6, <2>2
<1>13. \A k \in 1 .. Len(o) : OwnFrom(1, o[k])
  <2> TAKE k \in 1 .. Len(o)
  <2>1. n \in 0 .. n
    BY <1>0
  <2>2. \E i \in 1 .. n : \E j \in 1 .. Len(O[i]) : o[k] = O[i][j]
    <3> HIDE DEF X
    <3>1. \A m \in 0 .. n : \A h \in 1 .. Len(Flat(O, m)) :
             \E i \in 1 .. m : \E j \in 1 .. Len(O[i]) : Flat(O, m)[h] = O[i][j]
      <4>1. Parts(O, n, X)
        BY <1>8
      <4> QED
        BY <4>1, FlatElement
    <3> QED
      BY <2>1, <3>1
  <2> QED
    BY <1>6, <2>2
<1>14. ASSUME NEW w \in X
       PROVE  (\E k \in 1 .. Len(b) : b[k] = w) \/ (\E k \in 1 .. Len(o) : o[k] = w)
  <2>1. w[1] \in Links /\ w[1][1] = t
    BY <1>w, WalkSplit
  <2>2. w[1][2] \in 1 .. n /\ w[1] = <<t, w[1][2]>>
    BY <1>0, <2>1, LinkIs
  <2>3. PICK i \in 1 .. n : w[1] = <<t, i>>
    BY <2>2
  <2>4. w \in P(i)
    BY <1>5, <2>3
  <2> HIDE DEF X
  <2>5. ASSUME NEW j \in 1 .. Len(B[i]), B[i][j] = w PROVE \E k \in 1 .. Len(b) : b[k] = w
    BY <1>8, <2>5, FlatHas
  <2>6. ASSUME NEW j \in 1 .. Len(O[i]), O[i][j] = w PROVE \E k \in 1 .. Len(o) : o[k] = w
    BY <1>8, <2>6, FlatHas
  <2> QED
    BY <1>6, <2>4, <2>5, <2>6
<1>15. all.class = Entries(b) /\ all.temp = Entries(o)
  <2>1. (\A i \in 1 .. n : C[i] = Entries(B[i])) /\ (\A i \in 1 .. n : T[i] = Entries(O[i]))
    BY <1>6
  <2> HIDE DEF X
  <2>2. Flat(C, n) = Entries(b)
    BY <1>8, <2>1, FlatEntries
  <2>3. Flat(T, n) = Entries(o)
    BY <1>8, <2>1, FlatEntries
  <2> QED
    BY <1>1, <1>2, <2>2, <2>3
<1> HIDE DEF b, o
<1>16. Lists(b, o, X, all)
  BY <1>9, <1>10, <1>11, <1>12, <1>13, <1>14, <1>15 DEF Lists
<1> QED
  BY <1>16 DEF all

(* The props of a table are listed at any depth.                           *)
LEMMA PropsListed ==
    ASSUME TablesSane, NEW excludes, NEW g, PropsTo(g, excludes, Len(s_DataTables)),
           NEW root \in DOMAIN s_DataTables
    PROVE  \E b, o : Lists(b, o, SentOf(excludes, Len(s_DataTables), root),
                           g[Len(s_DataTables)][root])
<1> DEFINE N == Len(s_DataTables)
<1>0. N \in Nat
  BY TablesAre
<1>1. \A depth \in 0 .. N : \A t \in DOMAIN s_DataTables :
         g[depth][t] = IF depth = 0 THEN Nothing
                       ELSE GatherProps_IterateProps(excludes, t, g[depth - 1])
  <2> DEFINE f == [depth \in 0 .. N |->
                [table \in DOMAIN s_DataTables |->
                    IF depth = 0 THEN Nothing
                    ELSE GatherProps_IterateProps(excludes, table, g[depth - 1])]]
  <2>1. g = f
    BY DEF PropsTo
  <2>2. \A depth \in 0 .. N : \A t \in DOMAIN s_DataTables :
           f[depth][t] = IF depth = 0 THEN Nothing
                         ELSE GatherProps_IterateProps(excludes, t, g[depth - 1])
    OBVIOUS
  <2> HIDE DEF f
  <2> QED
    BY <2>1, <2>2
<1> HIDE DEF N
<1> DEFINE S == {d \in Nat : d <= N =>
                    \A t \in DOMAIN s_DataTables :
                       \E b, o : Lists(b, o, SentOf(excludes, d, t), g[d][t])}
<1>2. 0 \in S
  <2>1. 0 \in 0 .. N
    BY <1>0
  <2>2. ASSUME NEW t \in DOMAIN s_DataTables
        PROVE  \E b, o : Lists(b, o, SentOf(excludes, 0, t), g[0][t])
    <3>1. SentOf(excludes, 0, t) = {}
      BY DEF SentOf, WalksOf
    <3>2. g[0][t] = Nothing
      BY <1>1, <2>1
    <3> QED
      BY <3>1, <3>2, ListsNone
  <2> QED
    BY <2>2
<1>3. ASSUME NEW d \in Nat, d \in S PROVE d + 1 \in S
  <2>1. SUFFICES ASSUME d + 1 <= N, NEW t \in DOMAIN s_DataTables
                 PROVE  \E b, o : Lists(b, o, SentOf(excludes, d + 1, t), g[d + 1][t])
    OBVIOUS
  <2>2. d + 1 \in 0 .. N /\ d + 1 # 0 /\ (d + 1) - 1 = d /\ d <= N
    BY <1>0, <2>1
  <2>3. g[d + 1][t] = GatherProps_IterateProps(excludes, t, g[d])
    BY <1>1, <2>2
  <2>4. \A s \in DOMAIN s_DataTables : \E b, o : Lists(b, o, SentOf(excludes, d, s), g[d][s])
    BY <1>3, <2>2
  <2> QED
    BY <2>3, <2>4, TableLists
<1>4. \A d \in Nat : d \in S
  BY <1>2, <1>3, NatSet
<1> QED
  BY <1>0, <1>4 DEF N

(* s lists the props that the server sends for the table root, in order.   *)
Enumerates(s, root) ==
    /\ s \in Seq(SentProps(root)) /\ Ordered(s)
    /\ \A w \in SentProps(root) : \E k \in 1 .. Len(s) : s[k] = w

(* What is gathered is what the server sends.                              *)
LEMMA GatheredIsSent ==
    ASSUME TablesSane, NEW root \in DOMAIN s_DataTables
    PROVE  \E s : Enumerates(s, root) /\ PropsOf(ExcludesOf(root), root) = Entries(s)
<1> DEFINE N == Len(s_DataTables)
           ex == ExcludesOf(root)
           X == SentProps(root)
<1>0. N \in Nat
  BY TablesAre
<1>1. PICK g : PropsTo(g, ex, N) /\ \A r : PropsOf(ex, r) = GatherProps(g[N][r])
  BY <1>0, PropsOfIs
<1>2. PICK b, o : Lists(b, o, SentOf(ex, N, root), g[N][root])
  BY <1>1, PropsListed
<1>3. X = SentOf(ex, N, root)
  BY SentPropsAre
<1> HIDE DEF X, ex, N
<1>4. /\ b \in Seq(X) /\ o \in Seq(X) /\ Ordered(b) /\ Ordered(o)
      /\ \A k \in 1 .. Len(b) : ~OwnFrom(1, b[k])
      /\ \A k \in 1 .. Len(o) : OwnFrom(1, o[k])
      /\ \A w \in X : (\E k \in 1 .. Len(b) : b[k] = w) \/ (\E k \in 1 .. Len(o) : o[k] = w)
      /\ g[N][root].class = Entries(b) /\ g[N][root].temp = Entries(o)
  BY <1>2, <1>3 DEF Lists
<1>5. (\A k \in 1 .. Len(b) : b[k] \in X) /\ (\A k \in 1 .. Len(o) : o[k] \in X)
  BY <1>4
<1> DEFINE s == b \o o
<1>6. \A k \in 1 .. Len(b) : \A j \in 1 .. Len(o) : Before(b[k], o[j])
  BY <1>0, <1>3, <1>4, <1>5, BelowFirst
<1>7. s \in Seq(X) /\ Ordered(s)
  BY <1>4, <1>6, OrderedJoin
<1>8. Entries(s) = Entries(b) \o Entries(o)
  BY <1>4, EntriesJoin
<1>9. /\ Len(s) = Len(b) + Len(o) /\ Len(b) \in Nat /\ Len(o) \in Nat
      /\ \A k \in 1 .. Len(b) : s[k] = b[k]
      /\ \A k \in 1 .. Len(o) : s[Len(b) + k] = o[k]
  BY <1>4, Joined
<1> HIDE DEF s
<1>10. \A w \in X : \E k \in 1 .. Len(s) : s[k] = w
  <2> TAKE w \in X
  <2>1. ASSUME NEW k \in 1 .. Len(b), b[k] = w PROVE \E j \in 1 .. Len(s) : s[j] = w
    <3>1. k \in 1 .. Len(s) /\ s[k] = w
      BY <1>9, <2>1
    <3> QED
      BY <3>1
  <2>2. ASSUME NEW k \in 1 .. Len(o), o[k] = w PROVE \E j \in 1 .. Len(s) : s[j] = w
    <3>1. Len(b) + k \in 1 .. Len(s) /\ s[Len(b) + k] = w
      BY <1>9, <2>2
    <3> QED
      BY <3>1
  <2> QED
    BY <1>4, <2>1, <2>2
<1>11. PropsOf(ex, root) = Entries(s)
  BY <1>1, <1>4, <1>8 DEF GatherProps
<1>12. Enumerates(s, root)
  BY <1>7, <1>10 DEF Enumerates, X
<1> QED
  BY <1>11, <1>12 DEF ex
-----------------------------------------------------------------------------
(* The number of elements that are enumerated.                             *)
LEMMA CountTo ==
    ASSUME NEW n \in Nat, NEW s, NEW A, \A k \in 1 .. n : s[k] \in A,
           \A w \in A : \E k \in 1 .. n : s[k] = w,
           \A i, j \in 1 .. n : s[i] = s[j] => i = j
    PROVE  IsFiniteSet(A) /\ Cardinality(A) = n
<1> DEFINE f == [k \in 1 .. n |-> s[k]]
<1>1. IsFiniteSet(1 .. n) /\ Cardinality(1 .. n) = n
  BY FS_Interval
<1>2. \A k \in 1 .. n : f[k] = s[k]
  OBVIOUS
<1>3. f \in [1 .. n -> A]
  OBVIOUS
<1> HIDE DEF f
<1>4. f \in Injection(1 .. n, A)
  BY <1>2, <1>3 DEF Injection, IsInjective
<1>5. f \in Surjection(1 .. n, A)
  BY <1>2, <1>3 DEF Surjection
<1>6. f \in Bijection(1 .. n, A)
  BY <1>4, <1>5 DEF Bijection
<1> QED
  BY <1>1, <1>6, FS_Bijection DEF ExistsBijection

(* What a walk to a prop that is sent has.                                 *)
LEMMA SentIs ==
    ASSUME TablesSane, NEW root \in DOMAIN s_DataTables, NEW w \in SentProps(root)
    PROVE  /\ w \in WalksOf(Len(s_DataTables), root) /\ Len(s_DataTables) \in Nat
           /\ Last(w) = w[Len(w)] /\ Last(w) \in Links
<1>1. w \in WalksOf(Len(s_DataTables), root) /\ Len(s_DataTables) \in Nat
  BY SentPropsAre, TablesAre DEF SentOf
<1>2. /\ Len(w) \in 1 .. Len(s_DataTables) /\ Last(w) = w[Len(w)]
      /\ \A k \in 1 .. Len(w) : w[k] \in Links
  BY <1>1, WalkIs
<1> QED
  BY <1>1, <1>2

(* The place of a prop is the number of those that are before it.          *)
LEMMA Counted ==
    ASSUME TablesSane, NEW root \in DOMAIN s_DataTables, NEW s, Enumerates(s, root)
    PROVE  /\ Len(s) \in Nat /\ Cardinality(SentProps(root)) = Len(s)
           /\ \A k \in 1 .. Len(s) :
                 /\ s[k] \in SentProps(root)
                 /\ Cardinality({v \in SentProps(root) : Before(v, s[k])}) = k - 1
<1> DEFINE X == SentProps(root)
<1>1. /\ s \in Seq(X) /\ Ordered(s) /\ Len(s) \in Nat
      /\ \A w \in X : \E k \in 1 .. Len(s) : s[k] = w
      /\ \A k \in 1 .. Len(s) : s[k] \in X
  <2>1. s \in Seq(X) /\ Ordered(s) /\ \A w \in X : \E k \in 1 .. Len(s) : s[k] = w
    BY DEF Enumerates
  <2> HIDE DEF X
  <2> QED
    BY <2>1
<1>2. \A v, w \in X : Before(v, w) => ~Before(w, v) /\ v # w
  BY SentIs, BeforeNotBehind
<1> HIDE DEF X
<1>3. \A i, j \in 1 .. Len(s) : i < j => Before(s[i], s[j])
  BY <1>1 DEF Ordered
<1>4. \A i, j \in 1 .. Len(s) : s[i] = s[j] => i = j
  <2> TAKE i, j \in 1 .. Len(s)
  <2>1. i < j \/ j < i \/ i = j
    BY <1>1
  <2> QED
    BY <1>1, <1>2, <1>3, <2>1
<1>5. Cardinality(X) = Len(s)
  BY <1>1, <1>4, CountTo
<1>6. ASSUME NEW k \in 1 .. Len(s) PROVE Cardinality({v \in X : Before(v, s[k])}) = k - 1
  <2> DEFINE A == {v \in X : Before(v, s[k])}
             n == k - 1
  <2>1. n \in Nat /\ \A i \in 1 .. n : i \in 1 .. Len(s) /\ i < k
    BY <1>1
  <2>2. \A i \in 1 .. n : s[i] \in A
    BY <1>1, <1>3, <2>1
  <2>3. \A w \in A : \E i \in 1 .. n : s[i] = w
    <3> TAKE w \in A
    <3>1. PICK i \in 1 .. Len(s) : s[i] = w
      BY <1>1
    <3>2. ~(k < i) /\ i # k
      BY <1>1, <1>2, <1>3, <3>1
    <3>3. i \in 1 .. n
      BY <1>1, <3>2
    <3> QED
      BY <3>1, <3>3
  <2>4. \A i, j \in 1 .. n : s[i] = s[j] => i = j
    BY <1>4, <2>1
  <2> HIDE DEF A, n
  <2>5. Cardinality(A) = n
    BY <2>1, <2>2, <2>3, <2>4, CountTo
  <2> QED
    BY <2>5 DEF A, n
<1> QED
  BY <1>1, <1>5, <1>6 DEF X

(* The entry of a prop is what the server numbers.                         *)
LEMMA EntryIsNumbered ==
    ASSUME TablesSane, NEW root \in DOMAIN s_DataTables, NEW w \in SentProps(root),
           \A t \in DOMAIN s_DataTables : ElementsInFront(s_DataTables[t])
    PROVE  /\ EntryOf(w) = Numbered(Last(w))
           /\ EntryOf(w).element # 0
<1> DEFINE l == Last(w)
           t == l[1]
           i == l[2]
           prop == s_DataTables[t].props[i]
<1>1. l \in Links /\ l = w[Len(w)]
  BY SentIs
<1>2. /\ t \in DOMAIN s_DataTables /\ i \in DOMAIN s_DataTables[t].props /\ i \in Nat
      /\ \A j \in DOMAIN s_DataTables[t].props : j \in Nat \ {0}
  BY <1>1, LinkIs, TablesAre
<1>3. PropOf(l) = prop
  BY DEF PropOf
<1>4. EntryOf(w) = FlattenedPropEntry(s_DataTables[t], i)
  BY <1>1 DEF EntryOf
<1> DEFINE elements == {j \in 1 .. i - 1 : s_DataTables[t].props[j].insideArray}
<1>5. Numbered(l) = [table |-> s_DataTables[t].net_table_name, prop |-> i,
         element |-> IF prop.type = "Array" THEN Max(elements) ELSE NoElement,
         priority |-> prop.priority, often |-> prop.often]
  BY <1>3 DEF Numbered
<1>6. FlattenedPropEntry(s_DataTables[t], i) =
        [table |-> s_DataTables[t].net_table_name, prop |-> i,
         element |-> IF prop.type = "Array" THEN i - 1 ELSE NoElement,
         priority |-> prop.priority, often |-> prop.often]
  BY DEF FlattenedPropEntry
<1>7. prop.type = "Array" => i > 1 /\ s_DataTables[t].props[i - 1].insideArray
  BY <1>2 DEF ElementsInFront
<1> HIDE DEF l, t, prop
<1>8. prop.type = "Array" => Max(elements) = i - 1
  <2> SUFFICES ASSUME prop.type = "Array" PROVE Max(elements) = i - 1
    OBVIOUS
  <2> HIDE DEF i
  <2>1. i - 1 \in elements /\ \A y \in elements : y \in Nat /\ i - 1 >= y
    BY <1>2, <1>7
  <2> HIDE DEF elements
  <2>2. \A x \in elements : (\A y \in elements : x >= y) => x = i - 1
    BY <1>2, <2>1
  <2> QED
    BY <2>1, <2>2 DEF Max
<1>9. EntryOf(w) = Numbered(l)
  <2> HIDE DEF elements, i
  <2> QED
    BY <1>4, <1>5, <1>6, <1>8
<1>10. EntryOf(w).element = IF prop.type = "Array" THEN i - 1 ELSE NoElement
  BY <1>4, <1>6
<1> HIDE DEF i
<1> QED
  BY <1>2, <1>7, <1>9, <1>10 DEF l, NoElement

(* What a class gets is what the server sends for its table, in order, and *)
(* nothing that is not there is read for it.                               *)
LEMMA GatheredRight ==
    ASSUME TablesSane, NEW root \in DOMAIN s_DataTables,
           \A t \in DOMAIN s_DataTables : ElementsInFront(s_DataTables[t])
    PROVE  /\ Len(PropsOf(ExcludesOf(root), root)) = Cardinality(SentProps(root))
           /\ \A w \in SentProps(root) :
                 PropsOf(ExcludesOf(root), root)[1 + Cardinality({v \in SentProps(root) : Before(v, w)})]
                    = Numbered(Last(w))
           /\ ToSet(PropsOf(ExcludesOf(root), root)) = {Numbered(Last(w)) : w \in SentProps(root)}
           /\ ~ReadsInFront(PropsOf(ExcludesOf(root), root))
<1> DEFINE props == PropsOf(ExcludesOf(root), root)
           X == SentProps(root)
<1>1. PICK s : Enumerates(s, root) /\ props = Entries(s)
  BY GatheredIsSent
<1>2. /\ Len(s) \in Nat /\ Cardinality(X) = Len(s)
      /\ \A k \in 1 .. Len(s) :
            /\ s[k] \in X
            /\ Cardinality({v \in X : Before(v, s[k])}) = k - 1
  BY <1>1, Counted
<1>3. \A w \in X : \E k \in 1 .. Len(s) : s[k] = w
  BY <1>1 DEF Enumerates
<1>4. \A w \in X : EntryOf(w) = Numbered(Last(w)) /\ EntryOf(w).element # 0
  BY EntryIsNumbered
<1>5. DOMAIN props = 1 .. Len(s) /\ Len(props) = Len(s) /\ \A k \in 1 .. Len(s) : props[k] = EntryOf(s[k])
  BY <1>1, <1>2 DEF Entries
<1> HIDE DEF props, X
<1>6. ASSUME NEW w \in X PROVE props[1 + Cardinality({v \in X : Before(v, w)})] = Numbered(Last(w))
  <2>1. PICK k \in 1 .. Len(s) : s[k] = w
    BY <1>3
  <2>2. 1 + Cardinality({v \in X : Before(v, w)}) = k
    BY <1>2, <2>1
  <2> QED
    BY <1>4, <1>5, <2>1, <2>2
<1>7. ToSet(props) = {Numbered(Last(w)) : w \in X}
  <2>1. \A k \in 1 .. Len(s) : props[k] = Numbered(Last(s[k])) /\ s[k] \in X
    BY <1>2, <1>4, <1>5
  <2> QED
    BY <1>3, <1>5, <2>1 DEF ToSet
<1>8. ~ReadsInFront(props)
  BY <1>2, <1>4, <1>5 DEF ReadsInFront
<1> QED
  BY <1>2, <1>5, <1>6, <1>7, <1>8 DEF props, X

(* Entries are props.                                                      *)
LEMMA GatheredTyped ==
    ASSUME TablesSane, NEW root \in DOMAIN s_DataTables,
           \A t \in DOMAIN s_DataTables : \A i \in DOMAIN s_DataTables[t].props :
              FlattenedPropEntry(s_DataTables[t], i) \in Props
    PROVE  PropsOf(ExcludesOf(root), root) \in Seq(Props)
<1>1. PICK s : Enumerates(s, root) /\ PropsOf(ExcludesOf(root), root) = Entries(s)
  BY GatheredIsSent
<1>2. /\ Len(s) \in Nat
      /\ \A k \in 1 .. Len(s) : s[k] \in SentProps(root)
  BY <1>1, Counted
<1>3. \A k \in 1 .. Len(s) : EntryOf(s[k]) \in Props
  <2> TAKE k \in 1 .. Len(s)
  <2>1. Last(s[k]) = s[k][Len(s[k])] /\ Last(s[k]) \in Links
    BY <1>2, SentIs
  <2>2. s[k][Len(s[k])] \in Links
    BY <2>1
  <2>3. /\ s[k][Len(s[k])][1] \in DOMAIN s_DataTables
        /\ s[k][Len(s[k])][2] \in DOMAIN s_DataTables[s[k][Len(s[k])][1]].props
    BY <2>2, LinkIs
  <2> QED
    BY <2>3 DEF EntryOf
<1>4. Entries(s) = [k \in 1 .. Len(s) |-> EntryOf(s[k])]
  BY DEF Entries
<1> QED
  BY <1>1, <1>2, <1>3, <1>4
-----------------------------------------------------------------------------
(* The sort may start with any props.                                      *)
LEMMA StartInv ==
    ASSUME NEW props \in Seq(Props), StartSort(props) PROVE SortInv'
<1> DEFINE n == Len(props)
<1>1. /\ flattenedProps' = props /\ gathered' = props /\ start' = 0 /\ sorting' = TRUE
      /\ priorities' = {CHANGES_OFTEN_PRIORITY} \union PrioritiesOf(props)
  BY DEF StartSort
<1>2. n \in Nat /\ DOMAIN props = 1 .. n /\ \A i \in 1 .. n : props[i] \in Props
  BY ElementOfSeq
<1>3. priorities' \subseteq Nat
  BY <1>1, <1>2, PropsAssumption DEF PrioritiesOf, CHANGES_OFTEN_PRIORITY
<1>4. SortTypeOK'
  BY <1>1, <1>2, <1>3 DEF SortTypeOK
<1>5. Permuted'
  <2> DEFINE id == [i \in 1 .. n |-> i]
  <2>1. id \in Bijections(n)
    BY <1>2 DEF Bijections
  <2>2. \A i \in 1 .. n : props[i] = props[id[i]]
    OBVIOUS
  <2> QED BY <1>1, <1>2, <2>1, <2>2 DEF Permuted
<1>6. Partial'
  <2>1. 1 .. start' = {} /\ Left' = 1 .. n
    BY <1>1, <1>2 DEF Left
  <2>2. \A i \in 1 .. n : Rank(props[i]) \in priorities'
    BY <1>1, <1>2 DEF Rank, PrioritiesOf
  <2> QED BY <1>1, <2>1, <2>2 DEF Partial
<1> QED BY <1>1, <1>4, <1>5, <1>6 DEF SortInv, Finished
-----------------------------------------------------------------------------
ListOf(root) == PropsOf(ExcludesOf(root), root)
RootOf(k) == GetTableByName(recording.classes[k].strDTName)

(* The tables read are the first of the recording.                         *)
TablesRead ==
    /\ recording \in Recordings
    /\ Len(s_DataTables) \in 0 .. Len(recording.tables)
    /\ s_DataTables = [k \in 1 .. Len(s_DataTables) |-> recording.tables[k]]
    /\ pc \in {"classes", "flatten", "done"} =>
          s_DataTables = recording.tables /\ recording.is_end

(* And so are the classes, each with the table of its name.                *)
ClassesRead ==
    /\ Len(s_ServerClasses) \in 0 .. nServerClasses
    /\ s_ServerClasses =
          [k \in 1 .. Len(s_ServerClasses) |->
              [nClassID |-> recording.classes[k].nClassID, nDataTable |-> RootOf(k),
               flattenedProps |-> s_ServerClasses[k].flattenedProps]]
    /\ \A k \in 1 .. Len(s_ServerClasses) : recording.classes[k].nClassID < nServerClasses
    /\ pc = "tables" => Len(s_ServerClasses) = 0
    /\ pc \in {"flatten", "done"} => Len(s_ServerClasses) = nServerClasses

(* The classes up to nServerClass have their props, the others none.       *)
ClassesFlattened ==
    /\ nServerClass \in 0 .. Len(s_ServerClasses)
    /\ nServerClass > 0 => pc \in {"flatten", "done", "undefined"}
    /\ \A k \in 1 .. Len(s_ServerClasses) :
          k > nServerClass => s_ServerClasses[k].flattenedProps = <<>>
    /\ \A k \in 1 .. nServerClass :
          /\ RootOf(k) # 0
          /\ s_ServerClasses[k].flattenedProps \in Seq(Props)
          /\ InRankOrder(s_ServerClasses[k].flattenedProps)
          /\ Rearranged(s_ServerClasses[k].flattenedProps, ListOf(RootOf(k)))
          /\ Len(s_ServerClasses[k].flattenedProps) = Len(ListOf(RootOf(k)))

(* The class behind them is the one that is sorted.                        *)
ClassSorted ==
    /\ SortInv
    /\ sorting =>
          /\ pc = "flatten" /\ nServerClass < nServerClasses
          /\ RootOf(nServerClass + 1) # 0
          /\ gathered = ListOf(RootOf(nServerClass + 1))

Parsed ==
    /\ pc \in {"tables", "classes", "flatten", "done", "failed", "abort", "undefined"}
    /\ s_nServerClassBits \in Nat
    /\ pc = "done" =>
          /\ nServerClass = nServerClasses
          /\ s_nServerClassBits = ClassBits(nServerClasses)

IInv == TablesRead /\ ClassesRead /\ ClassesFlattened /\ ClassSorted /\ Parsed /\ SoundIsParsed
-----------------------------------------------------------------------------
(* While the tables stay, so do the props of a table,                      *)
LEMMA SameList ==
    ASSUME s_DataTables' = s_DataTables, NEW root PROVE ListOf(root)' = ListOf(root)
  BY SMT DEF ListOf, ExcludesOf, GatherExcludes, GetTableByName, SubTables, Depths, PropsOf,
               GatherProps, GatherProps_IterateProps, OfProp, Skipped, IsPropExcluded

(* the table of a class,                                                   *)
LEMMA SameRoots ==
    ASSUME s_DataTables' = s_DataTables, recording' = recording
    PROVE  \A k : RootOf(k)' = RootOf(k)
  BY DEF RootOf, GetTableByName

(* and what the recording is.                                              *)
LEMMA SameSound == ASSUME recording' = recording PROVE Sound(recording)' = Sound(recording)
  BY DEF Sound

(* What is known of the recording.                                         *)
LEMMA RecordingIs ==
    ASSUME recording \in Recordings
    PROVE  /\ IsRecording(recording)
           /\ Len(recording.tables) \in Nat /\ nServerClasses \in Nat /\ nServerClasses < 2^15
           /\ recording.tables = [k \in 1 .. Len(recording.tables) |-> recording.tables[k]]
           /\ DOMAIN recording.classes = 1 .. nServerClasses
           /\ DOMAIN recording.tables = 1 .. Len(recording.tables)
           /\ recording.is_end \in BOOLEAN
           /\ \A k \in 1 .. nServerClasses : recording.classes[k].nClassID \in Int
<1>1. IsRecording(recording)
  BY RecordingsAssumption
<1>2. IsSequence(recording.tables) /\ IsSequence(recording.classes)
  BY <1>1 DEF IsRecording
<1>3. /\ Len(recording.tables) \in Nat /\ nServerClasses \in Nat
      /\ recording.tables = [k \in 1 .. Len(recording.tables) |-> recording.tables[k]]
      /\ recording.classes = [k \in 1 .. nServerClasses |-> recording.classes[k]]
  BY <1>2 DEF IsSequence, nServerClasses
<1>4. DOMAIN recording.classes = 1 .. nServerClasses
  BY <1>3
<1>5. DOMAIN recording.tables = 1 .. Len(recording.tables)
  BY <1>3
<1> QED BY <1>1, <1>3, <1>4, <1>5 DEF IsRecording, nServerClasses

(* The tables that were read are fit to be gathered.                       *)
LEMMA ReadTablesSane ==
    ASSUME TablesRead
    PROVE  /\ TablesSane
           /\ DOMAIN s_DataTables = 1 .. Len(s_DataTables) /\ Len(s_DataTables) \in Nat
           /\ \A t \in DOMAIN s_DataTables : \A i \in DOMAIN s_DataTables[t].props :
                 FlattenedPropEntry(s_DataTables[t], i) \in Props
           /\ Sound(recording) => \A t \in DOMAIN s_DataTables : ElementsInFront(s_DataTables[t])
<1>1. /\ recording \in Recordings
      /\ Len(s_DataTables) \in 0 .. Len(recording.tables)
      /\ s_DataTables = [k \in 1 .. Len(s_DataTables) |-> recording.tables[k]]
  BY DEF TablesRead
<1>2. /\ IsRecording(recording) /\ Len(recording.tables) \in Nat
      /\ DOMAIN recording.tables = 1 .. Len(recording.tables)
  BY <1>1, RecordingIs
<1>3. Len(s_DataTables) \in Nat /\ \A t \in 1 .. Len(s_DataTables) : t \in DOMAIN recording.tables
  BY <1>1, <1>2
<1>4. DOMAIN s_DataTables = 1 .. Len(s_DataTables)
  BY <1>1
<1>5. \A t \in 1 .. Len(s_DataTables) : s_DataTables[t] = recording.tables[t]
  BY <1>1
<1>6. IsSequence(s_DataTables)
  BY <1>1, <1>3, <1>5 DEF IsSequence
<1>7. /\ \A t \in DOMAIN recording.tables : IsSequence(recording.tables[t].props)
      /\ \A t \in DOMAIN recording.tables : \A i \in DOMAIN recording.tables[t].props :
                 FlattenedPropEntry(recording.tables[t], i) \in Props
  BY <1>2 DEF IsRecording
<1>8. Sound(recording) => \A t \in DOMAIN recording.tables : ElementsInFront(recording.tables[t])
  BY DEF Sound
<1>9. TablesSane
  BY <1>3, <1>5, <1>6, <1>7 DEF TablesSane
<1> QED BY <1>3, <1>4, <1>5, <1>7, <1>8, <1>9
-----------------------------------------------------------------------------
(* The parser starts with the invariant.                                   *)
LEMMA InitInv == Init => IInv
<1> SUFFICES ASSUME Init PROVE IInv
  OBVIOUS
<1>1. /\ recording \in Recordings /\ s_DataTables = <<>> /\ s_ServerClasses = <<>>
      /\ s_nServerClassBits = 0 /\ nServerClass = 0 /\ pc = "tables"
      /\ flattenedProps = <<>> /\ gathered = <<>> /\ priorities = {} /\ start = 0
      /\ sorting = FALSE
  BY DEF Init
<1>2. /\ Len(recording.tables) \in Nat /\ nServerClasses \in Nat
  BY <1>1, RecordingIs
<1>3. Len(s_DataTables) = 0 /\ Len(s_ServerClasses) = 0
  BY <1>1
<1>4. TablesRead
  <2>1. s_DataTables = [k \in 1 .. Len(s_DataTables) |-> recording.tables[k]]
    BY <1>1, <1>3
  <2> QED BY <1>1, <1>2, <1>3, <2>1 DEF TablesRead
<1>5. ClassesRead
  <2>1. s_ServerClasses =
          [k \in 1 .. Len(s_ServerClasses) |->
              [nClassID |-> recording.classes[k].nClassID, nDataTable |-> RootOf(k),
               flattenedProps |-> s_ServerClasses[k].flattenedProps]]
    BY <1>1, <1>3
  <2> QED BY <1>1, <1>2, <1>3, <2>1 DEF ClassesRead
<1>6. ClassesFlattened
  BY <1>1, <1>3 DEF ClassesFlattened
<1>7. SortInv
  <2>1. SortTypeOK
    <3>1. <<>> \in Seq(Props) /\ Len(<<>>) = 0
      OBVIOUS
    <3>2. flattenedProps \in Seq(Props) /\ gathered \in Seq(Props) /\ Len(flattenedProps) = 0
      BY <1>1, <3>1
    <3>3. start \in 0 .. Len(flattenedProps)
      BY <1>1, <3>2
    <3>4. priorities \subseteq Nat
      BY <1>1
    <3>5. sorting \in BOOLEAN
      BY <1>1
    <3> QED BY <3>2, <3>3, <3>4, <3>5 DEF SortTypeOK
  <2>2. Permuted
    <3>1. Len(gathered) = 0 /\ Len(flattenedProps) = 0
      BY <1>1
    <3> DEFINE f == [i \in 1 .. 0 |-> i]
    <3>2. f \in Bijections(0)
      BY DEF Bijections
    <3> QED BY <3>1, <3>2 DEF Permuted
  <2>3. Partial
    BY <1>1 DEF Partial, Left
  <2> QED BY <1>1, <2>1, <2>2, <2>3 DEF SortInv, Finished
<1>8. ClassSorted
  BY <1>1, <1>7 DEF ClassSorted
<1>9. Parsed /\ SoundIsParsed
  BY <1>1 DEF Parsed, SoundIsParsed
<1> QED BY <1>4, <1>5, <1>6, <1>8, <1>9 DEF IInv
(* What a step changes of the parser and of the sort.                      *)
LEMMA SameRead ==
    ASSUME TablesRead, UNCHANGED <<recording, s_DataTables, pc>> PROVE TablesRead'
BY DEF TablesRead

(* The classes stay.                                                       *)
LEMMA SameClasses ==
    ASSUME ClassesRead, UNCHANGED <<recording, s_DataTables, s_ServerClasses, pc>>
    PROVE  ClassesRead'
<1>1. \A k : RootOf(k)' = RootOf(k)
  BY SameRoots
<1>2. nServerClasses' = nServerClasses
  BY DEF nServerClasses
<1> QED BY <1>1, <1>2 DEF ClassesRead

(* The classes that are flattened stay so while the tables stay the same.  *)
LEMMA SameFlattened ==
    ASSUME ClassesFlattened,
           UNCHANGED <<recording, s_DataTables, s_ServerClasses, nServerClass>>,
           nServerClass > 0 => pc' \in {"flatten", "done", "undefined"}
    PROVE  ClassesFlattened'
<1>1. \A k : RootOf(k)' = RootOf(k)
  BY SameRoots
<1>2. \A k \in 1 .. nServerClass : ListOf(RootOf(k))' = ListOf(RootOf(k))
  <2> TAKE k \in 1 .. nServerClass
  <2>1. ListOf(RootOf(k))' = ListOf(RootOf(k))
    BY <1>1, SameList
  <2> QED BY <2>1
<1> QED BY <1>1, <1>2 DEF ClassesFlattened, InRankOrder, Rearranged
-----------------------------------------------------------------------------
(* A sequence is a function.                                               *)
LEMMA SeqIs == ASSUME NEW T, NEW s \in Seq(T) PROVE s = [k \in 1 .. Len(s) |-> s[k]]
OBVIOUS

(* A sequence and one more.                                                *)
LEMMA AppendIs ==
    ASSUME NEW s, NEW e, IsSequence(s)
    PROVE  /\ Len(Append(s, e)) = Len(s) + 1
           /\ Append(s, e) = [k \in 1 .. Len(s) + 1 |-> IF k <= Len(s) THEN s[k] ELSE e]
<1> DEFINE n == Len(s)
           T == {s[k] : k \in 1 .. n} \union {e}
<1>1. n \in Nat /\ s = [k \in 1 .. n |-> s[k]]
  BY DEF IsSequence
<1>2. s \in Seq(T)
  BY <1>1
<1>3. e \in T
  OBVIOUS
<1> HIDE DEF T
<1>4. Append(s, e) \in Seq(T) /\ Len(Append(s, e)) = n + 1
  BY <1>2, <1>3
<1>5. \A k \in 1 .. n + 1 : Append(s, e)[k] = IF k <= n THEN s[k] ELSE e
  BY <1>1, <1>2, <1>3
<1>6. Append(s, e) = [k \in 1 .. n + 1 |-> Append(s, e)[k]]
  <2> DEFINE t == Append(s, e)
  <2>1. t \in Seq(T) /\ Len(t) = n + 1
    BY <1>4
  <2> HIDE DEF t
  <2>2. t = [k \in 1 .. Len(t) |-> t[k]]
    BY <2>1, SeqIs
  <2>3. t = [k \in 1 .. n + 1 |-> t[k]]
    BY <2>1, <2>2
  <2> QED BY <2>3 DEF t
<1> HIDE DEF n
<1>7. [k \in 1 .. n + 1 |-> Append(s, e)[k]] = [k \in 1 .. n + 1 |-> IF k <= n THEN s[k] ELSE e]
  BY <1>5
<1> QED BY <1>4, <1>6, <1>7 DEF n

(* While nothing is sorted and the sort stands still.                      *)
LEMMA SortStands ==
    ASSUME ClassSorted, ~sorting, UNCHANGED sortVars PROVE ClassSorted'
<1>1. SortInv'
  BY SortStutterInv DEF ClassSorted
<1>2. ~sorting'
  BY DEF sortVars
<1> QED BY <1>1, <1>2 DEF ClassSorted
-----------------------------------------------------------------------------
(* One action after the other keeps the invariant.                         *)
LEMMA ReadTableInv == ASSUME IInv, ReadTable PROVE IInv'
<1>1. /\ pc = "tables" /\ Len(s_DataTables) < Len(recording.tables)
      /\ s_DataTables' = Append(s_DataTables, recording.tables[Len(s_DataTables) + 1])
      /\ UNCHANGED <<sortVars, recording, s_ServerClasses, s_nServerClassBits, nServerClass, pc>>
  BY DEF ReadTable
<1>2. /\ TablesRead /\ ClassesRead /\ ClassesFlattened /\ ClassSorted /\ Parsed /\ SoundIsParsed
  BY DEF IInv
<1>3. /\ recording \in Recordings /\ Len(s_DataTables) \in 0 .. Len(recording.tables)
      /\ s_DataTables = [k \in 1 .. Len(s_DataTables) |-> recording.tables[k]]
  BY <1>2 DEF TablesRead
<1>4. Len(recording.tables) \in Nat
  BY <1>3, RecordingIs
<1>5. TablesRead'
  <2> DEFINE n == Len(s_DataTables)
  <2>1. n \in Nat /\ \A k \in 1 .. n : s_DataTables[k] = recording.tables[k]
    BY <1>3, <1>4
  <2>2. IsSequence(s_DataTables)
    BY <1>3, <2>1 DEF IsSequence
  <2>3. /\ Len(s_DataTables') = n + 1
        /\ s_DataTables' = [k \in 1 .. n + 1 |-> IF k <= n THEN s_DataTables[k]
                                                 ELSE recording.tables[n + 1]]
    BY <1>1, <2>2, AppendIs
  <2> HIDE DEF n
  <2>4. s_DataTables' = [k \in 1 .. n + 1 |-> recording.tables[k]]
    BY <2>1, <2>3
  <2>5. n + 1 \in 0 .. Len(recording.tables)
    BY <1>1, <1>4, <2>1 DEF n
  <2> QED BY <1>1, <1>3, <2>3, <2>4, <2>5 DEF TablesRead
<1>6. ClassesRead'
  <2>1. Len(s_ServerClasses) = 0 /\ nServerClasses \in Nat
    BY <1>1, <1>2, <1>3, RecordingIs DEF ClassesRead
  <2>2. s_ServerClasses = [k \in 1 .. Len(s_ServerClasses) |->
              [nClassID |-> recording.classes[k].nClassID, nDataTable |-> RootOf(k),
               flattenedProps |-> s_ServerClasses[k].flattenedProps]]
    BY <1>2 DEF ClassesRead
  <2>3. s_ServerClasses' = [k \in 1 .. Len(s_ServerClasses)' |->
              [nClassID |-> recording.classes[k].nClassID, nDataTable |-> RootOf(k),
               flattenedProps |-> s_ServerClasses[k].flattenedProps]']
    BY <1>1, <2>1, <2>2
  <2>4. nServerClasses' = nServerClasses
    BY <1>1 DEF nServerClasses
  <2> QED BY <1>1, <2>1, <2>3, <2>4 DEF ClassesRead
<1>7. ClassesFlattened'
  <2>1. Len(s_ServerClasses) = 0 /\ nServerClass = 0
    BY <1>1, <1>2 DEF ClassesRead, ClassesFlattened
  <2> QED BY <1>1, <2>1 DEF ClassesFlattened
<1>8. ClassSorted'
  BY <1>1, <1>2, SortStands DEF ClassSorted
<1>9. Parsed' /\ SoundIsParsed'
  <2>1. nServerClasses' = nServerClasses /\ (Sound(recording)' <=> Sound(recording))
    BY <1>1, SameSound DEF nServerClasses
  <2> QED BY <1>1, <1>2, <2>1 DEF Parsed, SoundIsParsed
<1> QED BY <1>5, <1>6, <1>7, <1>8, <1>9 DEF IInv

LEMMA EndTablesInv == ASSUME IInv, EndTables PROVE IInv'
<1>1. /\ pc = "tables" /\ Len(s_DataTables) = Len(recording.tables)
      /\ pc' \in {"classes", "failed", "abort", "undefined"}
      /\ recording.is_end /\ nServerClasses # 0 => pc' = "classes"
      /\ pc' = "classes" => recording.is_end
      /\ UNCHANGED <<sortVars, recording, s_DataTables, s_ServerClasses, s_nServerClassBits,
                     nServerClass>>
  BY DEF EndTables
<1>2. /\ TablesRead /\ ClassesRead /\ ClassesFlattened /\ ClassSorted /\ Parsed /\ SoundIsParsed
  BY DEF IInv
<1>3. /\ recording \in Recordings
      /\ recording.tables = [k \in 1 .. Len(recording.tables) |-> recording.tables[k]]
      /\ recording.is_end \in BOOLEAN
  BY <1>2, RecordingIs DEF TablesRead
<1>4. s_DataTables = recording.tables
  BY <1>1, <1>2, <1>3 DEF TablesRead
<1>5. TablesRead'
  BY <1>1, <1>2, <1>4 DEF TablesRead
<1>6. ClassesRead'
  <2>1. \A k : RootOf(k)' = RootOf(k)
    BY <1>1, SameRoots
  <2>2. nServerClasses' = nServerClasses
    BY <1>1 DEF nServerClasses
  <2> QED BY <1>1, <1>2, <2>1, <2>2 DEF ClassesRead
<1>7. ClassesFlattened'
  <2>1. nServerClass = 0
    BY <1>1, <1>2 DEF ClassesRead, ClassesFlattened
  <2> QED BY <1>1, <1>2, <2>1, SameFlattened
<1>8. ClassSorted'
  BY <1>1, <1>2, SortStands DEF ClassSorted
<1>9. Parsed' /\ SoundIsParsed'
  <2>1. nServerClasses' = nServerClasses /\ (Sound(recording)' <=> Sound(recording))
    BY <1>1, SameSound DEF nServerClasses
  <2>2. Sound(recording) => recording.is_end /\ nServerClasses # 0
    BY DEF Sound, nServerClasses
  <2> QED BY <1>1, <1>2, <2>1, <2>2 DEF Parsed, SoundIsParsed
<1> QED BY <1>5, <1>6, <1>7, <1>8, <1>9 DEF IInv
-----------------------------------------------------------------------------
LEMMA ReadServerClassInv == ASSUME IInv, ReadServerClass PROVE IInv'
<1> DEFINE n == Len(s_ServerClasses)
           class == [nClassID |-> recording.classes[n + 1].nClassID, nDataTable |-> RootOf(n + 1),
                     flattenedProps |-> <<>>]
<1>1. /\ pc = "classes" /\ n < nServerClasses
      /\ IF recording.classes[n + 1].nClassID >= nServerClasses
         THEN pc' = "failed" /\ s_ServerClasses' = s_ServerClasses
         ELSE s_ServerClasses' = Append(s_ServerClasses, class) /\ pc' = pc
      /\ UNCHANGED <<sortVars, recording, s_DataTables, s_nServerClassBits, nServerClass>>
  BY DEF ReadServerClass, InvalidClassIndex, RootOf
<1>2. /\ TablesRead /\ ClassesRead /\ ClassesFlattened /\ ClassSorted /\ Parsed /\ SoundIsParsed
  BY DEF IInv
<1>3. /\ recording \in Recordings /\ nServerClasses \in Nat
      /\ \A k \in 1 .. nServerClasses : recording.classes[k].nClassID \in Int
      /\ DOMAIN recording.classes = 1 .. nServerClasses
  BY <1>2, RecordingIs DEF TablesRead
<1>4. TablesRead'
  BY <1>1, <1>2 DEF TablesRead
<1>5. /\ \A k : RootOf(k)' = RootOf(k)
      /\ nServerClasses' = nServerClasses
      /\ Sound(recording)' <=> Sound(recording)
  BY <1>1, SameRoots, SameSound DEF nServerClasses
<1>6. n \in Nat /\ n + 1 \in 1 .. nServerClasses /\ n \in 0 .. nServerClasses
  BY <1>1, <1>2, <1>3 DEF ClassesRead
<1>7. nServerClass = 0
  BY <1>1, <1>2 DEF ClassesFlattened
<1>8. ClassSorted'
  BY <1>1, <1>2, SortStands DEF ClassSorted
<1>9. CASE recording.classes[n + 1].nClassID >= nServerClasses
  <2>1. pc' = "failed" /\ s_ServerClasses' = s_ServerClasses
    BY <1>1, <1>9
  <2>2. ClassesRead'
    BY <1>1, <1>2, <1>5, <2>1 DEF ClassesRead
  <2>3. ClassesFlattened'
    BY <1>1, <1>2, <1>7, <2>1, SameFlattened
  <2>4. ~Sound(recording)
    <3>1. Sound(recording) => recording.classes[n + 1].nClassID = n
      BY <1>3, <1>6 DEF Sound
    <3> QED BY <1>3, <1>6, <1>9, <3>1
  <2>5. Parsed' /\ SoundIsParsed'
    BY <1>1, <1>2, <1>5, <2>1, <2>4 DEF Parsed, SoundIsParsed
  <2> QED BY <1>4, <1>8, <2>2, <2>3, <2>5 DEF IInv
<1>10. CASE ~(recording.classes[n + 1].nClassID >= nServerClasses)
  <2>1. pc' = pc /\ s_ServerClasses' = Append(s_ServerClasses, class)
    BY <1>1, <1>10
  <2>2. /\ s_ServerClasses =
              [k \in 1 .. n |->
                  [nClassID |-> recording.classes[k].nClassID, nDataTable |-> RootOf(k),
                   flattenedProps |-> s_ServerClasses[k].flattenedProps]]
        /\ \A k \in 1 .. n : recording.classes[k].nClassID < nServerClasses
    BY <1>2 DEF ClassesRead
  <2> HIDE DEF class, n
  <2>3. \A k \in 1 .. n :
            s_ServerClasses[k] = [nClassID |-> recording.classes[k].nClassID, nDataTable |-> RootOf(k),
                                  flattenedProps |-> s_ServerClasses[k].flattenedProps]
    BY <2>2
  <2>4. IsSequence(s_ServerClasses)
    <3>1. DOMAIN s_ServerClasses = 1 .. n
      BY <2>2
    <3>2. s_ServerClasses = [k \in 1 .. n |-> s_ServerClasses[k]]
      BY <2>2, <2>3
    <3> QED BY <1>6, <3>2 DEF IsSequence, n
  <2>5. /\ Len(s_ServerClasses)' = n + 1
        /\ s_ServerClasses' = [k \in 1 .. n + 1 |-> IF k <= n THEN s_ServerClasses[k] ELSE class]
    BY <2>1, <2>4, AppendIs DEF n
  <2>6. \A k \in 1 .. n + 1 :
            s_ServerClasses'[k] = [nClassID |-> recording.classes[k].nClassID, nDataTable |-> RootOf(k),
                                   flattenedProps |-> s_ServerClasses'[k].flattenedProps]
    <3> TAKE k \in 1 .. n + 1
    <3>1. CASE k \in 1 .. n
      BY <1>6, <2>3, <2>5, <3>1
    <3>2. CASE k = n + 1
      BY <1>6, <2>5, <3>2 DEF class
    <3> QED BY <1>6, <3>1, <3>2
  <2>7. \A k \in 1 .. n + 1 : s_ServerClasses'[k].flattenedProps = <<>>
    <3> TAKE k \in 1 .. n + 1
    <3>1. CASE k \in 1 .. n
      <4>1. k > nServerClass /\ k \in 1 .. Len(s_ServerClasses)
        BY <1>6, <1>7, <3>1 DEF n
      <4>2. s_ServerClasses[k].flattenedProps = <<>>
        BY <1>2, <4>1 DEF ClassesFlattened
      <4> QED BY <1>6, <2>5, <3>1, <4>2
    <3>2. CASE k = n + 1
      BY <1>6, <2>5, <3>2 DEF class
    <3> QED BY <1>6, <3>1, <3>2
  <2>8. ClassesRead'
    <3>1. s_ServerClasses' =
              [k \in 1 .. n + 1 |->
                  [nClassID |-> recording.classes[k].nClassID, nDataTable |-> RootOf(k),
                   flattenedProps |-> s_ServerClasses'[k].flattenedProps]]
      BY <2>5, <2>6
    <3>2. \A k \in 1 .. n + 1 : recording.classes[k].nClassID < nServerClasses
      <4>1. recording.classes[n + 1].nClassID < nServerClasses
        BY <1>3, <1>6, <1>10
      <4>2. \A k \in 1 .. n + 1 : k \in 1 .. n \/ k = n + 1
        BY <1>6
      <4> QED BY <2>2, <4>1, <4>2
    <3>3. n + 1 \in 0 .. nServerClasses
      BY <1>6
    <3> QED BY <1>1, <1>5, <2>1, <2>5, <3>1, <3>2, <3>3 DEF ClassesRead
  <2>9. ClassesFlattened'
    BY <1>1, <1>6, <1>7, <2>5, <2>7 DEF ClassesFlattened
  <2>10. Parsed' /\ SoundIsParsed'
    BY <1>1, <1>2, <1>5, <2>1 DEF Parsed, SoundIsParsed
  <2> QED BY <1>4, <1>8, <2>8, <2>9, <2>10 DEF IInv
<1> QED BY <1>9, <1>10

LEMMA EndClassesInv == ASSUME IInv, EndClasses PROVE IInv'
<1>1. /\ pc = "classes" /\ Len(s_ServerClasses) = nServerClasses /\ pc' = "flatten"
      /\ UNCHANGED <<sortVars, recording, s_DataTables, s_ServerClasses, s_nServerClassBits,
                     nServerClass>>
  BY DEF EndClasses
<1>2. /\ TablesRead /\ ClassesRead /\ ClassesFlattened /\ ClassSorted /\ Parsed /\ SoundIsParsed
  BY DEF IInv
<1>3. /\ \A k : RootOf(k)' = RootOf(k)
      /\ nServerClasses' = nServerClasses
      /\ Sound(recording)' <=> Sound(recording)
  BY <1>1, SameRoots, SameSound DEF nServerClasses
<1>4. TablesRead' /\ ClassesRead'
  BY <1>1, <1>2, <1>3 DEF TablesRead, ClassesRead
<1>5. ClassesFlattened'
  BY <1>1, <1>2, SameFlattened
<1>6. ClassSorted'
  BY <1>1, <1>2, SortStands DEF ClassSorted
<1>7. Parsed' /\ SoundIsParsed'
  BY <1>1, <1>2, <1>3 DEF Parsed, SoundIsParsed
<1> QED BY <1>4, <1>5, <1>6, <1>7 DEF IInv
-----------------------------------------------------------------------------
(* The class that is next has its table, and no props.                     *)
LEMMA NextClass ==
    ASSUME IInv, pc = "flatten", nServerClass < nServerClasses
    PROVE  /\ nServerClass + 1 \in 1 .. Len(s_ServerClasses)
           /\ s_ServerClasses[nServerClass + 1].nDataTable = RootOf(nServerClass + 1)
           /\ nServerClass + 1 > nServerClass
           /\ nServerClass \in Nat
<1>1. nServerClass \in 0 .. Len(s_ServerClasses) /\ Len(s_ServerClasses) = nServerClasses
  BY DEF IInv, ClassesFlattened, ClassesRead
<1>2. nServerClasses \in Nat
  BY RecordingIs DEF IInv, TablesRead
<1>3. nServerClass + 1 \in 1 .. Len(s_ServerClasses)
  BY <1>1, <1>2
<1>4. s_ServerClasses =
          [k \in 1 .. Len(s_ServerClasses) |->
              [nClassID |-> recording.classes[k].nClassID, nDataTable |-> RootOf(k),
               flattenedProps |-> s_ServerClasses[k].flattenedProps]]
  BY DEF IInv, ClassesRead
<1> QED BY <1>1, <1>2, <1>3, <1>4

(* The table of a name, and what is gathered for it.                       *)
LEMMA ListTyped ==
    ASSUME TablesRead, NEW k, RootOf(k) # 0
    PROVE  /\ RootOf(k) \in DOMAIN s_DataTables
           /\ ListOf(RootOf(k)) \in Seq(Props)
<1>1. /\ TablesSane
      /\ \A t \in DOMAIN s_DataTables : \A i \in DOMAIN s_DataTables[t].props :
             FlattenedPropEntry(s_DataTables[t], i) \in Props
  BY ReadTablesSane
<1>2. RootOf(k) \in DOMAIN s_DataTables
  BY <1>1, ByName DEF RootOf
<1> QED BY <1>1, <1>2, GatheredTyped DEF ListOf

(* In a sound recording every class has its table, and no array of a table *)
(* is without its elements.                                                *)
LEMMA SoundList ==
    ASSUME TablesRead, Sound(recording), s_DataTables = recording.tables,
           NEW k \in 1 .. nServerClasses
    PROVE  /\ RootOf(k) # 0
           /\ ~ReadsInFront(ListOf(RootOf(k)))
<1>1. /\ TablesSane
      /\ \A t \in DOMAIN s_DataTables : ElementsInFront(s_DataTables[t])
  BY ReadTablesSane
<1>2. k \in DOMAIN recording.classes
  BY RecordingIs DEF TablesRead
<1>3. \E j \in DOMAIN s_DataTables : s_DataTables[j].net_table_name = recording.classes[k].strDTName
  BY <1>2 DEF Sound
<1>4. RootOf(k) # 0 /\ RootOf(k) \in DOMAIN s_DataTables
  BY <1>1, <1>3, ByName DEF RootOf
<1> QED BY <1>1, <1>4, GatheredRight DEF ListOf

(* The greatest of some of 0 to 15.                                        *)
LEMMA MaxOfBits ==
    ASSUME NEW A \in SUBSET (0 .. 15), A # {}
    PROVE  Max(A) \in A /\ \A y \in A : Max(A) >= y
<1> DEFINE B == {15 - b : b \in A}
<1>1. B \in SUBSET Nat /\ B # {}
  OBVIOUS
<1> HIDE DEF B
<1>2. Min(B) \in B /\ \A y \in B : Min(B) <= y
  BY <1>1, MinIs
<1> DEFINE m == Min(B)
<1> HIDE DEF m
<1>3. m \in B /\ \A y \in B : m <= y
  BY <1>2 DEF m
<1>4. PICK a \in A : m = 15 - a
  BY <1>3 DEF B
<1>5. \A y \in A : 15 - y \in B /\ m <= 15 - y
  BY <1>3 DEF B
<1>6. \A y \in A : a >= y
  BY <1>4, <1>5
<1> QED BY <1>6 DEF Max

LEMMA FlattenDataTableInv == ASSUME IInv, FlattenDataTable PROVE IInv'
<1> DEFINE k == nServerClass + 1
           root == RootOf(k)
<1>1. /\ pc = "flatten" /\ ~sorting /\ nServerClass < nServerClasses
      /\ UNCHANGED <<recording, s_DataTables, s_ServerClasses, s_nServerClassBits, nServerClass>>
  BY DEF FlattenDataTable
<1>2. /\ TablesRead /\ ClassesRead /\ ClassesFlattened /\ ClassSorted /\ Parsed /\ SoundIsParsed
  BY DEF IInv
<1>3. /\ nServerClass \in Nat /\ k \in 1 .. Len(s_ServerClasses) /\ k > nServerClass
      /\ s_ServerClasses[k].nDataTable = root
  BY <1>1, NextClass
<1>4. s_ServerClasses[k].flattenedProps = <<>>
  BY <1>2, <1>3 DEF ClassesFlattened
<1>5. IF root = 0 \/ ReadsInFront(<<>> \o ListOf(root))
      THEN pc' = "undefined" /\ UNCHANGED sortVars
      ELSE StartSort(<<>> \o ListOf(root)) /\ pc' = pc
  <2> HIDE DEF k, root
  <2> QED BY <1>3, <1>4 DEF FlattenDataTable, ClearedExcludes, ListOf, k
<1>6. root # 0 => <<>> \o ListOf(root) = ListOf(root) /\ ListOf(root) \in Seq(Props)
  <2>1. root # 0 => ListOf(root) \in Seq(Props)
    BY <1>2, ListTyped
  <2> HIDE DEF root
  <2> QED BY <2>1
<1>7. /\ \A i : RootOf(i)' = RootOf(i)
      /\ nServerClasses' = nServerClasses
      /\ Sound(recording)' <=> Sound(recording)
      /\ nServerClass' = nServerClass
  BY <1>1, SameRoots, SameSound DEF nServerClasses
<1>8. s_DataTables = recording.tables /\ recording.is_end /\ Len(s_ServerClasses) = nServerClasses
  BY <1>1, <1>2 DEF TablesRead, ClassesRead
<1>9. pc' \in {"flatten", "undefined"}
  BY <1>1, <1>5
<1>10. TablesRead' /\ ClassesRead' /\ Parsed'
  <2>1. TablesRead'
    BY <1>1, <1>2, <1>8, <1>9 DEF TablesRead
  <2>2. ClassesRead'
    BY <1>1, <1>2, <1>7, <1>8, <1>9 DEF ClassesRead
  <2>3. Parsed'
    BY <1>1, <1>2, <1>7, <1>9 DEF Parsed
  <2> QED BY <2>1, <2>2, <2>3
<1>11. ClassesFlattened'
  BY <1>1, <1>2, <1>9, SameFlattened
<1>12. CASE root = 0 \/ ReadsInFront(<<>> \o ListOf(root))
  <2>1. pc' = "undefined" /\ UNCHANGED sortVars
    BY <1>5, <1>12
  <2>2. ClassSorted'
    BY <1>1, <1>2, <2>1, SortStands
  <2>3. ~Sound(recording)
    <3>1. ASSUME Sound(recording) PROVE root # 0 /\ ~ReadsInFront(ListOf(root))
      <4>1. k \in 1 .. nServerClasses
        BY <1>3, <1>8
      <4> QED BY <1>2, <1>8, <3>1, <4>1, SoundList
    <3> QED BY <1>6, <1>12, <3>1
  <2>4. SoundIsParsed'
    BY <1>7, <2>3 DEF SoundIsParsed
  <2> QED BY <1>10, <1>11, <2>2, <2>4 DEF IInv
<1>13. CASE ~(root = 0 \/ ReadsInFront(<<>> \o ListOf(root)))
  <2>1. root # 0 /\ ListOf(root) \in Seq(Props) /\ StartSort(ListOf(root)) /\ pc' = pc
    BY <1>5, <1>6, <1>13
  <2>2. SortInv'
    BY <2>1, StartInv
  <2>3. gathered' = ListOf(root)
    BY <2>1 DEF StartSort
  <2>4. ListOf(RootOf(nServerClass + 1))' = ListOf(RootOf(nServerClass + 1))
    <3>1. RootOf(nServerClass + 1)' = RootOf(nServerClass + 1)
      BY <1>7
    <3> QED BY <1>1, <3>1, SameList
  <2>5. RootOf(nServerClass + 1)' # 0
    BY <1>7, <2>1
  <2>6. ClassSorted'
    BY <1>1, <1>7, <2>1, <2>2, <2>3, <2>4, <2>5 DEF ClassSorted
  <2>7. SoundIsParsed'
    BY <1>1, <1>7, <2>1 DEF SoundIsParsed
  <2> QED BY <1>10, <1>11, <2>6, <2>7 DEF IInv
<1> QED BY <1>12, <1>13

LEMMA EndParseInv == ASSUME IInv, EndParse PROVE IInv'
<1>1. /\ pc = "flatten" /\ ~sorting /\ nServerClass = nServerClasses
      /\ s_nServerClassBits' = ClassBits(nServerClasses) /\ pc' = "done"
      /\ UNCHANGED <<sortVars, recording, s_DataTables, s_ServerClasses, nServerClass>>
  BY DEF EndParse
<1>2. /\ TablesRead /\ ClassesRead /\ ClassesFlattened /\ ClassSorted /\ Parsed /\ SoundIsParsed
  BY DEF IInv
<1>3. /\ \A k : RootOf(k)' = RootOf(k)
      /\ nServerClasses' = nServerClasses
      /\ Sound(recording)' <=> Sound(recording)
  BY <1>1, SameRoots, SameSound DEF nServerClasses
<1>4. TablesRead' /\ ClassesRead'
  BY <1>1, <1>2, <1>3 DEF TablesRead, ClassesRead
<1>5. ClassesFlattened'
  BY <1>1, <1>2, SameFlattened
<1>6. ClassSorted'
  BY <1>1, <1>2, SortStands
<1>7. nServerClasses \in Nat
  BY <1>2, RecordingIs DEF TablesRead
<1>8. ClassBits(nServerClasses) \in Nat
  <2> DEFINE A == {b \in 0 .. 15 : 2^b <= nServerClasses} \union {0}
  <2>1. A \in SUBSET (0 .. 15) /\ A # {}
    OBVIOUS
  <2> HIDE DEF A
  <2>2. Max(A) \in A
    BY <2>1, MaxOfBits
  <2>3. ClassBits(nServerClasses) = Max(A) + 1
    BY DEF ClassBits, A
  <2>4. Max(A) \in 0 .. 15
    BY <2>1, <2>2
  <2> QED BY <2>3, <2>4
<1>9. Parsed' /\ SoundIsParsed'
  <2>1. ClassBits(nServerClasses)' = ClassBits(nServerClasses)
    BY <1>3 DEF ClassBits
  <2> QED BY <1>1, <1>2, <1>3, <1>8, <2>1 DEF Parsed, SoundIsParsed
<1> QED BY <1>4, <1>5, <1>6, <1>9 DEF IInv
-----------------------------------------------------------------------------
(* A class gets its props.                                                 *)
LEMMA WithProps ==
    ASSUME NEW class, NEW id, NEW root, NEW old, NEW new,
           class = [nClassID |-> id, nDataTable |-> root, flattenedProps |-> old]
    PROVE  [class EXCEPT !.flattenedProps = new] =
              [nClassID |-> id, nDataTable |-> root, flattenedProps |-> new]
OBVIOUS

LEMMA SortPropsInv == ASSUME IInv, SortProps PROVE IInv'
<1> DEFINE c == nServerClass + 1
<1>1. /\ sorting /\ SortStep
      /\ IF sorting'
         THEN s_ServerClasses' = s_ServerClasses /\ nServerClass' = nServerClass
         ELSE /\ s_ServerClasses' = [s_ServerClasses EXCEPT ![c].flattenedProps = flattenedProps]
              /\ nServerClass' = c
      /\ UNCHANGED <<recording, s_DataTables, s_nServerClassBits, pc>>
  BY DEF SortProps
<1>2. /\ TablesRead /\ ClassesRead /\ ClassesFlattened /\ ClassSorted /\ Parsed /\ SoundIsParsed
  BY DEF IInv
<1>3. /\ pc = "flatten" /\ nServerClass < nServerClasses /\ RootOf(c) # 0
      /\ gathered = ListOf(RootOf(c)) /\ SortInv
  BY <1>1, <1>2 DEF ClassSorted
<1>4. SortInv' /\ gathered' = gathered
  <2>1. SortInv'
    BY <1>1, <1>3, SortStepInv
  <2>2. gathered' = gathered
    BY <1>1 DEF SortStep, TakeProp, NextPriority, EndSort
  <2> QED BY <2>1, <2>2
<1>5. /\ \A k : RootOf(k)' = RootOf(k)
      /\ nServerClasses' = nServerClasses
      /\ Sound(recording)' <=> Sound(recording)
  BY <1>1, SameRoots, SameSound DEF nServerClasses
<1>6. /\ nServerClass \in Nat /\ c \in 1 .. Len(s_ServerClasses)
      /\ Len(s_ServerClasses) = nServerClasses /\ nServerClasses \in Nat
  <2>1. nServerClasses \in Nat
    BY <1>2, RecordingIs DEF TablesRead
  <2> QED BY <1>2, <1>3, <2>1, NextClass DEF ClassesRead
<1>7. TablesRead' /\ SoundIsParsed'
  BY <1>1, <1>2, <1>5 DEF TablesRead, SoundIsParsed
<1>8. Parsed'
  BY <1>1, <1>2, <1>3, <1>5 DEF Parsed
<1>9. CASE sorting'
  <2>1. s_ServerClasses' = s_ServerClasses /\ nServerClass' = nServerClass
    BY <1>1, <1>9
  <2>2. ClassesRead'
    BY <1>1, <1>2, <2>1, SameClasses
  <2>3. ClassesFlattened'
    BY <1>1, <1>2, <1>3, <2>1, SameFlattened
  <2>4. ListOf(RootOf(nServerClass + 1))' = ListOf(RootOf(nServerClass + 1))
    <3>1. RootOf(nServerClass + 1)' = RootOf(nServerClass + 1)
      BY <1>5, <2>1
    <3> QED BY <1>1, <3>1, SameList
  <2>5. RootOf(nServerClass + 1)' # 0
    BY <1>3, <1>5, <2>1
  <2>6. ClassSorted'
    BY <1>1, <1>3, <1>4, <1>5, <2>1, <2>4, <2>5 DEF ClassSorted
  <2> QED BY <1>7, <1>8, <2>2, <2>3, <2>6 DEF IInv
<1>10. CASE ~sorting'
  <2>1. /\ s_ServerClasses' = [s_ServerClasses EXCEPT ![c].flattenedProps = flattenedProps]
        /\ nServerClass' = c
    BY <1>1, <1>10
  <2>2. flattenedProps' = flattenedProps
    BY <1>1, <1>10 DEF SortStep, TakeProp, NextPriority, EndSort
  <2>3. /\ flattenedProps \in Seq(Props)
        /\ Len(flattenedProps) = Len(ListOf(RootOf(c)))
        /\ Rearranged(flattenedProps, ListOf(RootOf(c)))
    <3>1. SortTypeOK /\ Permuted
      BY <1>3 DEF SortInv
    <3> QED BY <1>3, <3>1 DEF SortTypeOK, Permuted, Rearranged
  <2>4. InRankOrder(flattenedProps)
    <3>1. priorities = {}
      BY <1>1, <1>10 DEF SortStep, TakeProp, NextPriority, EndSort
    <3> QED BY <1>3, <3>1, NoneLeft
  <2>5. s_ServerClasses =
          [k \in 1 .. Len(s_ServerClasses) |->
              [nClassID |-> recording.classes[k].nClassID, nDataTable |-> RootOf(k),
               flattenedProps |-> s_ServerClasses[k].flattenedProps]]
    BY <1>2 DEF ClassesRead
  <2> DEFINE n == Len(s_ServerClasses)
             props(k) == IF k = c THEN flattenedProps ELSE s_ServerClasses[k].flattenedProps
  <2> HIDE DEF c, n
  <2>6. DOMAIN s_ServerClasses = 1 .. n
    BY <2>5 DEF n
  <2>9. n \in Nat /\ c \in 1 .. n
    BY <1>6 DEF n
  <2>7. \A k \in 1 .. n :
            s_ServerClasses[k] = [nClassID |-> recording.classes[k].nClassID, nDataTable |-> RootOf(k),
                                  flattenedProps |-> s_ServerClasses[k].flattenedProps]
    BY <2>5 DEF n
  <2>8. \A k \in 1 .. n :
            s_ServerClasses'[k] = [nClassID |-> recording.classes[k].nClassID, nDataTable |-> RootOf(k),
                                   flattenedProps |-> props(k)]
    <3> TAKE k \in 1 .. n
    <3>1. CASE k = c
      <4>1. s_ServerClasses'[k] = [s_ServerClasses[k] EXCEPT !.flattenedProps = flattenedProps]
        BY <2>1, <2>6, <2>9, <3>1
      <4>2. props(k) = flattenedProps
        BY <3>1
      <4> HIDE DEF props
      <4>3. s_ServerClasses[k] =
               [nClassID |-> recording.classes[k].nClassID, nDataTable |-> RootOf(k),
                flattenedProps |-> s_ServerClasses[k].flattenedProps]
        BY <2>7
      <4> QED BY <4>1, <4>2, <4>3, WithProps
    <3>2. CASE k # c
      <4>1. s_ServerClasses'[k] = s_ServerClasses[k]
        BY <2>1, <2>6, <3>2
      <4> QED BY <2>7, <3>2, <4>1
    <3> QED BY <3>1, <3>2
  <2>10. /\ s_ServerClasses' = [k \in 1 .. n |-> s_ServerClasses'[k]]
         /\ Len(s_ServerClasses)' = n
    <3>1. /\ DOMAIN s_ServerClasses' = 1 .. n
          /\ s_ServerClasses' = [k \in 1 .. n |-> s_ServerClasses'[k]]
      BY <2>1, <2>6
    <3>2. s_ServerClasses' \in Seq({s_ServerClasses'[k] : k \in 1 .. n})
      <4> DEFINE T == {s_ServerClasses'[k] : k \in 1 .. n}
      <4>1. \A k \in 1 .. n : s_ServerClasses'[k] \in T
        OBVIOUS
      <4> HIDE DEF T
      <4>2. s_ServerClasses' \in [1 .. n -> T]
        BY <3>1, <4>1
      <4>3. s_ServerClasses' \in Seq(T)
        BY <2>9, <4>2
      <4> QED BY <4>3 DEF T
    <3> QED BY <2>9, <3>1, <3>2
  <2> HIDE DEF props
  <2>11. \A k \in 1 .. n : s_ServerClasses'[k].flattenedProps = props(k)
    <3> TAKE k \in 1 .. n
    <3>1. s_ServerClasses'[k] = [nClassID |-> recording.classes[k].nClassID, nDataTable |-> RootOf(k),
                                 flattenedProps |-> props(k)]
      BY <2>8
    <3> QED BY <3>1
  <2>12. ClassesRead'
    <3>1. s_ServerClasses' =
              [k \in 1 .. n |->
                  [nClassID |-> recording.classes[k].nClassID, nDataTable |-> RootOf(k),
                   flattenedProps |-> s_ServerClasses'[k].flattenedProps]]
      BY <2>8, <2>10, <2>11
    <3>2. /\ n \in 0 .. nServerClasses /\ n = nServerClasses
          /\ \A k \in 1 .. n : recording.classes[k].nClassID < nServerClasses
      BY <1>2, <1>6 DEF ClassesRead, n
    <3> QED BY <1>1, <1>3, <1>5, <2>10, <3>1, <3>2 DEF ClassesRead
  <2>13. ClassesFlattened'
    <3>1. \A k \in 1 .. n : k > c => props(k) = <<>>
      <4> TAKE k \in 1 .. n
      <4>1. k > c => k > nServerClass /\ k # c /\ k \in 1 .. Len(s_ServerClasses)
        BY <1>6, <2>9 DEF c, n
      <4>2. k > nServerClass => s_ServerClasses[k].flattenedProps = <<>>
        BY <1>2 DEF ClassesFlattened, n
      <4> QED BY <4>1, <4>2 DEF props
    <3>2. \A k \in 1 .. c :
              /\ RootOf(k) # 0
              /\ props(k) \in Seq(Props)
              /\ InRankOrder(props(k))
              /\ Rearranged(props(k), ListOf(RootOf(k)))
              /\ Len(props(k)) = Len(ListOf(RootOf(k)))
      <4> TAKE k \in 1 .. c
      <4>1. CASE k = c
        <5>1. props(k) = flattenedProps
          BY <4>1 DEF props
        <5> QED BY <1>3, <2>3, <2>4, <4>1, <5>1
      <4>2. CASE k # c
        <5>1. k \in 1 .. nServerClass
          BY <1>6, <4>2 DEF c
        <5>2. props(k) = s_ServerClasses[k].flattenedProps
          BY <4>2 DEF props
        <5> QED BY <1>2, <5>1, <5>2 DEF ClassesFlattened
      <4> QED BY <4>1, <4>2
    <3>3. \A k : ListOf(RootOf(k))' = ListOf(RootOf(k))
      <4> TAKE k
      <4>1. RootOf(k)' = RootOf(k)
        BY <1>5
      <4> QED BY <1>1, <4>1, SameList
    <3>4. \A k \in 1 .. c : s_ServerClasses'[k].flattenedProps = props(k)
      BY <2>9, <2>11
    <3>5. \A k \in 1 .. n : k > c => s_ServerClasses'[k].flattenedProps = <<>>
      BY <2>11, <3>1
    <3>6. nServerClass' = c /\ c \in 0 .. n /\ pc' = "flatten"
      BY <1>1, <1>3, <2>1, <2>9
    <3>7. \A k \in 1 .. c :
              /\ RootOf(k)' # 0
              /\ s_ServerClasses'[k].flattenedProps \in Seq(Props)
              /\ InRankOrder(s_ServerClasses'[k].flattenedProps)
              /\ Rearranged(s_ServerClasses'[k].flattenedProps, ListOf(RootOf(k))')
              /\ Len(s_ServerClasses'[k].flattenedProps) = Len(ListOf(RootOf(k))')
      BY <1>5, <3>2, <3>3, <3>4
    <3> HIDE DEF props
    <3> QED BY <2>10, <3>5, <3>6, <3>7 DEF ClassesFlattened, InRankOrder, Rearranged
  <2>14. ClassSorted'
    BY <1>4, <1>10 DEF ClassSorted
  <2> QED BY <1>7, <1>8, <2>12, <2>13, <2>14 DEF IInv
<1> QED BY <1>9, <1>10

LEMMA StutterInv == ASSUME IInv, UNCHANGED vars PROVE IInv'
<1>1. /\ UNCHANGED <<recording, s_DataTables, s_ServerClasses, s_nServerClassBits, nServerClass, pc>>
      /\ UNCHANGED sortVars
  BY DEF vars, parsed
<1>2. /\ TablesRead /\ ClassesRead /\ ClassesFlattened /\ ClassSorted /\ Parsed /\ SoundIsParsed
  BY DEF IInv
<1>3. /\ \A k : RootOf(k)' = RootOf(k)
      /\ nServerClasses' = nServerClasses
      /\ Sound(recording)' <=> Sound(recording)
  BY <1>1, SameRoots, SameSound DEF nServerClasses
<1>4. TablesRead' /\ ClassesRead'
  BY <1>1, <1>2, SameRead, SameClasses
<1>5. ClassesFlattened'
  BY <1>1, <1>2, SameFlattened DEF ClassesFlattened
<1>6. ClassSorted'
  <2>1. SortInv'
    BY <1>1, <1>2, SortStutterInv DEF ClassSorted
  <2>2. ListOf(RootOf(nServerClass + 1))' = ListOf(RootOf(nServerClass + 1))
    <3>1. RootOf(nServerClass + 1)' = RootOf(nServerClass + 1)
      BY <1>1, <1>3
    <3> QED BY <1>1, <3>1, SameList
  <2>3. RootOf(nServerClass + 1)' = RootOf(nServerClass + 1)
    BY <1>1, <1>3
  <2> QED BY <1>1, <1>2, <1>3, <2>1, <2>2, <2>3 DEF ClassSorted, sortVars
<1>7. Parsed' /\ SoundIsParsed'
  BY <1>1, <1>2, <1>3 DEF Parsed, SoundIsParsed, ClassBits
<1> QED BY <1>4, <1>5, <1>6, <1>7 DEF IInv

(* Every step keeps the invariant.                                         *)
LEMMA StepInv == IInv /\ [Next]_vars => IInv'
BY ReadTableInv, EndTablesInv, ReadServerClassInv, EndClassesInv, FlattenDataTableInv,
   SortPropsInv, EndParseInv, StutterInv DEF Next
-----------------------------------------------------------------------------
(* Powers of two, and the numbers below one.                               *)
LEMMA PowerIs == ASSUME NEW b \in 0 .. 15 PROVE 2^b \in Nat \ {0}
<1>1. CASE b = 0
  <2>1. 2^b = 1
    BY <1>1, SMT
  <2> QED BY <2>1, SMT
<1>2. CASE b = 1
  <2>1. 2^b = 2
    BY <1>2, SMT
  <2> QED BY <2>1, SMT
<1>3. CASE b = 2
  <2>1. 2^b = 4
    BY <1>3, SMT
  <2> QED BY <2>1, SMT
<1>4. CASE b = 3
  <2>1. 2^b = 8
    BY <1>4, SMT
  <2> QED BY <2>1, SMT
<1>5. CASE b = 4
  <2>1. 2^b = 16
    BY <1>5, SMT
  <2> QED BY <2>1, SMT
<1>6. CASE b = 5
  <2>1. 2^b = 32
    BY <1>6, SMT
  <2> QED BY <2>1, SMT
<1>7. CASE b = 6
  <2>1. 2^b = 64
    BY <1>7, SMT
  <2> QED BY <2>1, SMT
<1>8. CASE b = 7
  <2>1. 2^b = 128
    BY <1>8, SMT
  <2> QED BY <2>1, SMT
<1>9. CASE b = 8
  <2>1. 2^b = 256
    BY <1>9, SMT
  <2> QED BY <2>1, SMT
<1>10. CASE b = 9
  <2>1. 2^b = 512
    BY <1>10, SMT
  <2> QED BY <2>1, SMT
<1>11. CASE b = 10
  <2>1. 2^b = 1024
    BY <1>11, SMT
  <2> QED BY <2>1, SMT
<1>12. CASE b = 11
  <2>1. 2^b = 2048
    BY <1>12, SMT
  <2> QED BY <2>1, SMT
<1>13. CASE b = 12
  <2>1. 2^b = 4096
    BY <1>13, SMT
  <2> QED BY <2>1, SMT
<1>14. CASE b = 13
  <2>1. 2^b = 8192
    BY <1>14, SMT
  <2> QED BY <2>1, SMT
<1>15. CASE b = 14
  <2>1. 2^b = 16384
    BY <1>15, SMT
  <2> QED BY <2>1, SMT
<1>16. CASE b = 15
  <2>1. 2^b = 32768
    BY <1>16, SMT
  <2> QED BY <2>1, SMT
<1> QED BY <1>1, <1>2, <1>3, <1>4, <1>5, <1>6, <1>7, <1>8, <1>9, <1>10, <1>11, <1>12, <1>13, <1>14, <1>15, <1>16

(* A number below the modulus.                                             *)
LEMMA SmallMod == ASSUME NEW p \in Nat \ {0}, NEW u \in 0 .. p - 1 PROVE u % p = u
OBVIOUS

(* The bits that are read for a class hold every ID there is.              *)
LEMMA BitsHoldID ==
    ASSUME NEW n \in Nat, n < 2^15, NEW u \in 0 .. n - 1
    PROVE  u % (2^ClassBits(n)) = u
<1> DEFINE A == {b \in 0 .. 15 : 2^b <= n} \union {0}
           m == Max(A)
<1>1. A \in SUBSET (0 .. 15) /\ A # {}
  OBVIOUS
<1>2. ClassBits(n) = m + 1
  BY DEF ClassBits
<1>3. m \in A /\ \A y \in A : m >= y
  <2> HIDE DEF A
  <2> QED BY <1>1, MaxOfBits
<1> HIDE DEF m
<1>4. m \in 0 .. 15
  BY <1>1, <1>3
<1>5. m # 15
  <2>1. 15 \in 0 .. 15 /\ 2^15 \in Nat
    BY PowerIs
  <2>2. m = 15 => 2^15 <= n
    BY <1>3
  <2> QED BY <2>1, <2>2
<1> DEFINE d == m + 1
<1>6. d \in 0 .. 15 /\ ~(m >= d) /\ d = m + 1
  BY <1>4, <1>5
<1> HIDE DEF d
<1>7. d \notin A
  BY <1>3, <1>6
<1>8. ~(2^d <= n)
  BY <1>6, <1>7 DEF A
<1> DEFINE p == 2^d
<1>9. p \in Nat \ {0} /\ ~(p <= n)
  BY <1>6, <1>8, PowerIs
<1> HIDE DEF p
<1>10. u \in 0 .. p - 1
  BY <1>9
<1>11. u % p = u
  BY <1>9, <1>10, SmallMod
<1> QED BY <1>2, <1>6, <1>11 DEF p
-----------------------------------------------------------------------------
(* What the invariant says of the properties.                              *)
LEMMA InvTyped == IInv => TypeOK
<1> SUFFICES ASSUME IInv PROVE TypeOK
  OBVIOUS
<1>1. /\ TablesRead /\ ClassesRead /\ ClassesFlattened /\ ClassSorted /\ Parsed
  BY DEF IInv
<1>2. /\ TablesSane /\ Len(s_DataTables) \in Nat /\ nServerClasses \in Nat
      /\ DOMAIN s_DataTables = 1 .. Len(s_DataTables)
      /\ Len(recording.tables) \in Nat
  BY <1>1, ReadTablesSane, RecordingIs DEF TablesRead
<1>3. /\ SortTypeOK /\ Len(s_DataTables) <= Len(recording.tables)
      /\ nServerClass \in 0 .. Len(s_ServerClasses) /\ s_nServerClassBits \in Nat
      /\ pc \in {"tables", "classes", "flatten", "done", "failed", "abort", "undefined"}
  BY <1>1, <1>2 DEF ClassSorted, SortInv, TablesRead, ClassesFlattened, Parsed
<1>4. ASSUME NEW k \in DOMAIN s_ServerClasses
      PROVE  /\ s_ServerClasses[k].nClassID < nServerClasses
             /\ s_ServerClasses[k].nDataTable \in 0 .. Len(s_DataTables)
             /\ s_ServerClasses[k].flattenedProps \in Seq(Props)
  <2>1. s_ServerClasses =
          [i \in 1 .. Len(s_ServerClasses) |->
              [nClassID |-> recording.classes[i].nClassID, nDataTable |-> RootOf(i),
               flattenedProps |-> s_ServerClasses[i].flattenedProps]]
    BY <1>1 DEF ClassesRead
  <2>2. k \in 1 .. Len(s_ServerClasses)
    BY <2>1
  <2>3. /\ s_ServerClasses[k].nClassID = recording.classes[k].nClassID
        /\ s_ServerClasses[k].nDataTable = RootOf(k)
    BY <2>1, <2>2
  <2>4. recording.classes[k].nClassID < nServerClasses
    BY <1>1, <2>2 DEF ClassesRead
  <2>5. RootOf(k) \in 0 .. Len(s_DataTables)
    BY <1>2, ByName DEF RootOf
  <2>6. s_ServerClasses[k].flattenedProps \in Seq(Props)
    <3>1. CASE k > nServerClass
      <4>1. s_ServerClasses[k].flattenedProps = <<>>
        BY <1>1, <2>2, <3>1 DEF ClassesFlattened
      <4> QED BY <4>1
    <3>2. CASE ~(k > nServerClass)
      <4>1. k \in 1 .. nServerClass
        BY <1>3, <2>2, <3>2
      <4> QED BY <1>1, <4>1 DEF ClassesFlattened
    <3> QED BY <3>1, <3>2
  <2> QED BY <2>3, <2>4, <2>5, <2>6
<1> QED BY <1>3, <1>4 DEF TypeOK

LEMMA InvGathered == IInv => GatheredAsSent
<1> SUFFICES ASSUME IInv, sorting, Sound(recording)
             PROVE  LET sent == SentProps(s_ServerClasses[nServerClass + 1].nDataTable)
                    IN  /\ Len(gathered) = Cardinality(sent)
                        /\ \A w \in sent :
                              gathered[1 + Cardinality({v \in sent : Before(v, w)})] = Numbered(Last(w))
  BY DEF GatheredAsSent
<1> DEFINE root == RootOf(nServerClass + 1)
<1>1. /\ TablesRead /\ pc = "flatten" /\ nServerClass < nServerClasses
      /\ root # 0 /\ gathered = ListOf(root)
  BY DEF IInv, ClassSorted
<1>2. s_ServerClasses[nServerClass + 1].nDataTable = root
  BY <1>1, NextClass
<1>3. root \in DOMAIN s_DataTables
  BY <1>1, ListTyped
<1>4. TablesSane /\ \A t \in DOMAIN s_DataTables : ElementsInFront(s_DataTables[t])
  BY <1>1, ReadTablesSane
<1> HIDE DEF root
<1>5. /\ Len(ListOf(root)) = Cardinality(SentProps(root))
      /\ \A w \in SentProps(root) :
            ListOf(root)[1 + Cardinality({v \in SentProps(root) : Before(v, w)})] = Numbered(Last(w))
  BY <1>3, <1>4, GatheredRight DEF ListOf
<1> QED BY <1>1, <1>2, <1>5

(* What the sort leaves has the elements of what was gathered.             *)
LEMMA RearrangedSet ==
    ASSUME NEW s \in Seq(Props), NEW g \in Seq(Props), Len(s) = Len(g), Rearranged(s, g)
    PROVE  ToSet(s) = ToSet(g)
<1> DEFINE n == Len(g)
<1>1. PICK f \in Bijections(n) : \A k \in 1 .. n : s[k] = g[f[k]]
  BY DEF Rearranged
<1>2. n \in Nat /\ DOMAIN s = 1 .. n /\ DOMAIN g = 1 .. n
  OBVIOUS
<1> HIDE DEF n
<1>3. /\ f \in [1 .. n -> 1 .. n]
      /\ \A i, j \in 1 .. n : f[i] = f[j] => i = j
  BY <1>1 DEF Bijections
<1>4. \A j \in 1 .. n : \E k \in 1 .. n : f[k] = j
  <2>1. IsFiniteSet(1 .. n) /\ Cardinality(1 .. n) = Cardinality(1 .. n)
    BY <1>2, FS_Interval
  <2>2. f \in Injection(1 .. n, 1 .. n)
    BY <1>3 DEF Injection, IsInjective
  <2>3. f \in Surjection(1 .. n, 1 .. n)
    BY <2>1, <2>2, FS_SameCardinalityBij, FS_Injection DEF Bijection, ExistsInjection
  <2> QED BY <2>3 DEF Surjection
<1>5. \A k \in 1 .. n : s[k] = g[f[k]] /\ f[k] \in 1 .. n
  BY <1>1, <1>3
<1>6. {s[k] : k \in 1 .. n} = {g[k] : k \in 1 .. n}
  <2>1. \A k \in 1 .. n : \E j \in 1 .. n : s[k] = g[j]
    BY <1>5
  <2>2. \A j \in 1 .. n : \E k \in 1 .. n : g[j] = s[k]
    <3> TAKE j \in 1 .. n
    <3>1. PICK k \in 1 .. n : f[k] = j
      BY <1>4
    <3>2. s[k] = g[j]
      BY <1>5, <3>1
    <3> QED BY <3>2
  <2>3. \A x : x \in {s[k] : k \in 1 .. n} => x \in {g[k] : k \in 1 .. n}
    BY <2>1
  <2>4. \A x : x \in {g[k] : k \in 1 .. n} => x \in {s[k] : k \in 1 .. n}
    BY <2>2
  <2> QED BY <2>3, <2>4
<1> QED BY <1>2, <1>6 DEF ToSet

LEMMA InvLookups == IInv => LookupsAgree
<1> SUFFICES ASSUME IInv, Sound(recording), pc = "done", NEW uClass \in 0 .. nServerClasses - 1
             PROVE  LET root == GetTableByClassID(uClass)
                        sent == SentProps(root)
                        props == s_ServerClasses[(uClass % (2^s_nServerClassBits)) + 1].flattenedProps
                    IN  /\ root # 0
                        /\ ToSet(props) = {Numbered(Last(w)) : w \in sent}
                        /\ Len(props) = Cardinality(sent)
  BY DEF LookupsAgree
<1> DEFINE k == uClass + 1
           root == RootOf(k)
           props == s_ServerClasses[k].flattenedProps
<1>1. /\ TablesRead /\ ClassesRead /\ ClassesFlattened /\ Parsed
  BY DEF IInv
<1>2. /\ nServerClasses \in Nat /\ nServerClasses < 2^15
      /\ DOMAIN recording.classes = 1 .. nServerClasses
  BY <1>1, RecordingIs DEF TablesRead
<1>3. /\ s_nServerClassBits = ClassBits(nServerClasses) /\ nServerClass = nServerClasses
      /\ Len(s_ServerClasses) = nServerClasses
  BY <1>1 DEF Parsed, ClassesRead
<1>4. uClass \in Nat /\ k \in 1 .. nServerClasses
  BY <1>2
<1>5. uClass % (2^s_nServerClassBits) = uClass
  BY <1>2, <1>3, BitsHoldID
<1>6. /\ DOMAIN s_ServerClasses = 1 .. nServerClasses
      /\ \A i \in 1 .. nServerClasses :
            /\ s_ServerClasses[i].nClassID = recording.classes[i].nClassID
            /\ s_ServerClasses[i].nDataTable = RootOf(i)
  <2>1. s_ServerClasses =
          [i \in 1 .. nServerClasses |->
              [nClassID |-> recording.classes[i].nClassID, nDataTable |-> RootOf(i),
               flattenedProps |-> s_ServerClasses[i].flattenedProps]]
    BY <1>1, <1>3 DEF ClassesRead
  <2>2. DOMAIN s_ServerClasses = 1 .. nServerClasses
    BY <2>1
  <2>3. ASSUME NEW i \in 1 .. nServerClasses
        PROVE  /\ s_ServerClasses[i].nClassID = recording.classes[i].nClassID
               /\ s_ServerClasses[i].nDataTable = RootOf(i)
    BY <2>1
  <2> QED BY <2>2, <2>3
<1>7. \A i \in 1 .. nServerClasses : s_ServerClasses[i].nClassID = i - 1
  BY <1>2, <1>6 DEF Sound
<1>8. GetTableByClassID(uClass) = root
  <2> DEFINE found == {i \in DOMAIN s_ServerClasses : s_ServerClasses[i].nClassID = uClass}
  <2>1. \A i \in 1 .. nServerClasses : i - 1 = uClass <=> i = k
    BY <1>2, <1>4
  <2>2. found = {k}
    BY <1>4, <1>6, <1>7, <2>1
  <2>3. GetTableByClassID(uClass) = IF found = {} THEN 0 ELSE s_ServerClasses[Min(found)].nDataTable
    BY DEF GetTableByClassID
  <2>4. k \in Nat
    BY <1>4
  <2> HIDE DEF found, k
  <2>5. found \in SUBSET Nat /\ found # {}
    BY <2>2, <2>4
  <2>6. Min(found) \in found
    BY <2>5, MinIs
  <2>7. Min(found) = k
    BY <2>2, <2>6
  <2> QED BY <1>4, <1>6, <2>3, <2>5, <2>7
<1>9. /\ root # 0 /\ props \in Seq(Props)
      /\ Rearranged(props, ListOf(root)) /\ Len(props) = Len(ListOf(root))
  BY <1>1, <1>3, <1>4 DEF ClassesFlattened
<1>10. root \in DOMAIN s_DataTables /\ ListOf(root) \in Seq(Props)
  BY <1>1, <1>9, ListTyped
<1>11. TablesSane /\ \A t \in DOMAIN s_DataTables : ElementsInFront(s_DataTables[t])
  BY <1>1, ReadTablesSane
<1>12. s_ServerClasses[(uClass % (2^s_nServerClassBits)) + 1].flattenedProps = props
  BY <1>5
<1> HIDE DEF root, props
<1>13. /\ Len(ListOf(root)) = Cardinality(SentProps(root))
       /\ ToSet(ListOf(root)) = {Numbered(Last(w)) : w \in SentProps(root)}
  BY <1>10, <1>11, GatheredRight DEF ListOf
<1>14. ToSet(props) = ToSet(ListOf(root))
  BY <1>9, <1>10, RearrangedSet
<1> QED BY <1>8, <1>9, <1>12, <1>13, <1>14
-----------------------------------------------------------------------------
(* The parser reads no class or table that is not there, numbers every     *)
(* class below their count, and flattens into them props and nothing else. *)
THEOREM TypeOKAlways == Spec => []TypeOK
BY InitInv, StepInv, InvTyped, PTL DEF Spec

(* A recording as a server writes it is parsed to its end: no class ID is  *)
(* refused, no class is without its table, no array is without elements.   *)
THEOREM SoundIsParsedAlways == Spec => []SoundIsParsed
<1>1. IInv => SoundIsParsed
  BY DEF IInv
<1> QED BY <1>1, InitInv, StepInv, PTL DEF Spec

(* What FlattenDataTable gathers for a class is what the server sends for  *)
(* it: each prop that is reached and not excluded, as often as it is       *)
(* reached, and in the order of the walks to them.                         *)
THEOREM GatheredAsSentAlways == Spec => []GatheredAsSent
BY InitInv, StepInv, InvGathered, PTL DEF Spec

(* Once all is parsed, the bits of a class ID that are read are enough,    *)
(* the class with that ID is at that index, and it has the props that the  *)
(* server sends for the table of the class.                                *)
THEOREM LookupsAgreeAlways == Spec => []LookupsAgree
BY InitInv, StepInv, InvLookups, PTL DEF Spec

ClassesInOrder == \A k \in 1 .. nServerClass : InRankOrder(s_ServerClasses[k].flattenedProps)

(* The props of a class that was flattened are in the order of their       *)
(* ranks: the first of them are those the server numbers first.            *)
THEOREM ClassesInOrderAlways == Spec => []ClassesInOrder
<1>1. IInv => ClassesInOrder
  BY DEF IInv, ClassesFlattened, ClassesInOrder
<1> QED BY <1>1, InitInv, StepInv, PTL DEF Spec
-----------------------------------------------------------------------------
(* What is gathered from a table depends on the tables it refers to only.  *)
LEMMA SameBelow ==
    ASSUME TablesSane, NEW excludes, NEW table \in DOMAIN s_DataTables, NEW a, NEW b,
           \A i \in SubTables(table) : a[i] = b[i]
    PROVE  /\ GatherProps_IterateProps(excludes, table, a) = GatherProps_IterateProps(excludes, table, b)
           /\ GatherExcludes(table, a) = GatherExcludes(table, b)
<1> DEFINE props == s_DataTables[table].props
<1>1. ASSUME NEW iProp \in DOMAIN props
      PROVE  OfProp(excludes, table, iProp, a) = OfProp(excludes, table, iProp, b)
  <2> DEFINE sub == GetTableByName(props[iProp].dt_name)
  <2>1. props[iProp].type = "DataTable" /\ sub # 0 => sub \in SubTables(table)
    BY DEF SubTables, ToSet
  <2>2. props[iProp].type = "DataTable" /\ sub # 0 => a[sub] = b[sub]
    BY <2>1
  <2> QED BY <2>2 DEF OfProp
<1>2. [iProp \in DOMAIN props |-> OfProp(excludes, table, iProp, a)]
        = [iProp \in DOMAIN props |-> OfProp(excludes, table, iProp, b)]
  BY <1>1
<1>3. GatherProps_IterateProps(excludes, table, a) = GatherProps_IterateProps(excludes, table, b)
  BY <1>2 DEF GatherProps_IterateProps
<1>4. {a[i] : i \in SubTables(table)} = {b[i] : i \in SubTables(table)}
  BY Zenon
<1>5. GatherExcludes(table, a) = GatherExcludes(table, b)
  BY <1>4 DEF GatherExcludes
<1> QED BY <1>3, <1>5

Levels(level) ==
    /\ level \in [DOMAIN s_DataTables -> DOMAIN s_DataTables]
    /\ \A t \in DOMAIN s_DataTables : \A i \in SubTables(t) :
          i \in DOMAIN s_DataTables /\ level[i] < level[t]

(* The depth at which the recursion over the tables is cut off is never    *)
(* reached: what is gathered solves the equation of the recursion.         *)
GathersAll(excludes, all) ==
    \A table \in DOMAIN s_DataTables :
        all[table] = GatherProps_IterateProps(excludes, table, all)
ExcludesAll(all) ==
    \A table \in DOMAIN s_DataTables : all[table] = GatherExcludes(table, all)

(* A table is gathered to its end at the depth of its level.               *)
LEMMA PropsDeepEnough ==
    ASSUME TablesSane, NEW level, Levels(level), NEW excludes
    PROVE  \E all : /\ GathersAll(excludes, all)
                    /\ \A root : PropsOf(excludes, root) = GatherProps(all[root])
<1> DEFINE N == Len(s_DataTables)
           D == DOMAIN s_DataTables
<1>1. N \in Nat /\ D = 1 .. N
  BY TablesAre
<1>2. PICK g : /\ PropsTo(g, excludes, N)
               /\ \A root : PropsOf(excludes, root) = GatherProps(g[N][root])
  BY <1>1, PropsOfIs
<1>3. \A n \in 1 .. N : \A t \in D : g[n][t] = GatherProps_IterateProps(excludes, t, g[n - 1])
  <2> DEFINE f == [depth \in 0 .. N |->
                    [table \in D |->
                        IF depth = 0 THEN Nothing
                        ELSE GatherProps_IterateProps(excludes, table, g[depth - 1])]]
  <2>1. g = f
    BY <1>2 DEF PropsTo
  <2>2. \A n \in 1 .. N : n \in 0 .. N /\ n # 0
    BY <1>1
  <2>3. \A n \in 1 .. N : \A t \in D : f[n][t] = GatherProps_IterateProps(excludes, t, g[n - 1])
    BY <2>2
  <2> HIDE DEF f
  <2> QED BY <2>1, <2>3
<1>4. /\ \A t \in D : level[t] \in 1 .. N
      /\ \A t \in D : \A i \in SubTables(t) : i \in D /\ level[i] < level[t]
  BY <1>1 DEF Levels
<1> HIDE DEF N, D
<1> DEFINE S == {n \in Nat : \A t \in D : level[t] <= n =>
                    \A m \in 0 .. N : n <= m => g[m][t] = g[N][t]}
<1>5. 0 \in S
  BY <1>1, <1>4
<1>6. ASSUME NEW n \in Nat, n \in S PROVE n + 1 \in S
  <2> SUFFICES ASSUME NEW t \in D, level[t] <= n + 1, NEW m \in 0 .. N, n + 1 <= m
               PROVE  g[m][t] = g[N][t]
    OBVIOUS
  <2>1. /\ m \in 1 .. N /\ N \in 1 .. N /\ m - 1 \in 0 .. N /\ N - 1 \in 0 .. N
        /\ n <= m - 1 /\ n <= N - 1
    BY <1>1
  <2>2. ASSUME NEW i \in SubTables(t) PROVE g[m - 1][i] = g[N - 1][i]
    <3>1. i \in D /\ level[i] < level[t]
      BY <1>4
    <3>2. level[i] <= n
      BY <1>1, <1>4, <3>1
    <3>3. \A k \in 0 .. N : n <= k => g[k][i] = g[N][i]
      BY <1>6, <3>1, <3>2
    <3> QED BY <2>1, <3>3
  <2>3. GatherProps_IterateProps(excludes, t, g[m - 1])
          = GatherProps_IterateProps(excludes, t, g[N - 1])
    BY <2>2, SameBelow DEF D
  <2> QED BY <1>3, <2>1, <2>3
<1>7. \A n \in Nat : n \in S
  <2> HIDE DEF S
  <2> QED BY <1>5, <1>6, NatSet
<1> DEFINE all == g[N]
<1>8. ASSUME NEW t \in D PROVE all[t] = GatherProps_IterateProps(excludes, t, all)
  <2>1. N \in 1 .. N /\ N - 1 \in Nat /\ N - 1 \in 0 .. N
    BY <1>1, <1>4
  <2>2. ASSUME NEW i \in SubTables(t) PROVE g[N - 1][i] = g[N][i]
    <3>1. i \in D /\ level[i] < level[t]
      BY <1>4
    <3>2. level[i] <= N - 1
      BY <1>1, <1>4, <3>1
    <3>3. \A k \in 0 .. N : N - 1 <= k => g[k][i] = g[N][i]
      BY <1>7, <2>1, <3>1, <3>2
    <3> QED BY <2>1, <3>3
  <2>3. GatherProps_IterateProps(excludes, t, g[N - 1]) = GatherProps_IterateProps(excludes, t, g[N])
    BY <2>2, SameBelow DEF D
  <2> QED BY <1>3, <2>1, <2>3
<1> QED BY <1>2, <1>8 DEF GathersAll, D

(* And so are its excludes.                                                *)
LEMMA ExcludesDeepEnough ==
    ASSUME TablesSane, NEW level, Levels(level)
    PROVE  \E all : ExcludesAll(all) /\ \A root : ExcludesOf(root) = all[root]
<1> DEFINE N == Len(s_DataTables)
           D == DOMAIN s_DataTables
<1>1. N \in Nat /\ D = 1 .. N
  BY TablesAre
<1>2. PICK g : ExcludesTo(g, N) /\ \A root : ExcludesOf(root) = g[N][root]
  BY <1>1, ExcludesOfIs
<1>3. \A n \in 1 .. N : \A t \in D : g[n][t] = GatherExcludes(t, g[n - 1])
  <2> DEFINE f == [depth \in 0 .. N |->
                    [table \in D |->
                        IF depth = 0 THEN {} ELSE GatherExcludes(table, g[depth - 1])]]
  <2>1. g = f
    BY <1>2 DEF ExcludesTo
  <2>2. \A n \in 1 .. N : n \in 0 .. N /\ n # 0
    BY <1>1
  <2>3. \A n \in 1 .. N : \A t \in D : f[n][t] = GatherExcludes(t, g[n - 1])
    BY <2>2
  <2> HIDE DEF f
  <2> QED BY <2>1, <2>3
<1>4. /\ \A t \in D : level[t] \in 1 .. N
      /\ \A t \in D : \A i \in SubTables(t) : i \in D /\ level[i] < level[t]
  BY <1>1 DEF Levels
<1> HIDE DEF N, D
<1> DEFINE S == {n \in Nat : \A t \in D : level[t] <= n =>
                    \A m \in 0 .. N : n <= m => g[m][t] = g[N][t]}
<1>5. 0 \in S
  BY <1>1, <1>4
<1>6. ASSUME NEW n \in Nat, n \in S PROVE n + 1 \in S
  <2> SUFFICES ASSUME NEW t \in D, level[t] <= n + 1, NEW m \in 0 .. N, n + 1 <= m
               PROVE  g[m][t] = g[N][t]
    OBVIOUS
  <2>1. /\ m \in 1 .. N /\ N \in 1 .. N /\ m - 1 \in 0 .. N /\ N - 1 \in 0 .. N
        /\ n <= m - 1 /\ n <= N - 1
    BY <1>1
  <2>2. ASSUME NEW i \in SubTables(t) PROVE g[m - 1][i] = g[N - 1][i]
    <3>1. i \in D /\ level[i] < level[t]
      BY <1>4
    <3>2. level[i] <= n
      BY <1>1, <1>4, <3>1
    <3>3. \A k \in 0 .. N : n <= k => g[k][i] = g[N][i]
      BY <1>6, <3>1, <3>2
    <3> QED BY <2>1, <3>3
  <2>3. GatherExcludes(t, g[m - 1]) = GatherExcludes(t, g[N - 1])
    BY <2>2, SameBelow DEF D
  <2> QED BY <1>3, <2>1, <2>3
<1>7. \A n \in Nat : n \in S
  <2> HIDE DEF S
  <2> QED BY <1>5, <1>6, NatSet
<1> DEFINE all == g[N]
<1>8. ASSUME NEW t \in D PROVE all[t] = GatherExcludes(t, all)
  <2>1. N \in 1 .. N /\ N - 1 \in Nat /\ N - 1 \in 0 .. N
    BY <1>1, <1>4
  <2>2. ASSUME NEW i \in SubTables(t) PROVE g[N - 1][i] = g[N][i]
    <3>1. i \in D /\ level[i] < level[t]
      BY <1>4
    <3>2. level[i] <= N - 1
      BY <1>1, <1>4, <3>1
    <3>3. \A k \in 0 .. N : N - 1 <= k => g[k][i] = g[N][i]
      BY <1>7, <2>1, <3>1, <3>2
    <3> QED BY <2>1, <3>3
  <2>3. GatherExcludes(t, g[N - 1]) = GatherExcludes(t, g[N])
    BY <2>2, SameBelow DEF D
  <2> QED BY <1>3, <2>1, <2>3
<1> QED BY <1>2, <1>8 DEF ExcludesAll, D

(* A recording has levels, as no table of it is below itself.              *)
LEMMA LevelsExist ==
    ASSUME TablesRead, s_DataTables = recording.tables PROVE \E level : Levels(level)
<1>1. TablesSane /\ IsRecording(recording)
  BY ReadTablesSane, RecordingIs DEF TablesRead
<1>2. PICK level \in [DOMAIN s_DataTables -> DOMAIN s_DataTables] :
          \A i, j \in DOMAIN s_DataTables :
              RefersTo(s_DataTables[i], s_DataTables[j]) => level[j] < level[i]
  BY <1>1 DEF IsRecording
<1>3. ASSUME NEW t \in DOMAIN s_DataTables, NEW i \in SubTables(t)
      PROVE  i \in DOMAIN s_DataTables /\ level[i] < level[t]
  <2>1. PICK p \in ToSet(s_DataTables[t].props) :
            p.type = "DataTable" /\ i = GetTableByName(p.dt_name) /\ i # 0
    BY DEF SubTables
  <2> DEFINE found == {j \in DOMAIN s_DataTables : s_DataTables[j].net_table_name = p.dt_name}
  <2>2. i = IF found = {} THEN 0 ELSE Min(found)
    BY <2>1 DEF GetTableByName
  <2>3. found \in SUBSET Nat
    BY <1>1, TablesAre
  <2>4. i \in found
    <3> HIDE DEF found
    <3> QED BY <2>1, <2>2, <2>3, MinIs
  <2>5. RefersTo(s_DataTables[t], s_DataTables[i])
    BY <2>1, <2>4 DEF RefersTo
  <2> QED BY <1>2, <2>4, <2>5
<1> QED BY <1>2, <1>3 DEF Levels

RecursionEnds ==
    pc = "flatten" =>
        /\ \E all : ExcludesAll(all) /\ \A root : ExcludesOf(root) = all[root]
        /\ \A excludes : \E all :
              /\ GathersAll(excludes, all)
              /\ \A root : PropsOf(excludes, root) = GatherProps(all[root])

(* While classes are flattened, the recursions of GatherExcludes and of    *)
(* GatherProps end by themselves.                                          *)
THEOREM RecursionEndsAlways == Spec => []RecursionEnds
<1>1. IInv => RecursionEnds
  <2> SUFFICES ASSUME IInv, pc = "flatten" PROVE RecursionEnds
    BY DEF RecursionEnds
  <2>1. TablesRead /\ s_DataTables = recording.tables
    BY DEF IInv, TablesRead
  <2>2. TablesSane /\ \E level : Levels(level)
    BY <2>1, ReadTablesSane, LevelsExist
  <2> QED BY <2>2, PropsDeepEnough, ExcludesDeepEnough DEF RecursionEnds
<1> QED BY <1>1, InitInv, StepInv, PTL DEF Spec
=============================================================================
