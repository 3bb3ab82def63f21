--------------------------- MODULE EntitiesProof ---------------------------
(***************************************************************************)
(* Proofs about Entities, for any number of entities, classes, props and   *)
(* messages.                                                               *)
(***************************************************************************)
EXTENDS Entities, SequenceTheorems, TLAPS

(* While fields are read, pEntity points at an entry.                      *)
AtEntry == pc = "fields" => pEntity \in DOMAIN s_Entities

IInv ==
    /\ TypeOK
    /\ UniqueIds
    /\ UniqueProps
    /\ NoneMissing
    /\ SameEntity
    /\ LatestValue
    /\ AtEntry

-----------------------------------------------------------------------------
(* FindEntity and FindProp, where there is no more than one to find.       *)

LEMMA FindEntityIs ==
    ASSUME s_Entities \in Seq(Entries), UniqueIds, NEW i \in DOMAIN s_Entities
    PROVE  FindEntity(s_Entities[i].id) = i
<1> DEFINE id == s_Entities[i].id
           P(k) == s_Entities[k].id = id /\ \A j \in 1 .. k - 1 : s_Entities[j].id # id
<1>1. \A j \in 1 .. i - 1 : s_Entities[j].id # id
  <2> SUFFICES ASSUME NEW j \in 1 .. i - 1, s_Entities[j].id = id PROVE FALSE
    OBVIOUS
  <2>1. j \in DOMAIN s_Entities /\ j # i
    OBVIOUS
  <2> QED BY <2>1 DEF UniqueIds
<1>2. P(i)
  BY <1>1
<1>3. P(CHOOSE k \in DOMAIN s_Entities : P(k)) /\ (CHOOSE k \in DOMAIN s_Entities : P(k)) \in DOMAIN s_Entities
  BY <1>2, Zenon
<1>4. (CHOOSE k \in DOMAIN s_Entities : P(k)) = i
  BY <1>3 DEF UniqueIds
<1> QED
  BY <1>4 DEF FindEntity

LEMMA FindEntityNull ==
    ASSUME s_Entities \in Seq(Entries), UniqueIds, NEW id, FindEntity(id) = 0
    PROVE  \A i \in DOMAIN s_Entities : s_Entities[i].id # id
<1> SUFFICES ASSUME NEW i \in DOMAIN s_Entities, s_Entities[i].id = id PROVE FALSE
  OBVIOUS
<1>1. FindEntity(id) = i
  BY FindEntityIs
<1> QED
  BY <1>1

LEMMA FindEntityFinds ==
    ASSUME s_Entities \in Seq(Entries), UniqueIds, NEW id, FindEntity(id) # 0
    PROVE  /\ FindEntity(id) \in DOMAIN s_Entities
           /\ s_Entities[FindEntity(id)].id = id
<1>1. \E i \in DOMAIN s_Entities : s_Entities[i].id = id
  BY DEF FindEntity
<1>2. PICK i \in DOMAIN s_Entities : s_Entities[i].id = id
  BY <1>1
<1>3. FindEntity(id) = i
  BY <1>2, FindEntityIs
<1> QED
  BY <1>2, <1>3

UniqueNames(props) ==
    \A i, j \in DOMAIN props : props[i].name = props[j].name => i = j

LEMMA FindPropIs ==
    ASSUME NEW props \in Seq(Props), UniqueNames(props), NEW i \in DOMAIN props
    PROVE  FindProp(props, props[i].name) = i
<1> DEFINE name == props[i].name
           P(k) == props[k].name = name /\ \A j \in 1 .. k - 1 : props[j].name # name
<1>1. \A j \in 1 .. i - 1 : props[j].name # name
  <2> SUFFICES ASSUME NEW j \in 1 .. i - 1, props[j].name = name PROVE FALSE
    OBVIOUS
  <2>1. j \in DOMAIN props /\ j # i
    OBVIOUS
  <2> QED BY <2>1 DEF UniqueNames
<1>2. P(i)
  BY <1>1
<1>3. P(CHOOSE k \in DOMAIN props : P(k)) /\ (CHOOSE k \in DOMAIN props : P(k)) \in DOMAIN props
  BY <1>2, Zenon
<1>4. (CHOOSE k \in DOMAIN props : P(k)) = i
  BY <1>3 DEF UniqueNames
<1> QED
  BY <1>4 DEF FindProp

LEMMA FindPropNull ==
    ASSUME NEW props \in Seq(Props), UniqueNames(props), NEW name
    PROVE  (FindProp(props, name) = 0) <=> (\A i \in DOMAIN props : props[i].name # name)
<1>1. ASSUME NEW i \in DOMAIN props, props[i].name = name PROVE FindProp(props, name) = i
  BY <1>1, FindPropIs
<1>2. ASSUME \A i \in DOMAIN props : props[i].name # name PROVE FindProp(props, name) = 0
  BY <1>2 DEF FindProp
<1> QED
  BY <1>1, <1>2

LEMMA WithValue ==
    ASSUME NEW p \in Props, NEW value \in Values
    PROVE  LET q == [p EXCEPT !.value = value]
           IN  q \in Props /\ q.name = p.name /\ q.value = value
BY DEF Props

(* What AddOrUpdateProp does to a name, and what it leaves of the others.  *)
LEMMA AddOrUpdatePropIs ==
    ASSUME NEW props \in Seq(Props), UniqueNames(props),
           NEW name \in Names, NEW value \in Values,
           NEW new, new = AddOrUpdateProp(props, name, value)
    PROVE  /\ new \in Seq(Props)
           /\ UniqueNames(new)
           /\ FindProp(new, name) # 0
           /\ new[FindProp(new, name)].value = value
           /\ \A n : n # name /\ FindProp(props, n) # 0 =>
                 /\ FindProp(new, n) # 0
                 /\ new[FindProp(new, n)].value = props[FindProp(props, n)].value
<1>1. CASE FindProp(props, name) = 0
  <2>1. /\ new = Append(props, [name |-> name, value |-> value])
        /\ [name |-> name, value |-> value] \in Props
    BY <1>1 DEF AddOrUpdateProp, Props
  <2>2. /\ new \in Seq(Props)
        /\ Len(new) = Len(props) + 1
        /\ \A i \in DOMAIN props : new[i] = props[i]
        /\ new[Len(props) + 1] = [name |-> name, value |-> value]
        /\ DOMAIN new = 1 .. Len(props) + 1
        /\ DOMAIN props = 1 .. Len(props)
    BY <2>1
  <2>3. \A i \in DOMAIN props : props[i].name # name
    BY <1>1, FindPropNull
  <2>4. UniqueNames(new)
    BY <2>2, <2>3 DEF UniqueNames
  <2>5. FindProp(new, name) = Len(props) + 1
    <3>1. Len(props) + 1 \in DOMAIN new /\ new[Len(props) + 1].name = name
      BY <2>2
    <3> QED BY <2>2, <2>4, <3>1, FindPropIs
  <2>6. ASSUME NEW n, FindProp(props, n) # 0
        PROVE  /\ FindProp(new, n) # 0
               /\ new[FindProp(new, n)].value = props[FindProp(props, n)].value
    <3>1. PICK i \in DOMAIN props : props[i].name = n
      BY <2>6, FindPropNull
    <3>2. FindProp(props, n) = i
      BY <3>1, FindPropIs
    <3>3. i \in DOMAIN new /\ new[i].name = n
      BY <2>2, <3>1
    <3>4. FindProp(new, n) = i
      BY <2>2, <2>4, <3>3, FindPropIs
    <3> QED BY <2>2, <3>2, <3>4
  <2> QED BY <2>2, <2>4, <2>5, <2>6
<1>2. CASE FindProp(props, name) # 0
  <2>1. PICK k \in DOMAIN props : props[k].name = name
    BY <1>2, FindPropNull
  <2>2. FindProp(props, name) = k
    BY <2>1, FindPropIs
  <2>3. new = [props EXCEPT ![k].value = value]
    BY <1>2, <2>2 DEF AddOrUpdateProp
  <2>4. /\ new \in Seq(Props)
        /\ DOMAIN new = DOMAIN props
        /\ \A i \in DOMAIN props : new[i].name = props[i].name
        /\ \A i \in DOMAIN props : i # k => new[i] = props[i]
        /\ new[k].value = value
    <3> DEFINE p == [props[k] EXCEPT !.value = value]
    <3>1. k \in 1 .. Len(props) /\ props[k] \in Props
      <4>1. k \in 1 .. Len(props)
        BY <2>1
      <4> QED BY <4>1, ElementOfSeq
    <3>2. p \in Props /\ p.name = props[k].name /\ p.value = value
      BY ONLY <3>1, value \in Values, WithValue
    <3>3. new = [props EXCEPT ![k] = p]
      BY <2>3
    <3> HIDE DEF p
    <3>4. /\ new \in Seq(Props)
          /\ Len(new) = Len(props)
          /\ \A j \in 1 .. Len(props) : new[j] = IF j = k THEN p ELSE props[j]
      BY <3>1, <3>2, <3>3, ExceptSeq
    <3> QED BY <3>1, <3>2, <3>4
  <2>5. UniqueNames(new)
    BY <2>4 DEF UniqueNames
  <2>6. FindProp(new, name) = k
    BY <2>1, <2>4, <2>5, FindPropIs
  <2>7. ASSUME NEW n, n # name, FindProp(props, n) # 0
        PROVE  /\ FindProp(new, n) # 0
               /\ new[FindProp(new, n)].value = props[FindProp(props, n)].value
    <3>1. PICK i \in DOMAIN props : props[i].name = n
      BY <2>7, FindPropNull
    <3>2. FindProp(props, n) = i
      BY <3>1, FindPropIs
    <3>3. FindProp(new, n) = i
      BY <2>4, <2>5, <3>1, FindPropIs
    <3> QED BY <2>1, <2>4, <2>7, <3>1, <3>2, <3>3
  <2> QED BY <2>1, <2>4, <2>5, <2>6, <2>7
<1> QED
  BY <1>1, <1>2
-----------------------------------------------------------------------------
(* What the operations on the table do to its entries.                     *)

NewEntry(id, c, n) == [id |-> id, class |-> c, serial |-> n, props |-> <<>>]

LEMMA EntryFields ==
    ASSUME s_Entities \in Seq(Entries), NEW i \in DOMAIN s_Entities
    PROVE  /\ i \in 1 .. Len(s_Entities)
           /\ s_Entities[i] \in Entries
           /\ s_Entities[i].id \in Ids
           /\ s_Entities[i].class \in Classes
           /\ s_Entities[i].props \in Seq(Props)
<1>1. i \in 1 .. Len(s_Entities)
  OBVIOUS
<1>2. s_Entities[i] \in Entries
  BY <1>1, ElementOfSeq
<1> QED
  BY <1>1, <1>2 DEF Entries

(* There is one entry of that number afterwards, at k, with the new        *)
(* identity and the props it had, if it was there; the others are the same. *)
LEMMA AddEntityIs ==
    ASSUME s_Entities \in Seq(Entries), UniqueIds,
           NEW id \in Ids, NEW c \in Classes, NEW n \in Serials,
           NEW t, t = AddEntity(id, c, n),
           NEW k, k = IF FindEntity(id) = 0 THEN Len(s_Entities) + 1 ELSE FindEntity(id)
    PROVE  /\ t \in Seq(Entries)
           /\ k \in DOMAIN t
           /\ t[k].id = id /\ t[k].class = c /\ t[k].serial = n
           /\ (t[k].props = <<>>) \/ (k \in DOMAIN s_Entities /\ t[k].props = s_Entities[k].props)
           /\ \A i \in DOMAIN t \ {k} :
                 i \in DOMAIN s_Entities /\ t[i] = s_Entities[i] /\ t[i].id # id
           /\ \A i \in DOMAIN s_Entities \ {k} : i \in DOMAIN t
<1>1. CASE FindEntity(id) = 0
  <2>1. t = Append(s_Entities, NewEntry(id, c, n))
    BY <1>1 DEF AddEntity, NewEntry
  <2>2. NewEntry(id, c, n) \in Entries
    BY DEF NewEntry, Entries
  <2>3. /\ t \in Seq(Entries)
        /\ DOMAIN t = 1 .. Len(s_Entities) + 1
        /\ DOMAIN s_Entities = 1 .. Len(s_Entities)
        /\ Len(s_Entities) \in Nat
        /\ \A i \in DOMAIN s_Entities : t[i] = s_Entities[i]
        /\ t[Len(s_Entities) + 1] = NewEntry(id, c, n)
    BY <2>1, <2>2
  <2>4. \A i \in DOMAIN s_Entities : s_Entities[i].id # id
    BY <1>1, FindEntityNull
  <2>5. k = Len(s_Entities) + 1
    BY <1>1
  <2>6. LET e == NewEntry(id, c, n)
        IN  e.id = id /\ e.class = c /\ e.serial = n /\ e.props = <<>>
    BY DEF NewEntry
  <2>7. k \in DOMAIN t /\ t[k] = NewEntry(id, c, n)
    BY <2>3, <2>5
  <2>8. \A i \in DOMAIN t \ {k} : i \in DOMAIN s_Entities
    BY <2>3, <2>5
  <2> QED
    BY <2>3, <2>4, <2>6, <2>7, <2>8
<1>2. CASE FindEntity(id) # 0
  <2>1. k \in DOMAIN s_Entities /\ s_Entities[k].id = id
    BY <1>2, FindEntityFinds
  <2>2. k \in 1 .. Len(s_Entities) /\ s_Entities[k] \in Entries
    BY <2>1, EntryFields
  <2> PICK e \in Entries : e = s_Entities[k]
    BY <2>2
  <2> PICK f : f = [e EXCEPT !.class = c, !.serial = n]
    OBVIOUS
  <2>3. /\ f \in Entries
        /\ f.id = id /\ f.class = c /\ f.serial = n
        /\ f.props = s_Entities[k].props
    <3>1. /\ f \in Entries
          /\ f.id = e.id /\ f.class = c /\ f.serial = n
          /\ f.props = e.props
      BY DEF Entries
    <3> QED
      BY <2>1, <3>1
  <2>4. t = [s_Entities EXCEPT ![k] = f]
    BY <1>2, <2>2 DEF AddEntity
  <2>5. /\ t \in Seq(Entries)
        /\ Len(t) = Len(s_Entities)
        /\ \A j \in 1 .. Len(s_Entities) : t[j] = IF j = k THEN f ELSE s_Entities[j]
    BY <2>2, <2>3, <2>4, ExceptSeq
  <2>6. DOMAIN t = DOMAIN s_Entities /\ DOMAIN t = 1 .. Len(s_Entities)
    BY <2>5
  <2>7. \A i \in DOMAIN s_Entities \ {k} : s_Entities[i].id # id
    BY <2>1 DEF UniqueIds
  <2> QED
    BY <2>1, <2>3, <2>5, <2>6, <2>7
<1> QED
  BY <1>1, <1>2

(* The entry of that number is gone; the others are still there, each of   *)
(* them once.                                                              *)
LEMMA RemoveEntityIs ==
    ASSUME s_Entities \in Seq(Entries), UniqueIds, NEW id \in Ids,
           NEW t, t = RemoveEntity(id)
    PROVE  /\ t \in Seq(Entries)
           /\ \A i \in DOMAIN t : t[i].id # id
           /\ \A i \in DOMAIN t : \E j \in DOMAIN s_Entities : t[i] = s_Entities[j]
           /\ \A i, j \in DOMAIN t : t[i].id = t[j].id => i = j
           /\ \A j \in DOMAIN s_Entities :
                 s_Entities[j].id # id => \E i \in DOMAIN t : t[i] = s_Entities[j]
<1>1. CASE FindEntity(id) = 0
  <2>1. t = s_Entities
    BY <1>1 DEF RemoveEntity
  <2> QED
    BY <1>1, <2>1, FindEntityNull DEF UniqueIds
<1>2. CASE FindEntity(id) # 0
  <2> DEFINE k == FindEntity(id)
             m == Len(s_Entities)
  <2>1. k \in DOMAIN s_Entities /\ s_Entities[k].id = id
    BY <1>2, FindEntityFinds
  <2>2. k \in 1 .. m /\ m \in Nat /\ DOMAIN s_Entities = 1 .. m
    BY <2>1
  <2>3. t = [i \in 1 .. m - 1 |-> IF i < k THEN s_Entities[i] ELSE s_Entities[i + 1]]
    BY <1>2 DEF RemoveEntity
  <2> HIDE DEF k, m
  <2>4. \A i \in 1 .. m - 1 :
           /\ i < k => i \in 1 .. m /\ t[i] = s_Entities[i]
           /\ i >= k => i + 1 \in 1 .. m /\ t[i] = s_Entities[i + 1]
    BY <2>2, <2>3
  <2>5. t \in Seq(Entries) /\ DOMAIN t = 1 .. m - 1
    <3>1. \A i \in 1 .. m : s_Entities[i] \in Entries
      BY <2>2, EntryFields
    <3>2. \A i \in 1 .. m - 1 : t[i] \in Entries
      BY <2>2, <2>4, <3>1
    <3>3. t \in [1 .. m - 1 -> Entries] /\ m - 1 \in Nat
      BY <2>2, <2>3, <3>2
    <3> QED
      BY <3>3
  <2>6. \A i \in DOMAIN t : \E j \in 1 .. m :
           j # k /\ t[i] = s_Entities[j] /\ (j = i \/ j = i + 1) /\ (j = i <=> i < k)
    BY <2>2, <2>4, <2>5
  <2>7. \A j \in 1 .. m : s_Entities[j].id = id => j = k
    BY <2>1, <2>2 DEF UniqueIds
  <2>8. ASSUME NEW i \in DOMAIN t, NEW j \in DOMAIN t, t[i].id = t[j].id PROVE i = j
    <3>1. PICK a \in 1 .. m : t[i] = s_Entities[a] /\ (a = i \/ a = i + 1) /\ (a = i <=> i < k)
      BY <2>6
    <3>2. PICK b \in 1 .. m : t[j] = s_Entities[b] /\ (b = j \/ b = j + 1) /\ (b = j <=> j < k)
      BY <2>6
    <3>3. a = b
      BY <2>2, <2>8, <3>1, <3>2 DEF UniqueIds
    <3> QED
      BY <2>2, <2>5, <3>1, <3>2, <3>3
  <2>9. ASSUME NEW j \in 1 .. m, s_Entities[j].id # id
        PROVE  \E i \in DOMAIN t : t[i] = s_Entities[j]
    <3>1. j # k
      BY <2>1, <2>9
    <3>2. CASE j < k
      BY <2>2, <2>4, <2>5, <3>2
    <3>3. CASE j > k
      <4>1. j - 1 \in 1 .. m - 1 /\ j - 1 >= k /\ (j - 1) + 1 = j
        BY <2>2, <3>3
      <4> QED
        BY <2>4, <2>5, <4>1
    <3> QED
      BY <2>2, <3>1, <3>2, <3>3
  <2>10. \A i \in DOMAIN t : t[i].id # id
    BY <2>6, <2>7
  <2>11. \A i \in DOMAIN t : \E j \in DOMAIN s_Entities : t[i] = s_Entities[j]
    BY <2>2, <2>6
  <2> QED
    BY <2>2, <2>5, <2>8, <2>9, <2>10, <2>11
<1> QED
  BY <1>1, <1>2
-----------------------------------------------------------------------------
(* What the server has sent.                                               *)

LEMMA EmptySent ==
    NothingSent \in PartialMaps /\ DOMAIN NothingSent = {}
<1>1. NothingSent \in [{} -> Values] /\ DOMAIN NothingSent = {}
  BY DEF NothingSent
<1> QED
  BY <1>1 DEF PartialMaps

LEMMA MoreSent ==
    ASSUME NEW m \in PartialMaps, NEW name \in Names, NEW value \in Values,
           NEW q, q = [n \in DOMAIN m \union {name} |-> IF n = name THEN value ELSE m[n]]
    PROVE  /\ q \in PartialMaps
           /\ DOMAIN q = DOMAIN m \union {name}
           /\ q[name] = value
           /\ \A n \in DOMAIN m : n # name => q[n] = m[n]
<1>1. PICK D \in SUBSET Names : m \in [D -> Values]
  BY DEF PartialMaps
<1>2. q \in [D \union {name} -> Values]
  BY <1>1
<1>3. D \union {name} \in SUBSET Names
  OBVIOUS
<1> QED
  BY <1>2, <1>3 DEF PartialMaps

LEMMA HeaderType ==
    ASSUME TypeOK, NEW id \in Ids, NextEntity(id)
    PROVE  /\ bAsDelta' \in BOOLEAN
           /\ nHeaderCount' \in 0 .. MaxEdict + 1
           /\ nHeaderBase' \in -1 .. MaxEdict
<1>1. nHeaderBase' \in -1 .. MaxEdict
  BY MaxEdictAssumption DEF NextEntity, Ids, ENTITY_SENTINEL
<1>2. nHeaderCount' \in 0 .. MaxEdict + 1
  <2>1. /\ nHeaderCount \in 0 .. MaxEdict + 1
        /\ nHeaderCount - 1 >= 0
        /\ nHeaderCount' = nHeaderCount - 1
    BY DEF NextEntity, TypeOK
  <2>2. PICK m \in 0 .. MaxEdict + 1 : m = nHeaderCount
    BY <2>1
  <2> QED
    BY <2>1, <2>2, MaxEdictAssumption DEF ENTITY_SENTINEL
<1>3. bAsDelta' \in BOOLEAN
  BY DEF NextEntity, TypeOK
<1> QED
  BY <1>1, <1>2, <1>3
-----------------------------------------------------------------------------
(* Each action keeps the invariant.                                        *)

LEMMA EnterStep ==
    ASSUME IInv, NEW id \in Ids, NEW c \in Classes, NEW n \in Serials,
           EnterPVS(id, c, n)
    PROVE  IInv'
<1> DEFINE rec == [class |-> c, serial |-> n, sent |-> NothingSent]
<1>1. s_Entities \in Seq(Entries) /\ UniqueIds /\ UniqueProps
  BY DEF IInv, TypeOK
<1>2. PICK t : t = s_Entities' /\ t = AddEntity(id, c, n)
  BY DEF EnterPVS
<1>3. PICK k : k = pEntity' /\ k = IF FindEntity(id) = 0 THEN Len(s_Entities) + 1 ELSE FindEntity(id)
  BY DEF EnterPVS
<1>4. /\ t \in Seq(Entries)
      /\ k \in DOMAIN t
      /\ t[k].id = id /\ t[k].class = c /\ t[k].serial = n
      /\ (t[k].props = <<>>) \/ (k \in DOMAIN s_Entities /\ t[k].props = s_Entities[k].props)
      /\ \A i \in DOMAIN t \ {k} :
            i \in DOMAIN s_Entities /\ t[i] = s_Entities[i] /\ t[i].id # id
      /\ \A i \in DOMAIN s_Entities \ {k} : i \in DOMAIN t
  BY <1>1, <1>2, <1>3, AddEntityIs
<1>5. /\ server' = [i \in DOMAIN server \union {id} |-> IF i = id THEN rec ELSE server[i]]
      /\ DOMAIN server' = DOMAIN server \union {id}
      /\ server'[id] = rec
      /\ \A i \in DOMAIN server : i # id => server'[i] = server[i]
      /\ rec.class = c /\ rec.serial = n /\ rec.sent = NothingSent
  BY DEF EnterPVS
<1>6. TypeOK'
  <2>1. rec \in Known
    BY EmptySent DEF Known
  <2>2. DOMAIN server' \subseteq Ids /\ server' \in [DOMAIN server' -> Known]
    BY <1>5, <2>1 DEF IInv, TypeOK
  <2>3. k \in Nat
    BY <1>4
  <2>4. pc' = "fields" /\ fieldIndices' \subseteq 0 .. MaxIndex /\ sound' \in BOOLEAN
    BY DEF IInv, TypeOK, EnterPVS, ReadFieldIndices
  <2>5. /\ bAsDelta' \in BOOLEAN
        /\ nHeaderCount' \in 0 .. MaxEdict + 1
        /\ nHeaderBase' \in -1 .. MaxEdict
    BY HeaderType DEF IInv, EnterPVS
  <2> QED
    BY <1>2, <1>3, <1>4, <2>2, <2>3, <2>4, <2>5 DEF TypeOK
<1>7. UniqueIds'
  <2>1. \A i, j \in DOMAIN t : t[i].id = t[j].id => i = j
    BY <1>1, <1>4 DEF UniqueIds
  <2> QED
    BY <1>2, <2>1 DEF UniqueIds
<1>8. UniqueProps'
  <2>1. \A e \in DOMAIN t :
           \A i, j \in DOMAIN t[e].props : t[e].props[i].name = t[e].props[j].name => i = j
    BY <1>1, <1>4 DEF UniqueProps
  <2> QED
    BY <1>2, <2>1 DEF UniqueProps
<1>9. NoneMissing'
  BY DEF NoneMissing, EnterPVS, ReadFieldIndices
<1>10. SameEntity'
  <2>1. ASSUME sound', NEW x \in DOMAIN server'
        PROVE  \E i \in DOMAIN t : t[i].id = x /\ t[i].class = server'[x].class
                                               /\ t[i].serial = server'[x].serial
    <3>1. CASE x = id
      BY <1>4, <1>5, <3>1
    <3>2. CASE x # id
      <4>1. sound /\ x \in DOMAIN server
        BY <1>5, <2>1, <3>2 DEF EnterPVS
      <4>2. PICK i \in DOMAIN s_Entities :
               s_Entities[i].id = x /\ s_Entities[i].class = server[x].class
                                    /\ s_Entities[i].serial = server[x].serial
        BY <4>1 DEF IInv, SameEntity
      <4>3. CASE i = k
        <5>1. FindEntity(id) # 0
          BY <1>1, <1>3, <4>2, <4>3
        <5> QED
          BY <1>1, <1>3, <3>2, <4>2, <4>3, <5>1, FindEntityFinds
      <4>4. CASE i # k
        BY <1>4, <1>5, <3>2, <4>1, <4>2, <4>4
      <4> QED
        BY <4>3, <4>4
    <3> QED
      BY <3>1, <3>2
  <2> QED
    BY <1>2, <2>1 DEF SameEntity
<1>11. LatestValue'
  <2>1. ASSUME sound', NEW i \in DOMAIN t, t[i].id \in DOMAIN server',
               NEW m \in DOMAIN server'[t[i].id].sent
        PROVE  /\ FindProp(t[i].props, m) # 0
               /\ t[i].props[FindProp(t[i].props, m)].value = server'[t[i].id].sent[m]
    <3>1. i # k
      BY <1>4, <1>5, <2>1, EmptySent
    <3>2. sound /\ i \in DOMAIN s_Entities /\ t[i] = s_Entities[i] /\ t[i].id # id
      BY <1>4, <2>1, <3>1 DEF EnterPVS
    <3>3. t[i].id \in DOMAIN server /\ server'[t[i].id] = server[t[i].id]
      BY <1>5, <2>1, <3>2
    <3> QED
      BY <2>1, <3>2, <3>3 DEF IInv, LatestValue
  <2> QED
    BY <1>2, <2>1 DEF LatestValue
<1>12. AtEntry'
  BY <1>2, <1>3, <1>4 DEF AtEntry
<1> QED
  BY <1>6, <1>7, <1>8, <1>9, <1>10, <1>11, <1>12 DEF IInv

LEMMA LeaveStep ==
    ASSUME IInv, NEW id \in Ids, LeavePVS(id)
    PROVE  IInv'
<1>1. s_Entities \in Seq(Entries) /\ UniqueIds /\ UniqueProps
  BY DEF IInv, TypeOK
<1>2. /\ server' = [i \in DOMAIN server \ {id} |-> server[i]]
      /\ DOMAIN server' = DOMAIN server \ {id}
      /\ \A i \in DOMAIN server' : i # id /\ server'[i] = server[i]
  BY DEF LeavePVS
<1>3. pc = "entity" /\ pEntity' = pEntity /\ fieldIndices' = fieldIndices
  BY DEF LeavePVS, NextEntity
<1>4. DOMAIN server' \subseteq Ids /\ server' \in [DOMAIN server' -> Known]
  BY <1>2 DEF IInv, TypeOK
<1>5. /\ bAsDelta' \in BOOLEAN
      /\ nHeaderCount' \in 0 .. MaxEdict + 1
      /\ nHeaderBase' \in -1 .. MaxEdict
  BY HeaderType DEF IInv, LeavePVS
<1>6. CASE bAsDelta
  <2>1. PICK t : t = s_Entities' /\ t = RemoveEntity(id)
    BY <1>6 DEF LeavePVS
  <2>2. pc' = "entity" /\ sound' = sound
    BY <1>3, <1>6 DEF LeavePVS
  <2>3. /\ t \in Seq(Entries)
        /\ \A i \in DOMAIN t : t[i].id # id
        /\ \A i \in DOMAIN t : \E j \in DOMAIN s_Entities : t[i] = s_Entities[j]
        /\ \A i, j \in DOMAIN t : t[i].id = t[j].id => i = j
        /\ \A j \in DOMAIN s_Entities :
              s_Entities[j].id # id => \E i \in DOMAIN t : t[i] = s_Entities[j]
    BY <1>1, <2>1, RemoveEntityIs
  <2>4. TypeOK'
    BY <1>3, <1>4, <1>5, <2>1, <2>2, <2>3 DEF IInv, TypeOK
  <2>5. UniqueIds'
    BY <2>1, <2>3 DEF UniqueIds
  <2>6. UniqueProps'
    <3>1. \A e \in DOMAIN t :
             \A i, j \in DOMAIN t[e].props : t[e].props[i].name = t[e].props[j].name => i = j
      BY <1>1, <2>3 DEF UniqueProps
    <3> QED
      BY <2>1, <3>1 DEF UniqueProps
  <2>7. NoneMissing' /\ AtEntry'
    BY <2>2 DEF NoneMissing, AtEntry
  <2>8. SameEntity'
    <3>1. ASSUME sound', NEW x \in DOMAIN server'
          PROVE  \E i \in DOMAIN t : t[i].id = x /\ t[i].class = server'[x].class
                                                 /\ t[i].serial = server'[x].serial
      <4>1. sound /\ x \in DOMAIN server /\ x # id /\ server'[x] = server[x]
        BY <1>2, <2>2, <3>1
      <4>2. PICK j \in DOMAIN s_Entities :
               s_Entities[j].id = x /\ s_Entities[j].class = server[x].class
                                    /\ s_Entities[j].serial = server[x].serial
        BY <4>1 DEF IInv, SameEntity
      <4> QED
        BY <2>3, <4>1, <4>2
    <3> QED
      BY <2>1, <3>1 DEF SameEntity
  <2>9. LatestValue'
    <3>1. ASSUME sound', NEW i \in DOMAIN t, t[i].id \in DOMAIN server',
                 NEW m \in DOMAIN server'[t[i].id].sent
          PROVE  /\ FindProp(t[i].props, m) # 0
                 /\ t[i].props[FindProp(t[i].props, m)].value = server'[t[i].id].sent[m]
      <4>1. PICK j \in DOMAIN s_Entities : t[i] = s_Entities[j]
        BY <2>3
      <4>2. /\ sound
            /\ s_Entities[j].id \in DOMAIN server
            /\ server'[t[i].id] = server[s_Entities[j].id]
        BY <1>2, <2>2, <3>1, <4>1
      <4> QED
        BY <3>1, <4>1, <4>2 DEF IInv, LatestValue
    <3> QED
      BY <2>1, <3>1 DEF LatestValue
  <2> QED
    BY <2>4, <2>5, <2>6, <2>7, <2>8, <2>9 DEF IInv
<1>7. CASE ~bAsDelta
  <2>1. s_Entities' = s_Entities /\ pc' = "abort" /\ ~sound' /\ sound' \in BOOLEAN
    BY <1>7 DEF LeavePVS
  <2>2. TypeOK'
    BY <1>1, <1>3, <1>4, <1>5, <2>1 DEF IInv, TypeOK
  <2>3. UniqueIds' /\ UniqueProps'
    BY <1>1, <2>1 DEF UniqueIds, UniqueProps
  <2>4. NoneMissing' /\ SameEntity' /\ LatestValue' /\ AtEntry'
    BY <2>1 DEF NoneMissing, SameEntity, LatestValue, AtEntry
  <2> QED
    BY <2>2, <2>3, <2>4 DEF IInv
<1> QED
  BY <1>6, <1>7

LEMMA DeltaStep ==
    ASSUME IInv, NEW id \in Ids, DeltaEnt(id)
    PROVE  IInv'
<1>1. s_Entities \in Seq(Entries) /\ UniqueIds /\ UniqueProps /\ sound \in BOOLEAN
  BY DEF IInv, TypeOK
<1>2. s_Entities' = s_Entities /\ server' = server /\ (sound' <=> sound /\ id \in DOMAIN server)
  BY <1>1 DEF DeltaEnt
<1>3. sound' \in BOOLEAN
  BY DEF DeltaEnt
<1>4. /\ bAsDelta' \in BOOLEAN
      /\ nHeaderCount' \in 0 .. MaxEdict + 1
      /\ nHeaderBase' \in -1 .. MaxEdict
  BY HeaderType DEF IInv, DeltaEnt
<1>5. UniqueIds' /\ UniqueProps' /\ SameEntity' /\ LatestValue'
  BY <1>2 DEF IInv, UniqueIds, UniqueProps, SameEntity, LatestValue
<1>6. CASE FindEntity(id) = 0
  <2>1. pc' = "abort" /\ pEntity' = pEntity /\ fieldIndices' = fieldIndices
    BY <1>6 DEF DeltaEnt
  <2>2. TypeOK'
    BY <1>2, <1>3, <1>4, <2>1 DEF IInv, TypeOK
  <2>3. ~(sound /\ id \in DOMAIN server)
    BY <1>1, <1>6, FindEntityNull DEF IInv, SameEntity
  <2>4. NoneMissing' /\ AtEntry'
    BY <1>2, <2>1, <2>3 DEF NoneMissing, AtEntry
  <2> QED
    BY <1>5, <2>2, <2>4 DEF IInv
<1>7. CASE FindEntity(id) # 0
  <2>1. pc' = "fields" /\ pEntity' = FindEntity(id) /\ fieldIndices' \subseteq 0 .. MaxIndex
    BY <1>7 DEF DeltaEnt, ReadFieldIndices
  <2>2. FindEntity(id) \in DOMAIN s_Entities /\ FindEntity(id) \in Nat
    <3>1. FindEntity(id) \in DOMAIN s_Entities
      BY <1>1, <1>7, FindEntityFinds
    <3> QED
      BY <1>1, <3>1
  <2>3. TypeOK'
    BY <1>2, <1>3, <1>4, <2>1, <2>2 DEF IInv, TypeOK
  <2>4. NoneMissing' /\ AtEntry'
    BY <1>2, <2>1, <2>2 DEF NoneMissing, AtEntry
  <2> QED
    BY <1>5, <2>3, <2>4 DEF IInv
<1> QED
  BY <1>6, <1>7

LEMMA DecodeStep ==
    ASSUME IInv, NEW index \in 0 .. MaxIndex, NEW value \in Values,
           DecodeField(index, value)
    PROVE  IInv'
<1> DEFINE name == NameOf(index)
<1>1. /\ s_Entities \in Seq(Entries) /\ UniqueIds /\ UniqueProps
      /\ pc = "fields" /\ pc' = "fields"
      /\ pEntity' = pEntity /\ sound' = sound
      /\ pEntity \in DOMAIN s_Entities
  BY DEF IInv, TypeOK, AtEntry, DecodeField, IsNextField
<1>2. PICK k \in DOMAIN s_Entities : k = pEntity
  BY <1>1
<1>3. PICK e \in Entries : e = s_Entities[k]
  BY <1>1, EntryFields
<1>4. /\ e.id \in Ids /\ e.class \in Classes /\ e.props \in Seq(Props)
      /\ k \in 1 .. Len(s_Entities)
  BY <1>1, <1>3, EntryFields
<1>5. name \in Names
  <2>1. PropNames[e.class] \in Seq(Names)
    BY <1>4, PropNamesAssumption
  <2>2. index + 1 \in 1 .. Len(PropNames[e.class])
    BY <1>2, <1>3, <2>1 DEF DecodeField, HasProp
  <2> QED
    BY <1>2, <1>3, <2>1, <2>2, ElementOfSeq DEF NameOf
<1>6. PICK new : new = AddOrUpdateProp(e.props, name, value)
  OBVIOUS
<1>7. UniqueNames(e.props)
  BY <1>1, <1>3 DEF UniqueProps, UniqueNames
<1> HIDE DEF name
<1>8. /\ new \in Seq(Props)
      /\ UniqueNames(new)
      /\ FindProp(new, name) # 0
      /\ new[FindProp(new, name)].value = value
      /\ \A n : n # name /\ FindProp(e.props, n) # 0 =>
            /\ FindProp(new, n) # 0
            /\ new[FindProp(new, n)].value = e.props[FindProp(e.props, n)].value
  BY <1>4, <1>5, <1>6, <1>7, AddOrUpdatePropIs
<1>9. PICK f : f = [e EXCEPT !.props = new]
  OBVIOUS
<1>10. /\ f \in Entries
       /\ f.id = e.id /\ f.class = e.class /\ f.serial = e.serial
       /\ f.props = new
  BY <1>8, <1>9 DEF Entries
<1>11. PICK t : t = s_Entities' /\ t = [s_Entities EXCEPT ![k] = f]
  BY <1>2, <1>3, <1>6, <1>9 DEF DecodeField, name
<1>12. /\ t \in Seq(Entries)
       /\ DOMAIN t = DOMAIN s_Entities
       /\ t[k] = f
       /\ \A i \in DOMAIN t : i # k => t[i] = s_Entities[i]
       /\ \A i \in DOMAIN t : /\ t[i].id = s_Entities[i].id
                              /\ t[i].class = s_Entities[i].class
                              /\ t[i].serial = s_Entities[i].serial
  <2>1. /\ t \in Seq(Entries)
        /\ Len(t) = Len(s_Entities)
        /\ \A j \in 1 .. Len(s_Entities) : t[j] = IF j = k THEN f ELSE s_Entities[j]
    BY <1>1, <1>4, <1>10, <1>11, ExceptSeq
  <2>2. DOMAIN t = 1 .. Len(s_Entities) /\ DOMAIN s_Entities = 1 .. Len(s_Entities)
    BY <1>1, <2>1
  <2> QED
    BY <1>3, <1>4, <1>10, <2>1, <2>2
<1>13. /\ DOMAIN server' = DOMAIN server
       /\ DOMAIN server' \subseteq Ids
       /\ server' \in [DOMAIN server' -> Known]
       /\ \A x \in DOMAIN server : /\ server'[x].class = server[x].class
                                   /\ server'[x].serial = server[x].serial
                                   /\ x # e.id => server'[x] = server[x]
       /\ e.id \in DOMAIN server =>
             /\ DOMAIN server'[e.id].sent = DOMAIN server[e.id].sent \union {name}
             /\ server'[e.id].sent[name] = value
             /\ \A n \in DOMAIN server[e.id].sent :
                   n # name => server'[e.id].sent[n] = server[e.id].sent[n]
  <2>1. server' = Sent(e.id, name, value)
    BY <1>2, <1>3 DEF DecodeField, name
  <2>2. DOMAIN server \subseteq Ids /\ server \in [DOMAIN server -> Known]
    BY DEF IInv, TypeOK
  <2>3. CASE e.id \notin DOMAIN server
    BY <2>1, <2>2, <2>3 DEF Sent
  <2>4. CASE e.id \in DOMAIN server
    <3>1. PICK r \in Known : r = server[e.id]
      BY <2>2, <2>4
    <3>2. PICK m \in PartialMaps : m = r.sent
      BY DEF Known
    <3>3. PICK q : q = [n \in DOMAIN m \union {name} |-> IF n = name THEN value ELSE m[n]]
      OBVIOUS
    <3>4. /\ q \in PartialMaps
          /\ DOMAIN q = DOMAIN m \union {name}
          /\ q[name] = value
          /\ \A n \in DOMAIN m : n # name => q[n] = m[n]
      BY <1>5, <3>3, MoreSent
    <3>5. PICK s : s = [r EXCEPT !.sent = q]
      OBVIOUS
    <3>6. s \in Known /\ s.class = r.class /\ s.serial = r.serial /\ s.sent = q
      BY <3>4, <3>5 DEF Known
    <3>7. server' = [server EXCEPT ![e.id] = s]
      BY <2>1, <2>4, <3>1, <3>2, <3>3, <3>5 DEF Sent
    <3>8. /\ DOMAIN server' = DOMAIN server
          /\ server'[e.id] = s
          /\ \A x \in DOMAIN server : x # e.id => server'[x] = server[x]
      BY <2>2, <2>4, <3>7
    <3>9. server' \in [DOMAIN server' -> Known]
      BY <2>2, <2>4, <3>6, <3>7
    <3> QED
      BY <2>2, <3>1, <3>2, <3>4, <3>6, <3>8, <3>9
  <2> QED
    BY <2>3, <2>4
<1>14. TypeOK'
  <2>1. fieldIndices' \subseteq 0 .. MaxIndex
    BY DEF IInv, TypeOK, DecodeField
  <2>2. UNCHANGED header /\ pEntity \in Nat
    BY DEF IInv, TypeOK, DecodeField
  <2> QED
    BY <1>1, <1>11, <1>12, <1>13, <2>1, <2>2 DEF IInv, TypeOK, header
<1>15. UniqueIds'
  <2>1. \A i, j \in DOMAIN t : t[i].id = t[j].id => i = j
    BY <1>1, <1>12 DEF UniqueIds
  <2> QED
    BY <1>11, <2>1 DEF UniqueIds
<1>16. UniqueProps'
  <2>1. \A x \in DOMAIN t : UniqueNames(t[x].props)
    BY <1>1, <1>8, <1>10, <1>12 DEF UniqueProps, UniqueNames
  <2> QED
    BY <1>11, <2>1 DEF UniqueProps, UniqueNames
<1>17. NoneMissing' /\ AtEntry'
  BY <1>1, <1>11, <1>12 DEF NoneMissing, AtEntry
<1>18. SameEntity'
  <2>1. ASSUME sound', NEW x \in DOMAIN server'
        PROVE  \E i \in DOMAIN t : t[i].id = x /\ t[i].class = server'[x].class
                                               /\ t[i].serial = server'[x].serial
    <3>1. PICK j \in DOMAIN s_Entities :
             s_Entities[j].id = x /\ s_Entities[j].class = server[x].class
                                  /\ s_Entities[j].serial = server[x].serial
      BY <1>1, <1>13, <2>1 DEF IInv, SameEntity
    <3> QED
      BY <1>12, <1>13, <2>1, <3>1
  <2> QED
    BY <1>11, <2>1 DEF SameEntity
<1>19. LatestValue'
  <2>1. ASSUME sound', NEW i \in DOMAIN t, t[i].id \in DOMAIN server',
               NEW n \in DOMAIN server'[t[i].id].sent
        PROVE  /\ FindProp(t[i].props, n) # 0
               /\ t[i].props[FindProp(t[i].props, n)].value = server'[t[i].id].sent[n]
    <3>1. sound /\ i \in DOMAIN s_Entities /\ s_Entities[i].id \in DOMAIN server
      BY <1>1, <1>12, <1>13, <2>1
    <3>2. \A m \in DOMAIN server[s_Entities[i].id].sent :
             /\ FindProp(s_Entities[i].props, m) # 0
             /\ s_Entities[i].props[FindProp(s_Entities[i].props, m)].value
                   = server[s_Entities[i].id].sent[m]
      BY <3>1 DEF IInv, LatestValue
    <3>3. CASE i = k
      <4>1. t[i].id = e.id /\ t[i].props = new /\ s_Entities[i] = e
        BY <1>3, <1>10, <1>12, <3>3
      <4>2. CASE n = name
        BY <1>8, <1>13, <3>1, <4>1, <4>2
      <4>3. CASE n # name
        BY <1>8, <1>13, <2>1, <3>1, <3>2, <4>1, <4>3
      <4> QED
        BY <4>2, <4>3
    <3>4. CASE i # k
      <4>1. t[i] = s_Entities[i] /\ s_Entities[i].id # e.id
        BY <1>1, <1>3, <1>12, <3>4 DEF UniqueIds
      <4>2. server'[t[i].id] = server[s_Entities[i].id]
        BY <1>13, <3>1, <4>1
      <4> QED
        BY <2>1, <3>2, <4>1, <4>2
    <3> QED
      BY <3>3, <3>4
  <2> QED
    BY <1>11, <2>1 DEF LatestValue
<1> QED
  BY <1>14, <1>15, <1>16, <1>17, <1>18, <1>19 DEF IInv

LEMMA BeginStep ==
    ASSUME IInv, BeginMessage
    PROVE  IInv'
<1>1. /\ s_Entities' = s_Entities /\ pc' = "entity" /\ sound' = sound
      /\ pEntity' = pEntity /\ fieldIndices' = fieldIndices
      /\ bAsDelta' \in BOOLEAN /\ nHeaderCount' \in 0 .. MaxEdict + 1
      /\ nHeaderBase' = -1
      /\ server' = server \/ server' = NothingSent
  BY DEF BeginMessage
<1>2. -1 \in -1 .. MaxEdict
  BY MaxEdictAssumption DEF ENTITY_SENTINEL
<1>3. server' = server \/ DOMAIN server' = {}
  BY <1>1, EmptySent
<1>4. DOMAIN server' \subseteq Ids /\ server' \in [DOMAIN server' -> Known]
  <2>1. CASE server' = server
    BY <2>1 DEF IInv, TypeOK
  <2>2. CASE server' = NothingSent
    BY <2>2 DEF NothingSent
  <2> QED
    BY <1>1, <2>1, <2>2
<1>5. TypeOK'
  BY <1>1, <1>2, <1>4 DEF IInv, TypeOK
<1>6. UniqueIds' /\ UniqueProps' /\ NoneMissing' /\ AtEntry'
  BY <1>1 DEF IInv, UniqueIds, UniqueProps, NoneMissing, AtEntry
<1>7. SameEntity' /\ LatestValue'
  BY <1>1, <1>3 DEF IInv, SameEntity, LatestValue
<1> QED
  BY <1>5, <1>6, <1>7 DEF IInv

(* The steps that only move on in the message.                             *)
LEMMA MoveStep ==
    ASSUME IInv, UNCHANGED <<s_Entities, header, pEntity, server>>,
           \/ UNCHANGED <<pc, fieldIndices, sound>>
           \/ /\ pc' \in {"idle", "entity"}
              /\ fieldIndices' \in {{}, fieldIndices}
              /\ sound' \in {FALSE, sound}
    PROVE  IInv'
<1>1. TypeOK'
  BY DEF IInv, TypeOK, header
<1>2. UniqueIds' /\ UniqueProps'
  BY DEF IInv, UniqueIds, UniqueProps
<1>3. NoneMissing' /\ AtEntry'
  <2>1. CASE UNCHANGED <<pc, fieldIndices, sound>>
    BY <2>1 DEF IInv, NoneMissing, AtEntry
  <2>2. CASE pc' \in {"idle", "entity"}
    BY <2>2 DEF NoneMissing, AtEntry
  <2> QED
    BY <2>1, <2>2
<1>4. sound' => sound
  BY DEF IInv, TypeOK
<1>5. SameEntity' /\ LatestValue'
  BY <1>4 DEF IInv, SameEntity, LatestValue
<1> QED
  BY <1>1, <1>2, <1>3, <1>5 DEF IInv
-----------------------------------------------------------------------------
LEMMA InitIInv == Init => IInv
<1> SUFFICES ASSUME Init PROVE IInv
  OBVIOUS
<1>1. s_Entities = <<>> /\ DOMAIN s_Entities = {}
  BY DEF Init
<1>2. DOMAIN server = {} /\ server = NothingSent
  BY EmptySent DEF Init
<1>3. server \in [DOMAIN server -> Known]
  BY <1>2 DEF NothingSent
<1>4. 0 \in 0 .. MaxEdict + 1 /\ -1 \in -1 .. MaxEdict
  BY MaxEdictAssumption DEF ENTITY_SENTINEL
<1>5. TypeOK
  <2>1. s_Entities \in Seq(Entries)
    BY <1>1
  <2>2. pc \in {"idle", "entity", "fields", "abort"} /\ sound \in BOOLEAN
    BY DEF Init
  <2>3. bAsDelta \in BOOLEAN /\ nHeaderCount \in 0 .. MaxEdict + 1
    BY <1>4 DEF Init
  <2>4. nHeaderBase \in -1 .. MaxEdict
    BY <1>4 DEF Init
  <2>5. pEntity \in Nat /\ fieldIndices \subseteq 0 .. MaxIndex
    BY DEF Init
  <2>6. DOMAIN server \subseteq Ids
    BY <1>2
  <2> QED
    BY <1>3, <2>1, <2>2, <2>3, <2>4, <2>5, <2>6 DEF TypeOK
<1>6. UniqueIds /\ UniqueProps /\ NoneMissing /\ SameEntity /\ LatestValue /\ AtEntry
  BY <1>1, <1>2 DEF Init, UniqueIds, UniqueProps, NoneMissing, SameEntity, LatestValue, AtEntry
<1> QED
  BY <1>5, <1>6 DEF IInv

LEMMA NextIInv == IInv /\ [Next]_vars => IInv'
<1> SUFFICES ASSUME IInv, [Next]_vars PROVE IInv'
  OBVIOUS
<1>1. CASE BeginMessage
  BY <1>1, BeginStep
<1>2. ASSUME NEW id \in Ids, NEW c \in Classes, NEW n \in Serials, EnterPVS(id, c, n)
      PROVE  IInv'
  BY <1>2, EnterStep
<1>3. ASSUME NEW id \in Ids, LeavePVS(id) PROVE IInv'
  BY <1>3, LeaveStep
<1>4. ASSUME NEW id \in Ids, DeltaEnt(id) PROVE IInv'
  BY <1>4, DeltaStep
<1>5. ASSUME NEW i \in 0 .. MaxIndex, NEW v \in Values, DecodeField(i, v) PROVE IInv'
  BY <1>5, DecodeStep
<1>6. ASSUME NEW i \in 0 .. MaxIndex, Bail(i) PROVE IInv'
  BY <1>6, MoveStep DEF Bail
<1>7. CASE EndFields
  BY <1>7, MoveStep DEF EndFields
<1>8. CASE Finished
  BY <1>8, MoveStep DEF Finished
<1>9. CASE UNCHANGED vars
  BY <1>9, MoveStep DEF vars, header
<1> QED
  BY <1>1, <1>2, <1>3, <1>4, <1>5, <1>6, <1>7, <1>8, <1>9 DEF Next, Aborted

(* The inductive invariant holds of every behaviour.                       *)
THEOREM Invariant == Spec => []IInv
<1>1. Init => IInv
  BY InitIInv
<1>2. IInv /\ [Next]_vars => IInv'
  BY NextIInv
<1> QED
  BY <1>1, <1>2, PTL DEF Spec

(* The table holds no two entries of one number and no entry two props of  *)
(* one name, after any sequence of messages: FindEntity and FindProp find  *)
(* all there is to find, and what RemoveEntity removes is gone.            *)
THEOREM NothingTwice == Spec => []IsMap
<1>1. IInv => IsMap
  BY DEF IInv, IsMap
<1> QED
  BY <1>1, Invariant, PTL

(* As long as the server keeps to the rules, no assertion of the loop over *)
(* the entities fails (demofiledump.cpp:1251 and 1289).                    *)
THEOREM AssertionsHold == Spec => []NoneMissing
<1>1. IInv => NoneMissing
  BY DEF IInv
<1> QED
  BY <1>1, Invariant, PTL

(* The table has every entity the server knows, of the class the server    *)
(* encodes its changes for, and FindProp finds the last value that the     *)
(* server sent for each name.                                              *)
THEOREM TableFollowsServer == Spec => []FollowsServer
<1>1. IInv => FollowsServer
  BY DEF IInv, FollowsServer
<1> QED
  BY <1>1, Invariant, PTL

(* Every variable stays in its range.                                      *)
THEOREM TypeCorrect == Spec => []TypeOK
<1>1. IInv => TypeOK
  BY DEF IInv
<1> QED
  BY <1>1, Invariant, PTL
=============================================================================
