----------------------------- MODULE SendTables -----------------------------
(***************************************************************************)
(* ParseDataTable of src/demofiledump.cpp: the send tables and the classes *)
(* of a dem_datatables command, and for every class the list of its props, *)
(* flattened out of the tables its own table refers to.  A field index of  *)
(* an entity is a position in that list, so it must be the server's list.  *)
(* The sort at its end is that of PropSort.                                *)
(***************************************************************************)
EXTENDS PropSort, FiniteSetsExt, SequencesExt

CONSTANT Recordings \* what a dem_datatables command may hold

NoElement == -1 \* NULL

(* A flattened prop points to its prop, and to the one in front of it if   *)
(* it is an array.                                                         *)
FlattenedPropEntry(table, iProp) ==
    LET prop == table.props[iProp]
    IN  [table |-> table.net_table_name, prop |-> iProp,
         element |-> IF prop.type = "Array" THEN iProp - 1 ELSE NoElement,
         priority |-> prop.priority, often |-> prop.often]

(* The number of classes is a short.  No table is below itself: the        *)
(* recursion over the tables would not end.                                *)
IsSequence(s) == Len(s) \in Nat /\ s = [k \in 1 .. Len(s) |-> s[k]]
RefersTo(table, below) ==
    \E p \in ToSet(table.props) : p.type = "DataTable" /\ p.dt_name = below.net_table_name
IsRecording(r) ==
    /\ r.is_end \in BOOLEAN /\ IsSequence(r.tables) /\ IsSequence(r.classes)
    /\ \A i \in DOMAIN r.classes : r.classes[i].nClassID \in Int
    /\ Len(r.classes) < 2^15
    /\ \A i \in DOMAIN r.tables :
          /\ IsSequence(r.tables[i].props)
          /\ \A iProp \in DOMAIN r.tables[i].props :
                FlattenedPropEntry(r.tables[i], iProp) \in Props
    /\ \E level \in [DOMAIN r.tables -> DOMAIN r.tables] :
          \A i, j \in DOMAIN r.tables :
              RefersTo(r.tables[i], r.tables[j]) => level[j] < level[i]
ASSUME RecordingsAssumption == \A r \in Recordings : IsRecording(r)

VARIABLES
    recording,          \* the one that is parsed
    s_DataTables,
    s_ServerClasses,    \* but for the props of the one that is being sorted
    s_currentExcludes,
    s_nServerClassBits,
    nServerClass,       \* how many classes are flattened
    pc                  \* "tables", "classes", "flatten", "done", "failed",
                        \* "abort" of an assertion, "undefined"

parsed == <<recording, s_DataTables, s_ServerClasses, s_currentExcludes,
            s_nServerClassBits, nServerClass, pc>>
vars == <<sortVars, parsed>>

nServerClasses == Len(recording.classes)
-----------------------------------------------------------------------------
(* The first class of that ID has the table; 0 if there is none.           *)
GetTableByClassID(nClassID) ==
    LET found == {i \in DOMAIN s_ServerClasses : s_ServerClasses[i].nClassID = nClassID}
    IN  IF found = {} THEN 0 ELSE s_ServerClasses[Min(found)].nDataTable

(* The first table of that name, 0 if there is none.                       *)
GetTableByName(name) ==
    LET found == {i \in DOMAIN s_DataTables : s_DataTables[i].net_table_name = name}
    IN  IF found = {} THEN 0 ELSE Min(found)

SubTables(table) ==
    {GetTableByName(p.dt_name) :
        p \in {q \in ToSet(s_DataTables[table].props) : q.type = "DataTable"}} \ {0}

(* Below a table are as many levels of tables as there are tables, or less.*)
Depths == 0 .. Len(s_DataTables)

(* The excludes of a table and of all below it, excluded or not.           *)
GatherExcludes(table, below) ==
    {<<p.dt_name, p.var_name>> : p \in {q \in ToSet(s_DataTables[table].props) : q.exclude}}
        \union UNION {below[i] : i \in SubTables(table)}
ExcludesOf(root) ==
    LET gather[depth \in Depths] ==
            [table \in DOMAIN s_DataTables |->
                IF depth = 0 THEN {} ELSE GatherExcludes(table, gather[depth - 1])]
    IN  gather[Len(s_DataTables)][root]

IsPropExcluded(excludes, table, prop) ==
    <<table.net_table_name, prop.var_name>> \in excludes

Skipped(excludes, table, prop) ==
    prop.insideArray \/ prop.exclude \/ IsPropExcluded(excludes, table, prop)

(* What is appended to the class while a table is iterated, and what to   *)
(* the list of the table at hand.                                          *)
Nothing == [class |-> <<>>, temp |-> <<>>]
(* The list of a table that is not collapsed is appended to the class.     *)
GatherProps(all) == all.class \o all.temp
OfProp(excludes, table, iProp, below) ==
    LET prop == s_DataTables[table].props[iProp]
        sub == GetTableByName(prop.dt_name)
    IN  IF Skipped(excludes, s_DataTables[table], prop) THEN Nothing
        ELSE IF prop.type # "DataTable"
        THEN [class |-> <<>>, temp |-> <<FlattenedPropEntry(s_DataTables[table], iProp)>>]
        ELSE IF sub = 0 THEN Nothing
        ELSE IF prop.collapsible THEN below[sub]
        ELSE [class |-> GatherProps(below[sub]), temp |-> <<>>]
GatherProps_IterateProps(excludes, table, below) ==
    LET all == [iProp \in DOMAIN s_DataTables[table].props |->
                    OfProp(excludes, table, iProp, below)]
    IN  [class |-> FlattenSeq([iProp \in DOMAIN all |-> all[iProp].class]),
         temp |-> FlattenSeq([iProp \in DOMAIN all |-> all[iProp].temp])]
PropsOf(excludes, root) ==
    LET gather[depth \in Depths] ==
            [table \in DOMAIN s_DataTables |->
                IF depth = 0 THEN Nothing
                ELSE GatherProps_IterateProps(excludes, table, gather[depth - 1])]
    IN  GatherProps(gather[Len(s_DataTables)][root])

(* An array that is the first prop of its table has nothing in front of it.*)
ReadsInFront(props) == \E i \in DOMAIN props : props[i].element = 0
-----------------------------------------------------------------------------
Init ==
    /\ recording \in Recordings
    /\ s_DataTables = <<>> /\ s_ServerClasses = <<>>
    /\ s_currentExcludes = {} /\ s_nServerClassBits = 0
    /\ nServerClass = 0
    /\ pc = "tables"
    /\ flattenedProps = <<>> /\ gathered = <<>>
    /\ priorities = {} /\ start = 0 /\ sorting = FALSE

ReadTable ==
    /\ pc = "tables"
    /\ Len(s_DataTables) < Len(recording.tables)
    /\ s_DataTables' = Append(s_DataTables, recording.tables[Len(s_DataTables) + 1])
    /\ UNCHANGED <<sortVars, recording, s_ServerClasses, s_currentExcludes,
                   s_nServerClassBits, nServerClass, pc>>

(* The tables end with a mark, and the number of classes is behind it, or  *)
(* else with the data: the buffer, of a fixed size, does not end there,    *)
(* and what it held before is read on, until that is refused or for good.  *)
EndTables ==
    /\ pc = "tables"
    /\ Len(s_DataTables) = Len(recording.tables)
    /\ IF recording.is_end
       THEN pc' = IF nServerClasses # 0 THEN "classes" ELSE "abort"
       ELSE pc' \in {"failed", "undefined"}
    /\ UNCHANGED <<sortVars, recording, s_DataTables, s_ServerClasses, s_currentExcludes,
                   s_nServerClassBits, nServerClass>>

(* Mutant: the last class is taken for an invalid one.                     *)
BeyondLast(nClassID) == nClassID >= nServerClasses - 1
(* Mutant: one more is accepted.                                           *)
BeyondNext(nClassID) == nClassID > nServerClasses
InvalidClassIndex(nClassID) == nClassID >= nServerClasses

ReadServerClass ==
    /\ pc = "classes"
    /\ Len(s_ServerClasses) < nServerClasses
    /\ LET entry == recording.classes[Len(s_ServerClasses) + 1]
       IN  IF InvalidClassIndex(entry.nClassID)
           THEN pc' = "failed" /\ UNCHANGED s_ServerClasses
           ELSE /\ s_ServerClasses' = Append(s_ServerClasses,
                     [nClassID |-> entry.nClassID,
                      nDataTable |-> GetTableByName(entry.strDTName),
                      flattenedProps |-> <<>>])
                /\ UNCHANGED pc
    /\ UNCHANGED <<sortVars, recording, s_DataTables, s_currentExcludes,
                   s_nServerClassBits, nServerClass>>

EndClasses ==
    /\ pc = "classes"
    /\ Len(s_ServerClasses) = nServerClasses
    /\ pc' = "flatten"
    /\ UNCHANGED <<sortVars, recording, s_DataTables, s_ServerClasses, s_currentExcludes,
                   s_nServerClassBits, nServerClass>>

(* Mutant: the excludes of the class before are kept.                      *)
KeepExcludes(table) == s_currentExcludes \union ExcludesOf(table)
ClearedExcludes(table) == ExcludesOf(table)

(* The table of a class whose table is not among them is read in front of  *)
(* the array.                                                              *)
FlattenDataTable ==
    /\ pc = "flatten" /\ ~sorting
    /\ nServerClass < nServerClasses
    /\ LET class == s_ServerClasses[nServerClass + 1]
           excludes == ClearedExcludes(class.nDataTable)
           props == class.flattenedProps \o PropsOf(excludes, class.nDataTable)
       IN  IF class.nDataTable = 0 \/ ReadsInFront(props)
           THEN /\ pc' = "undefined"
                /\ UNCHANGED <<sortVars, s_currentExcludes>>
           ELSE /\ s_currentExcludes' = excludes
                /\ StartSort(props)
                /\ UNCHANGED pc
    /\ UNCHANGED <<recording, s_DataTables, s_ServerClasses, s_nServerClassBits, nServerClass>>

SortProps ==
    /\ sorting
    /\ SortStep
    /\ IF sorting'
       THEN UNCHANGED <<s_ServerClasses, nServerClass>>
       ELSE /\ s_ServerClasses' =
                   [s_ServerClasses EXCEPT ![nServerClass + 1].flattenedProps = flattenedProps]
            /\ nServerClass' = nServerClass + 1
    /\ UNCHANGED <<recording, s_DataTables, s_currentExcludes, s_nServerClassBits, pc>>

(* Mutant: the loop's log2 is taken for the number of bits.                *)
FloorLog2(n) == Max({b \in 0 .. 15 : 2^b <= n} \union {0})
(* The integer log2 of the number of classes, and one more.                *)
ClassBits(n) == Max({b \in 0 .. 15 : 2^b <= n} \union {0}) + 1

EndParse ==
    /\ pc = "flatten" /\ ~sorting
    /\ nServerClass = nServerClasses
    /\ s_nServerClassBits' = ClassBits(nServerClasses)
    /\ pc' = "done"
    /\ UNCHANGED <<sortVars, recording, s_DataTables, s_ServerClasses, s_currentExcludes,
                   nServerClass>>

Next ==
    \/ ReadTable \/ EndTables
    \/ ReadServerClass \/ EndClasses
    \/ FlattenDataTable \/ SortProps
    \/ EndParse

Spec == Init /\ [][Next]_vars
-----------------------------------------------------------------------------
(* What a server records.                                                  *)
ElementsInFront(table) ==
    \A i \in DOMAIN table.props :
        table.props[i].type = "Array" => i > 1 /\ table.props[i - 1].insideArray
Sound(r) ==
    /\ r.is_end /\ Len(r.classes) > 0
    /\ \A i \in DOMAIN r.tables : ElementsInFront(r.tables[i])
    /\ \A i \in DOMAIN r.classes :
          /\ r.classes[i].nClassID = i - 1
          /\ \E j \in DOMAIN r.tables : r.tables[j].net_table_name = r.classes[i].strDTName

(* The server's list of props is not gathered here but named: each is the  *)
(* end of a walk of links, a link being a prop of a table.                 *)
Links == UNION {{t} \X DOMAIN s_DataTables[t].props : t \in DOMAIN s_DataTables}
PropOf(link) == s_DataTables[link[1]].props[link[2]]
NameOf(link) == <<s_DataTables[link[1]].net_table_name, PropOf(link).var_name>>
SubOf(link) == IF PropOf(link).type = "DataTable" THEN GetTableByName(PropOf(link).dt_name) ELSE 0

Walks(root) ==
    {w \in UNION {[1 .. n -> Links] : n \in DOMAIN s_DataTables} :
        w[1][1] = root /\ \A k \in 2 .. Len(w) : w[k][1] = SubOf(w[k - 1])}

SentProps(root) ==
    LET excluding == {w \in Walks(root) : PropOf(Last(w)).exclude}
        excludes == {<<PropOf(Last(w)).dt_name, PropOf(Last(w)).var_name>> : w \in excluding}
    IN  {w \in Walks(root) :
            /\ PropOf(Last(w)).type # "DataTable"
            /\ \A k \in DOMAIN w :
                  ~PropOf(w[k]).exclude /\ ~PropOf(w[k]).insideArray /\ NameOf(w[k]) \notin excludes}

(* Where two walks part, a prop of the table itself, or of one collapsed   *)
(* into it, is behind those of the tables below; else the order of the     *)
(* table decides.                                                          *)
Before(v, w) ==
    \E k \in DOMAIN v \intersect DOMAIN w :
        /\ v[k] # w[k] /\ \A j \in 1 .. k - 1 : v[j] = w[j]
        /\ LET own(x) == \A j \in k .. Len(x) - 1 : PropOf(x[j]).collapsible
           IN  IF own(v) = own(w) THEN v[k][2] < w[k][2] ELSE own(w)

Numbered(link) ==
    LET elements == {i \in 1 .. link[2] - 1 : s_DataTables[link[1]].props[i].insideArray}
    IN  [table |-> s_DataTables[link[1]].net_table_name, prop |-> link[2],
         element |-> IF PropOf(link).type = "Array" THEN Max(elements) ELSE NoElement,
         priority |-> PropOf(link).priority, often |-> PropOf(link).often]
-----------------------------------------------------------------------------
TypeOK ==
    /\ SortTypeOK
    /\ Len(s_DataTables) <= Len(recording.tables)
    /\ \A i \in DOMAIN s_ServerClasses :
          /\ s_ServerClasses[i].nClassID < nServerClasses
          /\ s_ServerClasses[i].nDataTable \in 0 .. Len(s_DataTables)
          /\ s_ServerClasses[i].flattenedProps \in Seq(Props)
    /\ nServerClass \in 0 .. Len(s_ServerClasses)
    /\ s_nServerClassBits \in Nat
    /\ pc \in {"tables", "classes", "flatten", "done", "failed", "abort", "undefined"}

(* The props of a class are gathered as the server has them: those of its  *)
(* table and of the tables below but for the excluded ones, which may be   *)
(* named anywhere below, each as often as it is reached, and in the order  *)
(* the sort starts from, which decides among equal priorities.             *)
GatheredAsSent ==
    sorting /\ start = 0 /\ Sound(recording) =>
        LET sent == SentProps(s_ServerClasses[nServerClass + 1].nDataTable)
        IN  /\ Len(gathered) = Cardinality(sent)
            /\ \A w \in sent :
                  gathered[1 + Cardinality({v \in sent : Before(v, w)})] = Numbered(Last(w))

(* A class ID finds its table in one way, and its props in another, from   *)
(* as many of its bits as are read: the props are those that the server    *)
(* sends for the table and those below it.                                 *)
LookupsAgree ==
    Sound(recording) /\ pc = "done" =>
        \A uClass \in 0 .. nServerClasses - 1 :
            LET root == GetTableByClassID(uClass)
                sent == SentProps(root)
                props == s_ServerClasses[(uClass % (2^s_nServerClassBits)) + 1].flattenedProps
            IN  /\ root # 0
                /\ ToSet(props) = {Numbered(Last(w)) : w \in sent}
                /\ Len(props) = Cardinality(sent)

(* A sound recording is parsed to its end: nothing of it is refused, no    *)
(* assertion fails, and nothing that is not there is read.                 *)
SoundIsParsed == Sound(recording) => pc \notin {"failed", "abort", "undefined"}
=============================================================================
