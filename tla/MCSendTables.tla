---------------------------- MODULE MCSendTables ----------------------------
(***************************************************************************)
(* SendTables with three tables, "root" above "sub" above "leaf", root     *)
(* above leaf as well, and every choice of what the upper two refer to,    *)
(* collapse and exclude.                                                   *)
(***************************************************************************)
EXTENDS SendTables

Send(type, var_name, dt_name) ==
    [type |-> type, var_name |-> var_name, dt_name |-> dt_name, exclude |-> FALSE,
     insideArray |-> FALSE, collapsible |-> FALSE, priority |-> 128, often |-> FALSE]
Value(var_name) == Send("Int", var_name, "none")
Often(var_name) == [Value(var_name) EXCEPT !.often = TRUE]
Element(var_name) == [Value(var_name) EXCEPT !.insideArray = TRUE]
Exclude(dt_name, var_name) == [Send("Int", var_name, dt_name) EXCEPT !.exclude = TRUE]
Below(var_name, dt_name) == Send("DataTable", var_name, dt_name)
Collapsed(var_name, dt_name) == [Below(var_name, dt_name) EXCEPT !.collapsible = TRUE]
Table(name, props) == [net_table_name |-> name, props |-> props]

RootProps ==
    {Value("v"), Often("o"), Below("s", "sub"), Collapsed("c", "sub"),
     Below("l", "leaf"), Exclude("leaf", "x"), Exclude("sub", "l")}
SubProps ==
    {Value("v"), Below("l", "leaf"), Collapsed("c", "leaf"), Exclude("leaf", "y"), Below("g", "gone")}
Leaf == Table("leaf", <<[Value("x") EXCEPT !.priority = 0], Often("y")>>)

Distinct(props, n) ==
    {s \in [1 .. n -> props] : \A i, j \in 1 .. n : i # j => s[i] # s[j]}

Class(nClassID, name) == [nClassID |-> nClassID, strDTName |-> name]
InOrder == <<Class(0, "root"), Class(1, "sub"), Class(2, "leaf")>>

Recording(is_end, root, sub, classes) ==
    [is_end |-> is_end, classes |-> classes,
     tables |-> <<Leaf, Table("sub", sub), Table("root", root)>>]

(* Arrays, and what no server records: tables or classes that break off,   *)
(* no classes, IDs that are not in order, or a table that is not there.    *)
Array == <<Element("e"), Send("Array", "a", "none"), Often("o")>>
Broken == <<Send("Array", "a", "none"), Value("v")>>
Some == <<Value("v")>>
MCRecordings ==
    {Recording(TRUE, root, sub, InOrder) :
        root \in Distinct(RootProps, 3), sub \in Distinct(SubProps, 2)}
    \union
    {Recording(TRUE, root, Array, InOrder) : root \in Distinct(RootProps, 2)}
    \union
    {Recording(TRUE, Array, Some, <<Class(0, "root")>>),
     Recording(FALSE, Array, Some, InOrder), Recording(TRUE, Broken, Some, InOrder),
     Recording(TRUE, Array, Some, <<>>),
     Recording(TRUE, Array, Some, <<Class(0, "root"), Class(2, "sub")>>),
     Recording(TRUE, Array, Some, <<Class(1, "root"), Class(0, "sub")>>),
     Recording(TRUE, Array, Some, <<Class(0, "gone"), Class(1, "sub")>>)}

MCProps ==
    [table : {"root", "sub", "leaf"}, prop : 1 .. 3, element : {NoElement, 0, 1},
     priority : {0, 128}, often : BOOLEAN]
=============================================================================
