--------------------------- MODULE MCStringTables ---------------------------
(***************************************************************************)
(* StringTables with histories of two strings of two letters: the third    *)
(* entry of a message makes the first be forgotten, and the longer strings *)
(* are cut.                                                                *)
(***************************************************************************)
EXTENDS StringTables

Table(userinfo, max, bits, fixed) ==
    [userinfo |-> userinfo, nMaxEntries |-> max, nUserDataSizeBits |-> bits,
     nUserDataFixedSize |-> fixed]

MCStrings == {<<1>>, <<2, 1, 1>>}
MCTables == {Table(TRUE, 4, 3, FALSE), Table(FALSE, 2, 3, TRUE), Table(FALSE, 1, 5, FALSE)}
=============================================================================
