----------------------------- MODULE MCSnapshot -----------------------------
(***************************************************************************)
(* Snapshot with tables in front of userinfo and behind it: with user data *)
(* that is not a player's, a name that is longer than its buffer, and      *)
(* strings of the client side.                                             *)
(***************************************************************************)
EXTENDS Snapshot

String(string, userdata) == [string |-> string, userdata |-> userdata]
Plain == [name |-> <<7, 8>>, clientside |-> <<>>,
          rows |-> <<String(<<65>>, <<>>), String(<<66, 67>>, <<1, 2, 3, 4, 5, 6>>)>>]
Long == [name |-> <<7, 8, 9, 7, 8, 9, 1>>, clientside |-> <<String(<<>>, <<0, 0, 1, 1, 1>>)>>,
         rows |-> <<>>]

MCTablesBefore == {<<>>, <<Plain, Long>>}
MCTablesBehind == {<<>>, <<Long, Plain>>}
MCClientSide == {<<>>, <<String(<<65, 66, 67, 68>>, <<>>), String(<<>>, <<9>>)>>}
=============================================================================
