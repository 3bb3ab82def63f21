----------------------------- MODULE MCPropSort -----------------------------
(***************************************************************************)
(* PropSort with props in front of the often changing ones, among them and *)
(* behind, and two that differ in nothing but what they are.               *)
(***************************************************************************)
EXTENDS PropSort

Prop(id, priority, often) == [id |-> id, priority |-> priority, often |-> often]
MCProps ==
    {Prop(1, 0, FALSE), Prop(1, 64, FALSE), Prop(1, 128, TRUE), Prop(1, 128, FALSE),
     Prop(2, 128, FALSE), Prop(1, 100, FALSE), Prop(1, 32, TRUE)}
=============================================================================
