----------------------------- MODULE MCEntities -----------------------------
(***************************************************************************)
(* Entities with two entity numbers and two classes; two props of one of   *)
(* the classes share a name, as flattened props may.                       *)
(***************************************************************************)
EXTENDS Entities, TLC

CONSTANTS c1, c2, a, b, v1, v2

MCPropNames == c1 :> <<a, b, a>> @@ c2 :> <<b>>
MCSymmetry == Permutations(Values)
=============================================================================
