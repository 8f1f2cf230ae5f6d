--------------------------- MODULE MCEndorseConfig ---------------------------
(***************************************************************************)
(* Analysis and release of every config of two shapes: one entity with     *)
(* every extends graph over three roles (a fourth name stands for a role   *)
(* the entity lacks) and every verb list over a defined and an undefined   *)
(* verb; and two entities, the second declared or not, with no or two      *)
(* roles.  Every order of taking a tree apart is explored.                 *)
(***************************************************************************)
EXTENDS EndorseRelease, MCEndorseConfigs

EveryGraph == OneEntity([1 .. 3 -> MCRoles \cup {NULL}], [1 .. 3 -> SUBSET MCVerbs])

MCConfigs == {Empty} \cup EveryGraph \cup TwoEntities
=============================================================================
