--------------------------- MODULE MCEndorseParse ---------------------------
(***************************************************************************)
(* Files of up to five different declarations about two entities, two      *)
(* verbs and two roles, which may extend each other.                       *)
(***************************************************************************)
EXTENDS EndorseContext

CONSTANTS v1, v2

MCEntities == 1 .. 2
MCRoles == 1 .. 2
MCVerbs == {v1, v2}
MCConfigs == {}
=============================================================================
