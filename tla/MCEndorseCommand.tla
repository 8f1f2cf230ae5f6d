-------------------------- MODULE MCEndorseCommand --------------------------
(***************************************************************************)
(* Two entities; roles 1 and 2, verbs 2 and 3, so that the name 2 may be a *)
(* role, a verb or both; up to two -P options and any -D options; an input *)
(* certificate with an endorsement, which can be parsed to its end or not. *)
(***************************************************************************)
EXTENDS EndorseCommand

CONSTANTS id1, id2

MCEntities == {1, 2}
MCRoles == {1, 2}
MCVerbs == {2, 3}
MCUuids == {id1, id2}

(* Verb 3 has the same id for both entities, which is also the first id    *)
(* that a public key file may hold.                                        *)
MCVerbId == [e \in MCEntities |-> [v \in MCVerbs |-> IF v = 3 THEN id1 ELSE id2]]

Role(base, own) == [base |-> base, own |-> own]

(* A config for entity 1, with the given verbs and roles; entity 2 has     *)
(* verb 2 if it is there.                                                  *)
Config(ents, decl, verbs, R) ==
  [entities |-> ents, declared |-> decl,
   verbs    |-> [e \in MCEntities |->
                   IF e \notin ents THEN {} ELSE IF e = 1 THEN verbs ELSE {2}],
   roles    |-> [e \in MCEntities |-> IF e = 1 THEN DOMAIN R ELSE {}],
   extends  |-> [e \in MCEntities |-> [r \in MCRoles |->
                   IF e = 1 /\ r \in DOMAIN R THEN R[r].base ELSE NULL]],
   own      |-> [e \in MCEntities |-> [r \in MCRoles |->
                   IF e = 1 /\ r \in DOMAIN R THEN R[r].own ELSE {}]]]

MCConfigs ==
  {Config({1, 2}, {1, 2}, {2, 3}, <<Role(2, {2}), Role(NULL, {3})>>),  \* role 1 inherits verb 3
   Config({1, 2}, {1, 2}, {2, 3}, <<Role(NULL, {2, 3})>>),             \* 2 is only a verb
   Config({1, 2}, {1}, {2, 3}, <<Role(NULL, {2})>>),                   \* entity 2 undeclared
   Config({1}, {1}, {2}, <<Role(NULL, {2, 3})>>),                      \* verb 3 undefined
   Config({}, {}, {}, <<>>)}

MCInputCerts ==
  {[endorsements |-> {<<id2, id1>>}, intact |-> TRUE],
   [endorsements |-> {<<id2, id1>>}, intact |-> FALSE]}
=============================================================================
