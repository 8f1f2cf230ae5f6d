----------------------------- MODULE EndorseAst -----------------------------
(***************************************************************************)
(* The syntax tree of an endorse config file, as the parser hands it to    *)
(* endorse_analyze, and what the tree means: which verbs a role ends up    *)
(* with and when a config is acceptable.  The meaning is stated without    *)
(* the analyzer's passes, so that it can serve as their reference.         *)
(*                                                                         *)
(* A name is represented by its rank in strcmp order, the order in which   *)
(* an rbtree of this program is walked.                                    *)
(***************************************************************************)
EXTENDS Naturals

CONSTANTS
  Entities,   \* the names used for entities
  Roles,      \* the names used for roles
  Verbs,      \* the names used for verbs
  NULL,       \* the NULL role pointer or role name
  Configs     \* the syntax trees under study

(***************************************************************************)
(* A syntax tree: the entities it holds, those an `entities' block names   *)
(* (id_declared), and for each entity its verbs, its roles, and for each   *)
(* role the role it extends and the verbs its block lists.                 *)
(***************************************************************************)
Ast ==
  [entities : SUBSET Entities,
   declared : SUBSET Entities,
   verbs    : [Entities -> SUBSET Verbs],
   roles    : [Entities -> SUBSET Roles],
   extends  : [Entities -> [Roles -> Roles \cup {NULL}]],
   own      : [Entities -> [Roles -> SUBSET Verbs]]]

ASSUME NamesAssumption == Entities \subseteq Nat /\ Roles \subseteq Nat
ASSUME NullAssumption == NULL \notin Roles
ASSUME ConfigsAssumption == Configs \subseteq Ast

(* The role that role r of entity e extends, when the entity has it. *)
BaseOf(ast, e, r) ==
  IF ast.extends[e][r] \in ast.roles[e] THEN ast.extends[e][r] ELSE NULL

(* The extends clause of r names a role the entity does not have. *)
ExtendsUndefined(ast, e, r) ==
  ast.extends[e][r] \notin ast.roles[e] \cup {NULL}

-----------------------------------------------------------------------------
(* S holds the base of each of its roles that has one. *)
BaseClosed(ast, e, S) ==
  \A s \in S : BaseOf(ast, e, s) \in S \cup {NULL}

(* A role with the roles it extends, directly or through other roles. *)
Lineage(ast, e, r) ==
  {s \in ast.roles[e] :
     \A S \in SUBSET ast.roles[e] :
       r \in S /\ BaseClosed(ast, e, S) => s \in S}

(* The verbs of a role once inheritance is worked out. *)
VerbsOf(ast, e, r) == UNION {ast.own[e][s] : s \in Lineage(ast, e, r)}

(* No non-empty set of roles in which every role extends one of the set. *)
Acyclic(ast, e) ==
  \A S \in SUBSET ast.roles[e] :
    (\A s \in S : BaseOf(ast, e, s) \in S) => S = {}

(* A role may not list again a verb that it inherits. *)
NoOverride(ast, e, r) ==
  LET base == BaseOf(ast, e, r)
  IN  base # NULL => ast.own[e][r] \cap VerbsOf(ast, e, base) = {}

WellFormedRole(ast, e, r) ==
  /\ ~ExtendsUndefined(ast, e, r)
  /\ ast.own[e][r] \subseteq ast.verbs[e]
  /\ NoOverride(ast, e, r)

WellFormed(ast) ==
  \A e \in ast.entities :
    /\ e \in ast.declared
    /\ Acyclic(ast, e)
    /\ \A r \in ast.roles[e] : WellFormedRole(ast, e, r)
=============================================================================
