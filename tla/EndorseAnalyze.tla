--------------------------- MODULE EndorseAnalyze ---------------------------
(***************************************************************************)
(* endorse_analyze: semantic analysis of a parsed endorse config.          *)
(*                                                                         *)
(* The entities are visited in name order.  Within an entity the roles are *)
(* visited in name order, pass after pass: a role whose base is not        *)
(* complete is put off to the next pass, every other incomplete role is    *)
(* completed, and a pass that only puts roles off ends the entity with a   *)
(* "circular inheritance loop" message.                                    *)
(*                                                                         *)
(* Completing a role shares heap objects: the role_verb objects of the     *)
(* base are inserted in the role's own tree, with their reference counts   *)
(* incremented.  An insert allocates a node and may fail: the role is      *)
(* complete nevertheless and lacks the verb.  A role_verb object is named  *)
(* by the role that created it and its verb; a role's tree maps a verb     *)
(* name to the creating role.                                              *)
(***************************************************************************)
EXTENDS EndorseAst, FiniteSets

VARIABLES
  ast,              \* the parsed config; the analyzer only reads it
  pc,               \* "entities", "roles" or, at the end, the status
  entities_left,    \* outer loop: entities not yet visited
  entity,           \* the entity whose roles are being analyzed
  roles_left,       \* role loop: roles this pass has not yet visited
  incomplete_types_found,
  resolved_count,
  last_incomplete_type,
  fail,             \* the fail flags of the two loops, OR-ed on return
  errors,           \* the messages given to context->set_error
  type_complete,    \* the roles <<e, r>> marked complete
  extends_role,     \* role->extends_role
  role_verbs,       \* role->verbs: verb name -> creator of the role_verb
  linked,           \* role_verbs <<e, creator, v>> whose verb pointer is set
  refs              \* reference_count of every object

loopVars == <<entities_left, entity, roles_left, incomplete_types_found,
              resolved_count, last_incomplete_type>>
heapVars == <<type_complete, extends_role, role_verbs, linked, refs>>
vars == <<ast, pc, loopVars, fail, errors, heapVars>>

-----------------------------------------------------------------------------
(* Heap objects. *)
EntityObj(e)        == <<"entity", e>>
VerbObj(e, v)       == <<"verb", e, v>>
RoleObj(e, r)       == <<"role", e, r>>
RoleVerbObj(e, r, v) == <<"role_verb", e, r, v>>

Objects ==
       {EntityObj(e) : e \in Entities}
  \cup {VerbObj(e, v) : e \in Entities, v \in Verbs}
  \cup {RoleObj(e, r) : e \in Entities, r \in Roles}
  \cup {RoleVerbObj(e, r, v) : e \in Entities, r \in Roles, v \in Verbs}

(* The objects the parser allocated for a config. *)
Allocated(a) ==
       {EntityObj(e) : e \in a.entities}
  \cup {o \in {VerbObj(e, v) : e \in a.entities, v \in Verbs} :
          o[3] \in a.verbs[o[2]]}
  \cup {o \in {RoleObj(e, r) : e \in a.entities, r \in Roles} :
          o[3] \in a.roles[o[2]]}
  \cup {o \in {RoleVerbObj(e, r, v) : e \in a.entities, r \in Roles, v \in Verbs} :
          o[3] \in a.roles[o[2]] /\ o[4] \in a.own[o[2]][o[3]]}

(* The messages the analyzer can emit. *)
Diagnostic ==
       ({"undeclared"} \X Entities)
  \cup ({"undefined role", "circular"} \X Entities \X Roles)
  \cup ({"undefined verb", "copy failed"} \X Entities \X Roles \X Verbs)

(* The verbs in a role's tree. *)
Held(e, r) == {v \in Verbs : role_verbs[e, r][v] # NULL}

TypeOK ==
  /\ ast \in Ast
  /\ pc \in {"entities", "roles", "success", "failure"}
  /\ entities_left \in SUBSET ast.entities
  /\ entity \in Entities \cup {NULL}
  /\ pc = "roles" => entity \in ast.entities
  /\ roles_left \in SUBSET Roles
  /\ pc = "roles" => roles_left \subseteq ast.roles[entity]
  /\ incomplete_types_found \in BOOLEAN
  /\ resolved_count \in Nat
  /\ last_incomplete_type \in Roles \cup {NULL}
  /\ incomplete_types_found => last_incomplete_type \in Roles
  /\ fail \in BOOLEAN
  /\ errors \in SUBSET Diagnostic
  /\ type_complete \in SUBSET (Entities \X Roles)
  /\ extends_role \in [Entities \X Roles -> Roles \cup {NULL}]
  /\ role_verbs \in [Entities \X Roles -> [Verbs -> Roles \cup {NULL}]]
  /\ linked \in SUBSET (Entities \X Roles \X Verbs)
  /\ refs \in [Objects -> Nat]

-----------------------------------------------------------------------------
Init ==
  /\ ast \in Configs
  /\ pc = "entities"
  /\ entities_left = ast.entities
  /\ entity = NULL
  /\ roles_left = {}
  /\ incomplete_types_found = FALSE
  /\ resolved_count = 0
  /\ last_incomplete_type = NULL
  /\ fail = FALSE
  /\ errors = {}
  /\ type_complete = {}
  /\ extends_role = [x \in Entities \X Roles |-> NULL]
  /\ role_verbs = [x \in Entities \X Roles |->
                     [v \in Verbs |-> IF v \in ast.own[x[1]][x[2]] THEN x[2] ELSE NULL]]
  /\ linked = {}
  /\ refs = [o \in Objects |-> IF o \in Allocated(ast) THEN 1 ELSE 0]

(* The element an in-order walk of an rbtree visits next. *)
IsNext(x, left) == x \in left /\ \A y \in left : x <= y

(* context->set_error with each of the messages. *)
SetErrors(messages) ==
  /\ errors' = errors \cup messages
  /\ fail' = (fail \/ messages # {})

(* A pass over the roles of e starts. *)
StartPass(e) ==
  /\ roles_left' = ast.roles[e]
  /\ incomplete_types_found' = FALSE
  /\ resolved_count' = 0

(* The body of the entity loop, up to the first pass over the roles; an    *)
(* entity without roles is done at once.                                   *)
VisitEntity(e) ==
  /\ pc = "entities"
  /\ IsNext(e, entities_left)
  /\ entities_left' = entities_left \ {e}
  /\ SetErrors(IF e \in ast.declared THEN {} ELSE {<<"undeclared", e>>})
  /\ pc' = IF ast.roles[e] = {} THEN "entities" ELSE "roles"
  /\ entity' = e
  /\ StartPass(e)
  /\ last_incomplete_type' = NULL
  /\ UNCHANGED <<ast, heapVars>>

VisitRole(r) ==
  /\ pc = "roles"
  /\ IsNext(r, roles_left)
  /\ roles_left' = roles_left \ {r}
  /\ UNCHANGED <<ast, pc, entities_left, entity>>

SkipCompleteRole(r) ==
  /\ VisitRole(r)
  /\ <<entity, r>> \in type_complete
  /\ UNCHANGED <<incomplete_types_found, resolved_count, last_incomplete_type,
                 fail, errors, heapVars>>

(* Mutant: the role put off is not remembered for the message. *)
DeferRoleForgets(r) ==
  LET base == BaseOf(ast, entity, r)
  IN  /\ VisitRole(r)
      /\ <<entity, r>> \notin type_complete
      /\ base # NULL /\ <<entity, base>> \notin type_complete
      /\ incomplete_types_found' = TRUE
      /\ UNCHANGED <<resolved_count, last_incomplete_type, fail, errors, heapVars>>

(* The base exists but is not complete: extends_role, set by the lookup,   *)
(* is reset to NULL.  An incomplete role therefore always has it NULL and  *)
(* is looked up again; the guards here and in CompleteRole say so, and a   *)
(* role that reached its turn otherwise would show up as a deadlock.       *)
DeferRole(r) ==
  LET base == BaseOf(ast, entity, r)
  IN  /\ VisitRole(r)
      /\ <<entity, r>> \notin type_complete
      /\ extends_role[entity, r] = NULL
      /\ base # NULL
      /\ <<entity, base>> \notin type_complete
      /\ incomplete_types_found' = TRUE
      /\ last_incomplete_type' = r
      /\ UNCHANGED <<resolved_count, fail, errors, heapVars>>

-----------------------------------------------------------------------------
(* endorse_analyze_entity_role_verbs: each role_verb in r's tree gets its  *)
(* verb pointer.                                                           *)
LinkedVerbs(r) == Held(entity, r) \cap ast.verbs[entity]

(* Mutant: a failed verb lookup is not an error. *)
UndefinedVerbsIgnored(r) == {}

UndefinedVerbs(r) ==
  {<<"undefined verb", entity, r, v>> : v \in Held(entity, r) \ ast.verbs[entity]}

(* Mutant: only what the base lists itself is copied. *)
InheritedOneLevel(base) == IF base = NULL THEN {} ELSE ast.own[entity][base]

(* endorse_analyze_entity_copy_extended_role_verbs: the base's role_verbs  *)
(* are inserted in r's tree.                                               *)
Inherited(base) == IF base = NULL THEN {} ELSE Held(entity, base)

(* An insert fails when r has the verb already, and when there is no       *)
(* memory for the node: any of the other verbs may fail to be copied.      *)
Copyable(r, base) == Inherited(base) \ Held(entity, r)

(* Mutant: a failed insert is passed over. *)
CopyFailuresIgnored(r, base, copied) == {}

(* Each insert that failed, for whichever reason. *)
CopyFailures(r, base, copied) ==
  {<<"copy failed", entity, r, v>> : v \in Inherited(base) \ copied}

(* Mutant: the trees of the insert are swapped. *)
CopiedTreeSwapped(r, base, copied) ==
  IF base = NULL THEN role_verbs
  ELSE [role_verbs EXCEPT ![<<entity, base>>] =
          [v \in Verbs |-> IF v \in Held(entity, r) THEN role_verbs[entity, r][v] ELSE @[v]]]

(* The trees after the copy. *)
CopiedTree(r, base, copied) ==
  [role_verbs EXCEPT ![<<entity, r>>] =
     [v \in Verbs |-> IF v \in copied THEN role_verbs[entity, base][v] ELSE @[v]]]

(* Mutant: the base is not counted as referenced. *)
ReferencedNoBase(r, base, copied) ==
       {VerbObj(entity, v) : v \in LinkedVerbs(r)}
  \cup {RoleVerbObj(entity, role_verbs[entity, base][v], v) : v \in copied}

(* The objects whose reference_count completing r increments. *)
Referenced(r, base, copied) ==
       (IF base = NULL THEN {} ELSE {RoleObj(entity, base)})
  \cup {VerbObj(entity, v) : v \in LinkedVerbs(r)}
  \cup {RoleVerbObj(entity, role_verbs[entity, base][v], v) : v \in copied}

(* The role is complete whether or not all its verbs could be copied. *)
CompleteRole(r) ==
  LET base == BaseOf(ast, entity, r)
  IN  /\ VisitRole(r)
      /\ <<entity, r>> \notin type_complete
      /\ extends_role[entity, r] = NULL
      /\ base # NULL => <<entity, base>> \in type_complete
      /\ extends_role' = [extends_role EXCEPT ![<<entity, r>>] = base]
      /\ linked' = linked \cup {<<entity, role_verbs[entity, r][v], v>> : v \in LinkedVerbs(r)}
      /\ \E copied \in SUBSET Copyable(r, base) :
           /\ role_verbs' = CopiedTree(r, base, copied)
           /\ refs' = [o \in Objects |->
                         IF o \in Referenced(r, base, copied) THEN refs[o] + 1 ELSE refs[o]]
           /\ SetErrors(     (IF ExtendsUndefined(ast, entity, r)
                              THEN {<<"undefined role", entity, r>>} ELSE {})
                        \cup UndefinedVerbs(r)
                        \cup CopyFailures(r, base, copied))
      /\ type_complete' = type_complete \cup {<<entity, r>>}
      /\ resolved_count' = resolved_count + 1
      /\ UNCHANGED <<incomplete_types_found, last_incomplete_type>>

-----------------------------------------------------------------------------
PassOver == pc = "roles" /\ roles_left = {}

(* Mutant: the loop is reported and the analysis goes on as if sound. *)
CircularLoopNoFail ==
  /\ PassOver
  /\ incomplete_types_found
  /\ resolved_count = 0
  /\ errors' = errors \cup {<<"circular", entity, last_incomplete_type>>}
  /\ pc' = "entities"
  /\ UNCHANGED <<ast, loopVars, fail, heapVars>>

(* Roles were put off and the pass completed none. *)
CircularLoop ==
  /\ PassOver
  /\ incomplete_types_found
  /\ resolved_count = 0
  /\ SetErrors({<<"circular", entity, last_incomplete_type>>})
  /\ pc' = "entities"
  /\ UNCHANGED <<ast, loopVars, heapVars>>

(* Mutant: another pass even when the last one completed nothing. *)
NextPassAlways ==
  /\ PassOver
  /\ incomplete_types_found
  /\ StartPass(entity)
  /\ UNCHANGED <<ast, pc, entities_left, entity, last_incomplete_type, fail,
                 errors, heapVars>>

NextPass ==
  /\ PassOver
  /\ incomplete_types_found
  /\ resolved_count # 0
  /\ StartPass(entity)
  /\ UNCHANGED <<ast, pc, entities_left, entity, last_incomplete_type, fail,
                 errors, heapVars>>

EntityDone ==
  /\ PassOver
  /\ ~incomplete_types_found
  /\ pc' = "entities"
  /\ UNCHANGED <<ast, loopVars, fail, errors, heapVars>>

(* Mutant: the fail flag is not looked at. *)
ReturnIgnoresFail ==
  /\ pc = "entities"
  /\ entities_left = {}
  /\ pc' = "success"
  /\ UNCHANGED <<ast, loopVars, fail, errors, heapVars>>

Return ==
  /\ pc = "entities"
  /\ entities_left = {}
  /\ pc' = IF fail THEN "failure" ELSE "success"
  /\ UNCHANGED <<ast, loopVars, fail, errors, heapVars>>

Done == pc \in {"success", "failure"}

(* The status is with the caller; only this may stop the analyzer. *)
Returned == Done /\ UNCHANGED vars

RoleStep(r) == SkipCompleteRole(r) \/ DeferRole(r) \/ CompleteRole(r)

Next ==
  \/ \E e \in Entities : VisitEntity(e)
  \/ \E r \in Roles : RoleStep(r)
  \/ CircularLoop
  \/ NextPass
  \/ EntityDone
  \/ Return
  \/ Returned

Spec == Init /\ [][Next]_vars

-----------------------------------------------------------------------------
(***************************************************************************)
(* Properties.                                                             *)
(***************************************************************************)

(* A complete role holds the verbs that inheritance gives it, each as the  *)
(* role_verb object of a role of its lineage that lists the verb, whatever *)
(* the order in which names make the passes visit the roles.  A verb that  *)
(* it lacks was lost to a failed insert, its own or that of a role that it *)
(* extends, and the failure was reported.                                  *)
InheritedVerbs ==
  \A e \in ast.entities : \A r \in ast.roles[e] :
    <<e, r>> \in type_complete =>
      /\ Held(e, r) \subseteq VerbsOf(ast, e, r)
      /\ \A v \in Held(e, r) :
           /\ role_verbs[e, r][v] \in Lineage(ast, e, r)
           /\ v \in ast.own[e][role_verbs[e, r][v]]
      /\ \A v \in VerbsOf(ast, e, r) \ Held(e, r) :
           \E s \in Lineage(ast, e, r) : <<"copy failed", e, s, v>> \in errors

(* No complete role lacks a verb for want of memory. *)
NothingLost ==
  \A e \in ast.entities : \A r \in ast.roles[e] :
    <<e, r>> \in type_complete => Held(e, r) = VerbsOf(ast, e, r)

(* endorse_analyze succeeds on exactly the configs that are well formed    *)
(* (every entity declared, every extended role and every listed verb       *)
(* defined, no role listing a verb it inherits, no inheritance loop) and   *)
(* whose roles have all their verbs: neither a fault of the config nor a   *)
(* lack of memory is lost on the way to the status, and nothing else fails.*)
Verdict == Done => (pc = "success" <=> WellFormed(ast) /\ NothingLost)

(* add_role_capabilities dereferences role_verb->verb unchecked: after a   *)
(* successful analysis every role is complete and no role_verb that a      *)
(* role's tree reaches has a NULL verb pointer.                            *)
NoNullVerbOnSuccess ==
  pc = "success" =>
    \A e \in ast.entities : \A r \in ast.roles[e] :
      /\ <<e, r>> \in type_complete
      /\ \A v \in Held(e, r) : <<e, role_verbs[e, r][v], v>> \in linked

(* The faults of entity e that the analyzer must have reported.  A role    *)
(* whose lineage runs into a loop is never completed, so its own faults    *)
(* stay unreported; the loop itself is reported once.                      *)
InLoop(e, r) == ~Acyclic([ast EXCEPT !.roles[e] = Lineage(ast, e, r)], e)
Completable(e) == {r \in ast.roles[e] : ~InLoop(e, r)}
RoleFaults(e, r) ==
  LET base == BaseOf(ast, e, r)
      inherited == IF base = NULL THEN {} ELSE VerbsOf(ast, e, base)
  IN       (IF ExtendsUndefined(ast, e, r) THEN {<<"undefined role", e, r>>} ELSE {})
     \cup {<<"undefined verb", e, r, v>> : v \in ast.own[e][r] \ ast.verbs[e]}
     \cup {<<"copy failed", e, r, v>> : v \in ast.own[e][r] \cap inherited}
Faults(e) ==
       (IF e \in ast.declared THEN {} ELSE {<<"undeclared", e>>})
  \cup UNION {RoleFaults(e, r) : r \in Completable(e)}

(* The copies that failed for want of memory. *)
LostCopies ==
  {m \in {"copy failed"} \X Entities \X Roles \X Verbs :
     LET base == BaseOf(ast, m[2], m[3])
     IN  /\ <<m[2], m[3]>> \in type_complete
         /\ base # NULL
         /\ m[4] \in Held(m[2], base) \ Held(m[2], m[3])}

(* The fault is that a verb is listed again which the base has lost, so    *)
(* that no insert failed.                                                  *)
Masked(m) ==
  m[1] = "copy failed" /\ m[4] \notin Held(m[2], BaseOf(ast, m[2], m[3]))

(* On return the messages are the faults of every entity, none missing     *)
(* but those that lost verbs mask, and one for each copy that failed for   *)
(* want of memory, none invented; and each entity with an inheritance loop *)
(* has one message naming a role that runs into it.                        *)
EveryFaultReported ==
  Done =>
    /\ {m \in errors : m[1] # "circular"} =
         {m \in UNION {Faults(e) : e \in ast.entities} : ~Masked(m)} \cup LostCopies
    /\ \A e \in ast.entities :
         LET named == {r \in Roles : <<"circular", e, r>> \in errors}
         IN  IF Acyclic(ast, e) THEN named = {}
             ELSE \E r \in ast.roles[e] \ Completable(e) : named = {r}

(* A complete role is never changed again: roles that copied its verbs     *)
(* earlier hold the same verbs as roles that copy them later.              *)
CompleteIsFinal ==
  [][\A x \in type_complete :
       /\ x \in type_complete'
       /\ role_verbs'[x] = role_verbs[x]
       /\ extends_role'[x] = extends_role[x]]_vars

(* The contract's view of the state: no status before the return, and the  *)
(* verbs in each role's tree without the objects that hold them.           *)
Status == IF Done THEN pc ELSE "running"
HeldVerbs == [x \in Entities \X Roles |-> Held(x[1], x[2])]

(* The passes implement the contract: the roles are settled in an order in *)
(* which bases come first, each with its verbs but for those lost, and the *)
(* status tells whether the config is well formed and nothing was lost.    *)
Contract ==
  INSTANCE EndorseContract WITH
    status  <- Status,
    settled <- type_complete,
    held    <- HeldVerbs

Implements == Contract!Spec
=============================================================================
