------------------------ MODULE EndorseAnalyzeProofs ------------------------
(***************************************************************************)
(* Proofs about endorse_analyze, for every set of names and every set of   *)
(* configs.                                                                *)
(***************************************************************************)
EXTENDS EndorseAnalyze, TLAPS

-----------------------------------------------------------------------------
(* The meaning of a syntax tree: how the lineage and the verbs of a role   *)
(* follow from those of the role it extends.                               *)

(* The base of a role is NULL or a role of the same entity. *)
LEMMA BaseOfType ==
  ASSUME NEW a \in Ast, NEW e \in Entities, NEW r \in Roles
  PROVE  /\ BaseOf(a, e, r) \in a.roles[e] \cup {NULL}
         /\ a.roles[e] \subseteq Roles
         /\ NULL \notin a.roles[e]
  BY NullAssumption DEF BaseOf, Ast

(* A lineage is closed under taking the base. *)
LEMMA LineageClosed ==
  ASSUME NEW a \in Ast, NEW e \in Entities, NEW r \in Roles
  PROVE  BaseClosed(a, e, Lineage(a, e, r))
<1> SUFFICES ASSUME NEW s \in Lineage(a, e, r), BaseOf(a, e, s) # NULL
             PROVE  BaseOf(a, e, s) \in Lineage(a, e, r)
  BY DEF BaseClosed
<1>1. s \in a.roles[e] /\ s \in Roles
  BY DEF Lineage, Ast
<1>2. BaseOf(a, e, s) \in a.roles[e]
  BY <1>1, BaseOfType
<1>3. ASSUME NEW S \in SUBSET a.roles[e], r \in S, BaseClosed(a, e, S)
      PROVE  BaseOf(a, e, s) \in S
  BY <1>3 DEF BaseClosed, Lineage
<1> QED
  BY <1>2, <1>3 DEF Lineage

(* A role that extends nothing is its own lineage. *)
LEMMA LineageOfRoot ==
  ASSUME NEW a \in Ast, NEW e \in Entities, NEW r \in a.roles[e],
         BaseOf(a, e, r) = NULL
  PROVE  Lineage(a, e, r) = {r}
<1>1. {r} \in SUBSET a.roles[e] /\ BaseClosed(a, e, {r})
  BY DEF BaseClosed
<1>2. Lineage(a, e, r) \subseteq {r}
  BY <1>1 DEF Lineage
<1>3. r \in Lineage(a, e, r)
  BY DEF Lineage
<1> QED
  BY <1>2, <1>3

(* The lineage of any other role is the role and the lineage of its base.  *)
LEMMA LineageOfHeir ==
  ASSUME NEW a \in Ast, NEW e \in Entities, NEW r \in a.roles[e],
         BaseOf(a, e, r) # NULL
  PROVE  Lineage(a, e, r) = {r} \cup Lineage(a, e, BaseOf(a, e, r))
<1> DEFINE b == BaseOf(a, e, r)
           L == Lineage(a, e, b)
<1>1. r \in Roles /\ b \in a.roles[e] /\ b \in Roles
  BY BaseOfType DEF Ast
<1>2. BaseClosed(a, e, L) /\ L \subseteq a.roles[e] /\ b \in L
  BY <1>1, LineageClosed DEF Lineage
<1>3. BaseClosed(a, e, {r} \cup L)
  BY <1>2 DEF BaseClosed
<1>4. Lineage(a, e, r) \subseteq {r} \cup L
  BY <1>2, <1>3 DEF Lineage
<1>5. r \in Lineage(a, e, r)
  BY DEF Lineage
<1>6. ASSUME NEW s \in L
      PROVE  s \in Lineage(a, e, r)
  <2>1. ASSUME NEW S \in SUBSET a.roles[e], r \in S, BaseClosed(a, e, S)
        PROVE  s \in S
    <3>1. b \in S
      BY <2>1 DEF BaseClosed
    <3> QED
      BY <3>1, <2>1, <1>6 DEF Lineage
  <2> QED
    BY <2>1, <1>2, <1>6 DEF Lineage
<1> QED
  BY <1>4, <1>5, <1>6

(* Every role is of its own lineage, and a lineage stays in the entity. *)
LEMMA LineageRoles ==
  ASSUME NEW a \in Ast, NEW e \in Entities, NEW r \in a.roles[e]
  PROVE  r \in Lineage(a, e, r) /\ Lineage(a, e, r) \subseteq a.roles[e]
  BY DEF Lineage

(* A role that extends nothing has the verbs it lists. *)
LEMMA VerbsOfRoot ==
  ASSUME NEW a \in Ast, NEW e \in Entities, NEW r \in a.roles[e],
         BaseOf(a, e, r) = NULL
  PROVE  VerbsOf(a, e, r) = a.own[e][r]
  BY LineageOfRoot DEF VerbsOf

(* Any other role has the verbs it lists and those of its base. *)
LEMMA VerbsOfHeir ==
  ASSUME NEW a \in Ast, NEW e \in Entities, NEW r \in a.roles[e],
         BaseOf(a, e, r) # NULL
  PROVE  VerbsOf(a, e, r) = a.own[e][r] \cup VerbsOf(a, e, BaseOf(a, e, r))
  BY LineageOfHeir DEF VerbsOf

-----------------------------------------------------------------------------
(* The analysis. *)

(* The entity being visited and its parts have their types. *)
LEMMA AstTypes ==
  ASSUME NEW a \in Ast
  PROVE  /\ a.entities \subseteq Entities
         /\ \A e \in Entities :
              /\ a.roles[e] \subseteq Roles
              /\ a.verbs[e] \subseteq Verbs
              /\ \A r \in Roles : a.own[e][r] \subseteq Verbs
  BY DEF Ast

(* The initial state has the types. *)
LEMMA InitType == Init => TypeOK
<1> SUFFICES ASSUME Init PROVE TypeOK
  OBVIOUS
<1>1. ast \in Ast
  BY ConfigsAssumption DEF Init
<1>2. role_verbs \in [Entities \X Roles -> [Verbs -> Roles \cup {NULL}]]
  BY <1>1 DEF Init
<1>3. refs \in [Objects -> Nat]
  BY DEF Init
<1> QED
  BY <1>1, <1>2, <1>3 DEF Init, TypeOK

(* Every message of endorse_analyze is a Diagnostic. *)
LEMMA RoleDiagnostics ==
  ASSUME NEW e \in Entities
  PROVE  /\ <<"undeclared", e>> \in Diagnostic
         /\ \A r \in Roles : <<"undefined role", e, r>> \in Diagnostic
         /\ \A r \in Roles : <<"circular", e, r>> \in Diagnostic
  BY DEF Diagnostic

(* The same for the messages about a verb. *)
LEMMA VerbDiagnostics ==
  ASSUME NEW e \in Entities, NEW r \in Roles, NEW v \in Verbs
  PROVE  /\ <<"undefined verb", e, r, v>> \in Diagnostic
         /\ <<"copy failed", e, r, v>> \in Diagnostic
  BY DEF Diagnostic

(* The role being visited is a role of the entity being visited. *)
LEMMA VisitRoleTypes ==
  ASSUME TypeOK, NEW r \in Roles, VisitRole(r)
  PROVE  /\ ast \in Ast
         /\ entity \in Entities /\ entity \in ast.entities
         /\ r \in ast.roles[entity] /\ r \in roles_left
<1>1. pc = "roles" /\ r \in roles_left
  BY DEF VisitRole, IsNext
<1>2. ast \in Ast /\ entity \in ast.entities /\ roles_left \subseteq ast.roles[entity]
  BY <1>1 DEF TypeOK
<1>3. ast.entities \subseteq Entities
  BY <1>2, AstTypes
<1>4. entity \in Entities
  BY <1>2, <1>3
<1> QED
  BY <1>1, <1>2, <1>4

(* What completing r says of its messages and its own tree, when the verbs *)
(* copied are given.                                                       *)
Copies(r, base, copied) ==
  /\ copied \in SUBSET Copyable(r, base)
  /\ role_verbs' = CopiedTree(r, base, copied)
  /\ refs' = [o \in Objects |->
                IF o \in Referenced(r, base, copied) THEN refs[o] + 1 ELSE refs[o]]
  /\ SetErrors(     (IF ExtendsUndefined(ast, entity, r)
                     THEN {<<"undefined role", entity, r>>} ELSE {})
               \cup UndefinedVerbs(r)
               \cup CopyFailures(r, base, copied))

(* Some of the verbs that can be copied are. *)
LEMMA CompleteRoleCopies ==
  ASSUME NEW r \in Roles, CompleteRole(r)
  PROVE  \E copied : Copies(r, BaseOf(ast, entity, r), copied)
BY DEF CompleteRole, Copies

(* What CompleteRole does to the trees: only r's own tree changes,         *)
LEMMA CompleteRoleTrees ==
  ASSUME TypeOK, NEW r \in Roles, CompleteRole(r),
         NEW base, base = BaseOf(ast, entity, r)
  PROVE  /\ entity \in Entities /\ entity \in ast.entities
         /\ r \in ast.roles[entity]
         /\ base \in Roles \cup {NULL}
         /\ <<entity, r>> \notin type_complete
         /\ base # NULL => <<entity, base>> \in type_complete
         /\ type_complete' = type_complete \cup {<<entity, r>>}
         /\ extends_role' = [extends_role EXCEPT ![<<entity, r>>] = base]
         /\ role_verbs' \in [Entities \X Roles -> [Verbs -> Roles \cup {NULL}]]
         /\ \A x \in Entities \X Roles : x # <<entity, r>> => role_verbs'[x] = role_verbs[x]
         /\ \A copied : Copies(r, base, copied) =>
              \A v \in Verbs :
                role_verbs'[<<entity, r>>][v] =
                  IF v \in copied THEN role_verbs[<<entity, base>>][v]
                  ELSE role_verbs[<<entity, r>>][v]
<1>1. /\ ast \in Ast /\ entity \in Entities /\ entity \in ast.entities
      /\ r \in ast.roles[entity]
  BY VisitRoleTypes DEF CompleteRole
<1>2. base \in Roles \cup {NULL}
  BY <1>1, BaseOfType
<1>3. role_verbs \in [Entities \X Roles -> [Verbs -> Roles \cup {NULL}]]
  BY DEF TypeOK
<1>4. /\ <<entity, r>> \notin type_complete
      /\ base # NULL => <<entity, base>> \in type_complete
      /\ type_complete' = type_complete \cup {<<entity, r>>}
      /\ extends_role' = [extends_role EXCEPT ![<<entity, r>>] = base]
  BY DEF CompleteRole
<1>5. ASSUME NEW copied, Copies(r, base, copied)
      PROVE  /\ role_verbs' \in [Entities \X Roles -> [Verbs -> Roles \cup {NULL}]]
             /\ \A x \in Entities \X Roles : x # <<entity, r>> => role_verbs'[x] = role_verbs[x]
             /\ \A v \in Verbs :
                  role_verbs'[<<entity, r>>][v] =
                    IF v \in copied THEN role_verbs[<<entity, base>>][v]
                    ELSE role_verbs[<<entity, r>>][v]
  <2> DEFINE row == [v \in Verbs |-> IF v \in copied
                                     THEN role_verbs[<<entity, base>>][v]
                                     ELSE role_verbs[<<entity, r>>][v]]
  <2>1. role_verbs' = [role_verbs EXCEPT ![<<entity, r>>] = row]
    BY <1>1, <1>3, <1>5 DEF Copies, CopiedTree
  <2>2. \A v \in copied : v \in Verbs /\ base # NULL
    BY <1>5 DEF Copies, Copyable, Inherited, Held
  <2>3. row \in [Verbs -> Roles \cup {NULL}]
    BY <1>1, <1>2, <1>3, <2>2
  <2>4. \A v \in Verbs :
          row[v] = IF v \in copied THEN role_verbs[<<entity, base>>][v]
                   ELSE role_verbs[<<entity, r>>][v]
    OBVIOUS
  <2> HIDE DEF row
  <2>5. /\ role_verbs' \in [Entities \X Roles -> [Verbs -> Roles \cup {NULL}]]
        /\ \A x \in Entities \X Roles : x # <<entity, r>> => role_verbs'[x] = role_verbs[x]
        /\ role_verbs'[<<entity, r>>] = row
    BY <1>1, <1>3, <2>1, <2>3
  <2> QED
    BY <2>4, <2>5
<1>6. \E copied : Copies(r, base, copied)
  BY CompleteRoleCopies
<1> QED
  BY <1>1, <1>2, <1>4, <1>5, <1>6

(* and the verbs it gains are those of the base, but for those that r      *)
(* lists as well and those for which there was no memory.                  *)
LEMMA CopiedAreInherited ==
  ASSUME NEW r \in Roles, NEW base, NEW copied, Copies(r, base, copied), NEW v \in copied
  PROVE  /\ base # NULL /\ v \in Verbs
         /\ role_verbs[<<entity, base>>][v] # NULL
         /\ role_verbs[<<entity, r>>][v] = NULL
BY DEF Copies, Copyable, Inherited, Held

(* Completing a role keeps the types. *)
LEMMA CompleteRoleType ==
  ASSUME TypeOK, NEW r \in Roles, CompleteRole(r)
  PROVE  TypeOK'
<1> DEFINE base == BaseOf(ast, entity, r)
<1>1. /\ entity \in Entities /\ entity \in ast.entities
      /\ r \in ast.roles[entity]
      /\ base \in Roles \cup {NULL}
      /\ role_verbs' \in [Entities \X Roles -> [Verbs -> Roles \cup {NULL}]]
  BY CompleteRoleTrees
<1>0. VisitRole(r) /\ resolved_count' = resolved_count + 1
  BY DEF CompleteRole
<1>2. /\ extends_role' = [extends_role EXCEPT ![<<entity, r>>] = base]
      /\ type_complete' = type_complete \cup {<<entity, r>>}
      /\ linked' = linked \cup {<<entity, role_verbs[<<entity, r>>][v], v>> : v \in LinkedVerbs(r)}
  BY DEF CompleteRole
<1>2a. PICK copied : Copies(r, base, copied)
  BY CompleteRoleCopies
<1> HIDE DEF base
<1>3. extends_role' \in [Entities \X Roles -> Roles \cup {NULL}]
  BY <1>1, <1>2 DEF TypeOK
<1>4. linked' \in SUBSET (Entities \X Roles \X Verbs)
  <2>1. role_verbs \in [Entities \X Roles -> [Verbs -> Roles \cup {NULL}]]
    BY DEF TypeOK
  <2>2. \A v \in LinkedVerbs(r) : v \in Verbs /\ role_verbs[<<entity, r>>][v] \in Roles
    BY <1>1, <2>1 DEF LinkedVerbs, Held
  <2>3. \A v \in LinkedVerbs(r) :
          <<entity, role_verbs[<<entity, r>>][v], v>> \in Entities \X Roles \X Verbs
    BY <1>1, <2>2
  <2>4. linked \in SUBSET (Entities \X Roles \X Verbs)
    BY DEF TypeOK
  <2> QED
    BY <1>2, <2>3, <2>4
<1>5. refs' \in [Objects -> Nat]
  <2>1. refs \in [Objects -> Nat]
    BY DEF TypeOK
  <2>2. \A o \in Objects : refs[o] \in Nat /\ refs[o] + 1 \in Nat
    BY <2>1
  <2> QED
    BY <1>2a, <2>2 DEF Copies
<1>6. errors' \in SUBSET Diagnostic /\ fail' \in BOOLEAN
  <2>1. UndefinedVerbs(r) \subseteq Diagnostic
    BY <1>1, VerbDiagnostics DEF UndefinedVerbs, Held
  <2>2. CopyFailures(r, base, copied) \subseteq Diagnostic
    BY <1>1, VerbDiagnostics DEF CopyFailures, Inherited, Held
  <2>3. (IF ExtendsUndefined(ast, entity, r)
         THEN {<<"undefined role", entity, r>>} ELSE {}) \subseteq Diagnostic
    BY <1>1, RoleDiagnostics
  <2>4. errors \in SUBSET Diagnostic /\ fail \in BOOLEAN
    BY DEF TypeOK
  <2> QED
    BY <1>2a, <2>1, <2>2, <2>3, <2>4 DEF Copies, SetErrors
<1>7. /\ roles_left' \in SUBSET Roles
      /\ roles_left' \subseteq ast.roles[entity]
      /\ resolved_count' \in Nat
  BY <1>0 DEF TypeOK, VisitRole
<1>8. type_complete' \in SUBSET (Entities \X Roles)
  BY <1>1, <1>2 DEF TypeOK
<1>9. /\ incomplete_types_found' = incomplete_types_found
      /\ last_incomplete_type' = last_incomplete_type
  BY DEF CompleteRole
<1> QED
  BY <1>0, <1>1, <1>3, <1>4, <1>5, <1>6, <1>7, <1>8, <1>9 DEF TypeOK, VisitRole

(* Every step keeps the types. *)
LEMMA NextType == TypeOK /\ [Next]_vars => TypeOK'
<1> SUFFICES ASSUME TypeOK, [Next]_vars PROVE TypeOK'
  OBVIOUS
<1>0. ast \in Ast
  BY DEF TypeOK
<1>1. ASSUME NEW e \in Entities, VisitEntity(e) PROVE TypeOK'
  <2>1. e \in ast.entities /\ ast.roles[e] \subseteq Roles
    BY <1>0, <1>1, AstTypes DEF TypeOK, VisitEntity, IsNext
  <2>2. errors' \in SUBSET Diagnostic /\ fail' \in BOOLEAN
    BY <1>1, RoleDiagnostics DEF TypeOK, VisitEntity, SetErrors
  <2>3. heapVars' = heapVars /\ ast' = ast
    BY <1>1 DEF VisitEntity
  <2>4. /\ entities_left' \in SUBSET ast.entities
        /\ entity' = e
        /\ roles_left' = ast.roles[e]
        /\ incomplete_types_found' = FALSE
        /\ resolved_count' = 0
        /\ last_incomplete_type' = NULL
        /\ pc' \in {"entities", "roles"}
    BY <1>1 DEF TypeOK, VisitEntity, StartPass
  <2> QED
    BY <2>1, <2>2, <2>3, <2>4 DEF TypeOK, heapVars
<1>2. ASSUME NEW r \in Roles, SkipCompleteRole(r) PROVE TypeOK'
  BY <1>2 DEF TypeOK, SkipCompleteRole, VisitRole, heapVars
<1>3. ASSUME NEW r \in Roles, DeferRole(r) PROVE TypeOK'
  BY <1>3 DEF TypeOK, DeferRole, VisitRole, heapVars
<1>4. ASSUME NEW r \in Roles, CompleteRole(r) PROVE TypeOK'
  BY <1>4, CompleteRoleType
<1>5. CASE CircularLoop
  <2>1. pc = "roles" /\ incomplete_types_found
    BY <1>5 DEF CircularLoop, PassOver
  <2>2. entity \in Entities /\ last_incomplete_type \in Roles
    BY <1>0, <2>1, AstTypes DEF TypeOK
  <2>3. SetErrors({<<"circular", entity, last_incomplete_type>>})
    BY <1>5 DEF CircularLoop
  <2>4. errors' \in SUBSET Diagnostic /\ fail' \in BOOLEAN
    BY <2>2, <2>3, RoleDiagnostics DEF SetErrors, TypeOK
  <2>5. pc' = "entities" /\ UNCHANGED <<ast, loopVars, heapVars>>
    BY <1>5 DEF CircularLoop
  <2> QED
    BY <2>4, <2>5 DEF TypeOK, loopVars, heapVars
<1>6. CASE NextPass
  <2>1. ast.roles[entity] \subseteq Roles
    BY <1>0, <1>6, AstTypes DEF TypeOK, NextPass, PassOver
  <2> QED
    BY <2>1, <1>6 DEF TypeOK, NextPass, StartPass, PassOver, heapVars
<1>7. CASE EntityDone
  BY <1>7 DEF TypeOK, EntityDone, loopVars, heapVars
<1>8. CASE Return
  BY <1>8 DEF TypeOK, Return, loopVars, heapVars
<1>9. CASE Returned
  BY <1>9 DEF TypeOK, Returned, vars, loopVars, heapVars
<1>10. CASE UNCHANGED vars
  BY <1>10 DEF TypeOK, vars, loopVars, heapVars
<1> QED
  BY <1>1, <1>2, <1>3, <1>4, <1>5, <1>6, <1>7, <1>8, <1>9, <1>10 DEF Next, RoleStep

(* The variables of endorse_analyze keep their types: loop cursors stay in *)
(* the trees being walked, counts stay naturals, messages stay messages.   *)
THEOREM TypeCorrect == Spec => []TypeOK
<1>1. Init => TypeOK
  BY InitType
<1>2. TypeOK /\ [Next]_vars => TypeOK'
  BY NextType
<1> QED
  BY <1>1, <1>2, PTL DEF Spec

-----------------------------------------------------------------------------
(***************************************************************************)
(* The inductive invariant.  InheritedVerbs speaks of complete roles only  *)
(* and Verdict of the end only; to carry them from step to step one needs  *)
(* what an incomplete role looks like, that no role of an inheritance loop *)
(* is ever completed, and what a pass has established so far.              *)
(***************************************************************************)
Complete(e, r) == <<e, r>> \in type_complete

(* A complete role is a role of the config whose base is complete; its     *)
(* tree holds the verbs it lists, verbs of its lineage and nothing else,   *)
(* and the role_verbs with a verb are linked.                              *)
CompletedRoles ==
  \A e \in Entities : \A r \in Roles :
    Complete(e, r) =>
      /\ e \in ast.entities /\ r \in ast.roles[e]
      /\ BaseOf(ast, e, r) # NULL => Complete(e, BaseOf(ast, e, r))
      /\ \A v \in ast.own[e][r] : role_verbs[<<e, r>>][v] # NULL
      /\ \A v \in Verbs : role_verbs[<<e, r>>][v] # NULL =>
           /\ v \in VerbsOf(ast, e, r)
           /\ role_verbs[<<e, r>>][v] \in Lineage(ast, e, r)
           /\ v \in ast.own[e][role_verbs[<<e, r>>][v]]
           /\ v \in ast.verbs[e] => <<e, role_verbs[<<e, r>>][v], v>> \in linked

(* The tree of an incomplete role is as the parser built it.               *)
IncompleteRoles ==
  \A e \in Entities : \A r \in Roles :
    ~Complete(e, r) =>
      \A v \in Verbs :
        role_verbs[<<e, r>>][v] = IF v \in ast.own[e][r] THEN r ELSE NULL

(* No role of an inheritance loop, or that extends one, is complete.       *)
LoopsIncomplete ==
  \A e \in Entities : \A S \in SUBSET ast.roles[e] :
    (\A s \in S : BaseOf(ast, e, s) \in S) => \A s \in S : ~Complete(e, s)

HeapInv == CompletedRoles /\ IncompleteRoles /\ LoopsIncomplete

(* What the current pass knows of the roles it has visited.                *)
PassInv ==
  pc = "roles" =>
    /\ entity \in ast.entities \ entities_left
    /\ \A r \in ast.roles[entity] \ roles_left :
         \/ Complete(entity, r)
         \/ /\ incomplete_types_found
            /\ BaseOf(ast, entity, r) # NULL
            /\ resolved_count = 0 => ~Complete(entity, BaseOf(ast, entity, r))
    /\ incomplete_types_found /\ resolved_count = 0 =>
         /\ last_incomplete_type \in ast.roles[entity]
         /\ ~Complete(entity, last_incomplete_type)

(* Role r has every verb that inheritance gives it. *)
Whole(e, r) == \A v \in VerbsOf(ast, e, r) : role_verbs[<<e, r>>][v] # NULL

(* While nothing failed, what was visited is well formed and whole; once   *)
(* something failed, the config is not well formed or a role not whole.    *)
SoundSoFar ==
  IF fail THEN \/ ~WellFormed(ast)
               \/ \E e \in Entities : \E r \in Roles : Complete(e, r) /\ ~Whole(e, r)
  ELSE /\ \A e \in Entities : \A r \in Roles :
            Complete(e, r) => WellFormedRole(ast, e, r) /\ Whole(e, r)
       /\ \A e \in ast.entities \ entities_left :
            /\ e \in ast.declared
            /\ ~(pc = "roles" /\ e = entity) => \A r \in ast.roles[e] : Complete(e, r)

StatusInv ==
  pc \in {"success", "failure"} =>
    entities_left = {} /\ pc = IF fail THEN "failure" ELSE "success"

IInv == TypeOK /\ HeapInv /\ PassInv /\ SoundSoFar /\ StatusInv

(* A step that leaves the heap alone keeps what is known of the heap. *)
LEMMA HeapFrame ==
  ASSUME HeapInv, ast' = ast, UNCHANGED heapVars
  PROVE  HeapInv'
<1>1. type_complete' = type_complete /\ role_verbs' = role_verbs /\ linked' = linked
  BY DEF heapVars
<1>2. CompletedRoles'
  BY <1>1 DEF HeapInv, CompletedRoles, Complete
<1>3. IncompleteRoles'
  BY <1>1 DEF HeapInv, IncompleteRoles, Complete
<1>4. LoopsIncomplete'
  BY <1>1 DEF HeapInv, LoopsIncomplete, Complete
<1> QED
  BY <1>2, <1>3, <1>4 DEF HeapInv

(* The role that CompleteRole completes keeps the verbs it lists and gets  *)
(* verbs of its lineage, each as a role_verb of the lineage that is linked *)
(* if it can be.                                                           *)
LEMMA CompletedRole ==
  ASSUME TypeOK, HeapInv, NEW r \in Roles, CompleteRole(r)
  PROVE  /\ \A v \in ast.own[entity][r] : role_verbs'[<<entity, r>>][v] # NULL
         /\ \A v \in Verbs : role_verbs'[<<entity, r>>][v] # NULL =>
              /\ v \in VerbsOf(ast, entity, r)
              /\ role_verbs'[<<entity, r>>][v] \in Lineage(ast, entity, r)
              /\ v \in ast.own[entity][role_verbs'[<<entity, r>>][v]]
              /\ v \in ast.verbs[entity] =>
                   <<entity, role_verbs'[<<entity, r>>][v], v>> \in linked'
<1> DEFINE base == BaseOf(ast, entity, r)
           rv == role_verbs'[<<entity, r>>]
<1>0. PICK copied : Copies(r, base, copied)
  BY CompleteRoleCopies
<1>1. /\ ast \in Ast /\ entity \in Entities /\ r \in ast.roles[entity]
      /\ base \in Roles \cup {NULL}
      /\ <<entity, r>> \notin type_complete
      /\ base # NULL => <<entity, base>> \in type_complete
      /\ \A v \in Verbs :
           rv[v] = IF v \in copied THEN role_verbs[<<entity, base>>][v]
                   ELSE role_verbs[<<entity, r>>][v]
  BY <1>0, CompleteRoleTrees DEF TypeOK
<1>2. \A v \in Verbs : role_verbs[<<entity, r>>][v] =
                          IF v \in ast.own[entity][r] THEN r ELSE NULL
  BY <1>1 DEF HeapInv, IncompleteRoles, Complete
<1>3. linked' = linked \cup {<<entity, role_verbs[<<entity, r>>][v], v>> : v \in LinkedVerbs(r)}
  BY DEF CompleteRole
<1>4. \A v \in Verbs : v \in ast.own[entity][r] /\ v \in ast.verbs[entity] =>
        <<entity, r, v>> \in linked'
  BY <1>1, <1>2, <1>3, NullAssumption DEF LinkedVerbs, Held
<1>5. ast.own[entity][r] \subseteq Verbs /\ r # NULL
  BY <1>1, AstTypes, NullAssumption
<1>6. r \in Lineage(ast, entity, r) /\ ast.own[entity][r] \subseteq VerbsOf(ast, entity, r)
  BY <1>1, LineageRoles DEF VerbsOf
<1>7. ASSUME NEW v \in ast.own[entity][r] PROVE rv[v] = r
  <2>1. v \notin copied
    BY <1>0, <1>2, <1>5, <1>7, CopiedAreInherited
  <2> QED
    BY <1>1, <1>2, <1>5, <1>7, <2>1
<1>8. ASSUME NEW v \in Verbs, v \notin ast.own[entity][r], rv[v] # NULL
      PROVE  /\ v \in VerbsOf(ast, entity, r)
             /\ rv[v] \in Lineage(ast, entity, r)
             /\ v \in ast.own[entity][rv[v]]
             /\ v \in ast.verbs[entity] => <<entity, rv[v], v>> \in linked'
  <2>1. v \in copied
    BY <1>1, <1>2, <1>8
  <2>2. base # NULL /\ rv[v] = role_verbs[<<entity, base>>][v]
    BY <1>0, <1>1, <2>1, CopiedAreInherited
  <2>3. base \in ast.roles[entity] /\ base \in Roles
    BY <1>1, <2>2, BaseOfType
  <2>4. /\ VerbsOf(ast, entity, r) = ast.own[entity][r] \cup VerbsOf(ast, entity, base)
        /\ Lineage(ast, entity, r) = {r} \cup Lineage(ast, entity, base)
    BY <1>1, <2>2, VerbsOfHeir, LineageOfHeir
  <2>5. /\ v \in VerbsOf(ast, entity, base)
        /\ rv[v] \in Lineage(ast, entity, base)
        /\ v \in ast.own[entity][rv[v]]
        /\ v \in ast.verbs[entity] => <<entity, rv[v], v>> \in linked
    BY <1>1, <1>8, <2>2, <2>3 DEF HeapInv, CompletedRoles, Complete
  <2> QED
    BY <1>3, <2>4, <2>5
<1> HIDE DEF rv
<1>9. \A v \in ast.own[entity][r] :
        /\ rv[v] # NULL
        /\ v \in VerbsOf(ast, entity, r)
        /\ rv[v] \in Lineage(ast, entity, r)
        /\ v \in ast.own[entity][rv[v]]
        /\ v \in ast.verbs[entity] => <<entity, rv[v], v>> \in linked'
  BY <1>4, <1>5, <1>6, <1>7
<1>10. /\ \A v \in ast.own[entity][r] : rv[v] # NULL
       /\ \A v \in Verbs : rv[v] # NULL =>
            /\ v \in VerbsOf(ast, entity, r)
            /\ rv[v] \in Lineage(ast, entity, r)
            /\ v \in ast.own[entity][rv[v]]
            /\ v \in ast.verbs[entity] => <<entity, rv[v], v>> \in linked'
  BY <1>8, <1>9
<1> QED
  BY <1>10 DEF rv

(* Completing a role keeps what is known of the heap. *)
LEMMA CompleteRoleHeap ==
  ASSUME TypeOK, HeapInv, NEW r \in Roles, CompleteRole(r)
  PROVE  HeapInv'
<1> DEFINE base == BaseOf(ast, entity, r)
<1>1. /\ ast \in Ast /\ entity \in Entities /\ entity \in ast.entities
      /\ r \in ast.roles[entity]
      /\ base # NULL => <<entity, base>> \in type_complete
      /\ type_complete' = type_complete \cup {<<entity, r>>}
      /\ <<entity, r>> \notin type_complete
      /\ \A x \in Entities \X Roles : x # <<entity, r>> => role_verbs'[x] = role_verbs[x]
  BY CompleteRoleTrees DEF TypeOK
<1>2. ast' = ast /\ linked \subseteq linked'
  BY DEF CompleteRole, VisitRole
<1>3. CompletedRoles'
  <2> SUFFICES ASSUME NEW e \in Entities, NEW s \in Roles, Complete(e, s)'
      PROVE  /\ e \in ast.entities /\ s \in ast.roles[e]
             /\ BaseOf(ast, e, s) # NULL => Complete(e, BaseOf(ast, e, s))'
             /\ \A v \in ast.own[e][s] : role_verbs'[<<e, s>>][v] # NULL
             /\ \A v \in Verbs : role_verbs'[<<e, s>>][v] # NULL =>
                  /\ v \in VerbsOf(ast, e, s)
                  /\ role_verbs'[<<e, s>>][v] \in Lineage(ast, e, s)
                  /\ v \in ast.own[e][role_verbs'[<<e, s>>][v]]
                  /\ v \in ast.verbs[e] => <<e, role_verbs'[<<e, s>>][v], v>> \in linked'
    BY <1>2 DEF CompletedRoles, Complete
  <2>1. CASE e = entity /\ s = r
    BY <1>1, <1>2, <2>1, CompletedRole DEF Complete
  <2>2. CASE ~(e = entity /\ s = r)
    <3>1. Complete(e, s) /\ <<e, s>> # <<entity, r>>
      BY <1>1, <2>2 DEF Complete
    <3>2. role_verbs'[<<e, s>>] = role_verbs[<<e, s>>]
      BY <1>1, <3>1
    <3>3. Complete(e, BaseOf(ast, e, s)) => Complete(e, BaseOf(ast, e, s))'
      BY <1>1, <1>2 DEF Complete
    <3> QED
      BY <1>2, <3>1, <3>2, <3>3 DEF HeapInv, CompletedRoles
  <2> QED
    BY <2>1, <2>2
<1>4. IncompleteRoles'
  <2> SUFFICES ASSUME NEW e \in Entities, NEW s \in Roles, ~Complete(e, s)', NEW v \in Verbs
      PROVE  role_verbs'[<<e, s>>][v] = IF v \in ast.own[e][s] THEN s ELSE NULL
    BY <1>2 DEF IncompleteRoles
  <2>1. ~Complete(e, s) /\ <<e, s>> # <<entity, r>>
    BY <1>1 DEF Complete
  <2> QED
    BY <1>1, <2>1 DEF HeapInv, IncompleteRoles
<1>5. LoopsIncomplete'
  <2> SUFFICES ASSUME NEW e \in Entities, NEW S \in SUBSET ast.roles[e],
                      \A s \in S : BaseOf(ast, e, s) \in S, NEW s \in S, Complete(e, s)'
      PROVE  FALSE
    BY <1>2 DEF LoopsIncomplete
  <2>1. \A t \in S : ~Complete(e, t)
    BY DEF HeapInv, LoopsIncomplete
  <2>2. e = entity /\ s = r
    BY <1>1, <2>1 DEF Complete
  <2>3. base \in S /\ base # NULL
    BY <1>1, <2>2, BaseOfType
  <2> QED
    BY <1>1, <2>1, <2>2, <2>3 DEF Complete
<1> QED
  BY <1>3, <1>4, <1>5 DEF HeapInv

(* Every step keeps what is known of the heap. *)
LEMMA NextHeap ==
  ASSUME TypeOK, HeapInv, [Next]_vars
  PROVE  HeapInv'
<1>1. ASSUME NEW r \in Roles, CompleteRole(r) PROVE HeapInv'
  BY <1>1, CompleteRoleHeap
<1>2. ASSUME ast' = ast, UNCHANGED heapVars PROVE HeapInv'
  BY <1>2, HeapFrame
<1>3. \/ \E r \in Roles : CompleteRole(r)
      \/ ast' = ast /\ UNCHANGED heapVars
  BY DEF Next, RoleStep, vars, VisitEntity, SkipCompleteRole, DeferRole, VisitRole,
         CircularLoop, NextPass, EntityDone, Return, Returned
<1> QED
  BY <1>1, <1>2, <1>3

(* When every complete role is whole, the verbs of a base are in its tree. *)
LEMMA WholeBase ==
  ASSUME TypeOK, HeapInv, NEW e \in Entities, NEW base \in Roles,
         Complete(e, base), Whole(e, base)
  PROVE  Held(e, base) = VerbsOf(ast, e, base)
<1>1. ast \in Ast /\ base \in ast.roles[e]
  BY DEF TypeOK, HeapInv, CompletedRoles
<1>2. VerbsOf(ast, e, base) \subseteq Verbs
  BY <1>1, LineageRoles, AstTypes DEF VerbsOf
<1>3. \A v \in Verbs : role_verbs[<<e, base>>][v] # NULL => v \in VerbsOf(ast, e, base)
  BY DEF HeapInv, CompletedRoles
<1> QED
  BY <1>2, <1>3 DEF Held, Whole

(* Where earlier roles are whole, completing a role fails exactly when the *)
(* role is not well formed or does not get all its verbs.                  *)
LEMMA CompleteRoleFail ==
  ASSUME TypeOK, HeapInv, NEW r \in Roles, CompleteRole(r),
         \A s \in Roles : Complete(entity, s) => Whole(entity, s)
  PROVE  fail' = (fail \/ ~WellFormedRole(ast, entity, r) \/ ~Whole(entity, r)')
<1> DEFINE base == BaseOf(ast, entity, r)
           own == ast.own[entity][r]
           undef == IF ExtendsUndefined(ast, entity, r)
                    THEN {<<"undefined role", entity, r>>} ELSE {}
<1>0. PICK copied : Copies(r, base, copied)
  BY CompleteRoleCopies
<1>1. /\ ast \in Ast /\ entity \in Entities /\ r \in ast.roles[entity]
      /\ <<entity, r>> \notin type_complete
      /\ base # NULL => <<entity, base>> \in type_complete
      /\ \A v \in Verbs :
           role_verbs'[<<entity, r>>][v] =
             IF v \in copied THEN role_verbs[<<entity, base>>][v]
             ELSE role_verbs[<<entity, r>>][v]
  BY <1>0, CompleteRoleTrees DEF TypeOK
<1>2. own \subseteq Verbs /\ r # NULL /\ ast' = ast /\ entity' = entity
  BY <1>1, AstTypes, NullAssumption DEF CompleteRole, VisitRole
<1>2a. \A v \in Verbs : role_verbs[<<entity, r>>][v] = IF v \in own THEN r ELSE NULL
  BY <1>1 DEF HeapInv, IncompleteRoles, Complete
<1>3. Held(entity, r) = own
  BY <1>2, <1>2a DEF Held
<1>4. UndefinedVerbs(r) = {} <=> own \subseteq ast.verbs[entity]
  BY <1>3 DEF UndefinedVerbs
<1>5. CopyFailures(r, base, copied) = {}
        <=> NoOverride(ast, entity, r) /\ Whole(entity, r)'
  <2>0. /\ copied \subseteq Inherited(base) \ own /\ copied \subseteq Verbs
        /\ CopyFailures(r, base, copied) = {} <=> Inherited(base) \subseteq copied
    <3>1. copied \in SUBSET Copyable(r, base)
      BY <1>0 DEF Copies
    <3>2. Inherited(base) \subseteq Verbs
      BY DEF Inherited, Held
    <3>3. CopyFailures(r, base, copied) = {} <=> Inherited(base) \subseteq copied
      BY DEF CopyFailures
    <3> QED
      BY <1>3, <3>1, <3>2, <3>3 DEF Copyable
  <2>1. Whole(entity, r)' <=> \A v \in VerbsOf(ast, entity, r) : role_verbs'[<<entity, r>>][v] # NULL
    BY <1>2 DEF Whole
  <2>2. CASE base = NULL
    <3>1. CopyFailures(r, base, copied) = {} /\ copied = {}
      BY <2>0, <2>2 DEF Inherited
    <3>2. VerbsOf(ast, entity, r) = own
      BY <1>1, <2>2, VerbsOfRoot
    <3>3. Whole(entity, r)'
      BY <1>1, <1>2, <1>2a, <2>1, <3>1, <3>2
    <3> QED
      BY <2>2, <3>1, <3>3 DEF NoOverride
  <2>3. CASE base # NULL
    <3>1. base \in ast.roles[entity] /\ base \in Roles
      BY <1>1, <2>3, BaseOfType
    <3>2. Complete(entity, base) /\ Whole(entity, base)
      BY <1>1, <2>3, <3>1 DEF Complete
    <3>3. Inherited(base) = VerbsOf(ast, entity, base)
      BY <1>1, <2>3, <3>1, <3>2, WholeBase DEF Inherited
    <3>4. VerbsOf(ast, entity, r) = own \cup VerbsOf(ast, entity, base)
      BY <1>1, <2>3, VerbsOfHeir
    <3>5. VerbsOf(ast, entity, base) \subseteq Verbs
      BY <1>1, <3>1, LineageRoles, AstTypes DEF VerbsOf
    <3>6. \A v \in Verbs : role_verbs'[<<entity, r>>][v] # NULL <=> v \in own \/ v \in copied
      <4>1. ASSUME NEW v \in copied PROVE role_verbs[<<entity, base>>][v] # NULL
        <5>1. v \in Held(entity, base)
          BY <2>0, <2>3, <4>1 DEF Inherited
        <5> QED
          BY <5>1 DEF Held
      <4> QED
        BY <1>1, <1>2, <1>2a, <4>1
    <3>7. Whole(entity, r)' <=> VerbsOf(ast, entity, base) \subseteq own \cup copied
      BY <1>2, <2>1, <3>4, <3>5, <3>6
    <3>8. NoOverride(ast, entity, r) <=> own \cap VerbsOf(ast, entity, base) = {}
      BY <2>3 DEF NoOverride
    <3> QED
      BY <2>0, <3>3, <3>7, <3>8
  <2> QED
    BY <2>2, <2>3
<1>6. undef = {} <=> ~ExtendsUndefined(ast, entity, r)
  OBVIOUS
<1>7. fail' = (fail \/ undef \cup UndefinedVerbs(r) \cup CopyFailures(r, base, copied) # {})
  BY <1>0 DEF Copies, SetErrors
<1> HIDE DEF base, undef
<1>8. WellFormedRole(ast, entity, r) /\ Whole(entity, r)'
        <=> undef = {} /\ UndefinedVerbs(r) = {} /\ CopyFailures(r, base, copied) = {}
  BY <1>4, <1>5, <1>6 DEF WellFormedRole
<1> QED
  BY <1>7, <1>8

(* The fail flag is never reset, and a complete role stays as it is. *)
LEMMA CompleteRoleKeeps ==
  ASSUME TypeOK, NEW r \in Roles, CompleteRole(r)
  PROVE  /\ fail => fail'
         /\ \A e \in Entities : \A s \in Roles : Complete(e, s) =>
              Complete(e, s)' /\ (Whole(e, s)' <=> Whole(e, s))
<1>1. /\ \A x \in Entities \X Roles : x # <<entity, r>> => role_verbs'[x] = role_verbs[x]
      /\ type_complete' = type_complete \cup {<<entity, r>>}
      /\ <<entity, r>> \notin type_complete
  BY CompleteRoleTrees
<1>2. ast' = ast
  BY DEF CompleteRole, VisitRole
<1>3. fail => fail'
  <2>1. PICK copied : Copies(r, BaseOf(ast, entity, r), copied)
    BY CompleteRoleCopies
  <2> QED
    BY <2>1 DEF Copies, SetErrors
<1>4. ASSUME NEW e \in Entities, NEW s \in Roles, Complete(e, s)
      PROVE  Complete(e, s)' /\ (Whole(e, s)' <=> Whole(e, s))
  <2>1. role_verbs'[<<e, s>>] = role_verbs[<<e, s>>]
    BY <1>1, <1>4 DEF Complete
  <2> QED
    BY <1>1, <1>2, <1>4, <2>1 DEF Complete, Whole
<1> QED
  BY <1>3, <1>4

(* A role or entity that is not well formed spoils the config. *)
LEMMA OneFaultSpoils ==
  ASSUME NEW e \in ast.entities, WellFormed(ast)
  PROVE  /\ e \in ast.declared
         /\ Acyclic(ast, e)
         /\ \A r \in ast.roles[e] : WellFormedRole(ast, e, r)
  BY DEF WellFormed

(* CircularLoop is only reached in an entity with an inheritance loop: the *)
(* incomplete roles all extend incomplete roles.                           *)
LEMMA CircularLoopIsLoop ==
  ASSUME TypeOK, HeapInv, PassInv, CircularLoop
  PROVE  ~WellFormed(ast)
<1> DEFINE S == {s \in ast.roles[entity] : ~Complete(entity, s)}
<1>1. /\ pc = "roles" /\ roles_left = {}
      /\ incomplete_types_found /\ resolved_count = 0
  BY DEF CircularLoop, PassOver
<1>2. /\ ast \in Ast /\ entity \in ast.entities /\ entity \in Entities
  BY <1>1, AstTypes DEF TypeOK
<1>3. \A s \in S : BaseOf(ast, entity, s) # NULL /\ ~Complete(entity, BaseOf(ast, entity, s))
  BY <1>1 DEF PassInv
<1>4. \A s \in S : BaseOf(ast, entity, s) \in ast.roles[entity]
  BY <1>3 DEF BaseOf
<1>5. last_incomplete_type \in S
  BY <1>1 DEF PassInv
<1>6. ~Acyclic(ast, entity)
  BY <1>3, <1>4, <1>5 DEF Acyclic
<1> QED
  BY <1>2, <1>6, OneFaultSpoils

(* The tests at the end of a pass read what the pass has established. *)
LEMMA NextPassInv ==
  ASSUME TypeOK, PassInv, [Next]_vars
  PROVE  PassInv'
<1>1. ASSUME NEW e \in Entities, VisitEntity(e) PROVE PassInv'
  <2>1. /\ e \in entities_left /\ entities_left' = entities_left \ {e}
        /\ entity' = e /\ roles_left' = ast.roles[e] /\ incomplete_types_found' = FALSE
        /\ ast' = ast
    BY <1>1 DEF VisitEntity, IsNext, StartPass
  <2>2. e \in ast.entities
    BY <2>1 DEF TypeOK
  <2> QED
    BY <2>1, <2>2 DEF PassInv
<1>2. ASSUME NEW r \in Roles, SkipCompleteRole(r) PROVE PassInv'
  BY <1>2 DEF PassInv, SkipCompleteRole, VisitRole, Complete, heapVars
<1>3. ASSUME NEW r \in Roles, DeferRole(r) PROVE PassInv'
  <2>1. /\ pc = "roles" /\ roles_left' = roles_left \ {r} /\ r \in ast.roles[entity]
        /\ UNCHANGED <<ast, pc, entities_left, entity>>
    BY <1>3, VisitRoleTypes DEF DeferRole, VisitRole
  <2>2. /\ ~Complete(entity, r)
        /\ BaseOf(ast, entity, r) # NULL /\ ~Complete(entity, BaseOf(ast, entity, r))
        /\ incomplete_types_found' = TRUE /\ last_incomplete_type' = r
        /\ UNCHANGED <<resolved_count, type_complete>>
    BY <1>3 DEF DeferRole, heapVars, Complete
  <2> QED
    BY <2>1, <2>2 DEF PassInv, Complete
<1>4. ASSUME NEW r \in Roles, CompleteRole(r) PROVE PassInv'
  <2>1. /\ pc = "roles" /\ roles_left' = roles_left \ {r}
        /\ UNCHANGED <<ast, pc, entities_left, entity, incomplete_types_found>>
        /\ type_complete' = type_complete \cup {<<entity, r>>}
    BY <1>4 DEF CompleteRole, VisitRole
  <2>2. resolved_count' # 0
    <3>1. resolved_count' = resolved_count + 1
      BY <1>4 DEF CompleteRole
    <3>2. resolved_count \in Nat
      BY DEF TypeOK
    <3> QED
      BY <3>1, <3>2
  <2> QED
    BY <2>1, <2>2 DEF PassInv, Complete
<1>5. CASE NextPass
  BY <1>5 DEF NextPass, StartPass, PassOver, PassInv
<1>6. CASE CircularLoop \/ EntityDone \/ Return
  BY <1>6 DEF CircularLoop, EntityDone, Return, PassInv
<1>7. CASE UNCHANGED vars
  BY <1>7 DEF PassInv, Complete, vars, loopVars, heapVars
<1> QED
  BY <1>1, <1>2, <1>3, <1>4, <1>5, <1>6, <1>7 DEF Next, RoleStep, Returned

(* The status is the fail flag's, and only reached at the end. *)
LEMMA NextStatus ==
  ASSUME TypeOK, StatusInv, [Next]_vars
  PROVE  StatusInv'
<1>1. CASE Return
  BY <1>1 DEF Return, StatusInv, loopVars
<1>2. CASE UNCHANGED vars
  BY <1>2 DEF StatusInv, vars, loopVars
<1>3. ASSUME NEW e \in Entities, VisitEntity(e) PROVE StatusInv'
  BY <1>3 DEF VisitEntity, StatusInv
<1>4. ASSUME NEW r \in Roles, RoleStep(r) PROVE StatusInv'
  BY <1>4 DEF RoleStep, SkipCompleteRole, DeferRole, CompleteRole, VisitRole, StatusInv
<1>5. CASE CircularLoop \/ NextPass \/ EntityDone
  BY <1>5 DEF CircularLoop, NextPass, EntityDone, PassOver, StatusInv
<1> QED
  BY <1>1, <1>2, <1>3, <1>4, <1>5 DEF Next, Returned

(* A step that changes nothing the fail flag is about. *)
LEMMA SoundFrame ==
  ASSUME SoundSoFar,
         UNCHANGED <<ast, pc, entities_left, entity, fail, type_complete, role_verbs>>
  PROVE  SoundSoFar'
<1>1. \A f, s : (Complete(f, s)' <=> Complete(f, s)) /\ (Whole(f, s)' <=> Whole(f, s))
  BY DEF Complete, Whole
<1> QED
  BY <1>1 DEF SoundSoFar

(* What the fail flag says of the part visited so far. *)
LEMMA NextSound ==
  ASSUME TypeOK, HeapInv, PassInv, SoundSoFar, [Next]_vars
  PROVE  SoundSoFar'
<1>0. ast \in Ast
  BY DEF TypeOK
<1>1. ASSUME NEW e \in Entities, VisitEntity(e) PROVE SoundSoFar'
  <2>1. /\ pc = "entities" /\ e \in entities_left /\ entities_left' = entities_left \ {e}
        /\ entity' = e /\ pc' = IF ast.roles[e] = {} THEN "entities" ELSE "roles"
        /\ UNCHANGED <<ast, type_complete>>
    BY <1>1 DEF VisitEntity, IsNext, heapVars
  <2>1a. \A f, s : (Complete(f, s)' <=> Complete(f, s)) /\ (Whole(f, s)' <=> Whole(f, s))
    BY <1>1 DEF VisitEntity, heapVars, Complete, Whole
  <2>2. e \in ast.entities
    BY <2>1 DEF TypeOK
  <2>3. fail' = (fail \/ e \notin ast.declared)
    BY <1>1 DEF VisitEntity, SetErrors
  <2>4. CASE fail
    BY <2>1, <2>1a, <2>3, <2>4 DEF SoundSoFar
  <2>5. CASE ~fail /\ e \notin ast.declared
    BY <2>1, <2>2, <2>3, <2>5, OneFaultSpoils DEF SoundSoFar
  <2>6. CASE ~fail /\ e \in ast.declared
    BY <2>1, <2>1a, <2>3, <2>6 DEF SoundSoFar
  <2> QED
    BY <2>4, <2>5, <2>6
<1>2. ASSUME NEW r \in Roles, SkipCompleteRole(r) \/ DeferRole(r) PROVE SoundSoFar'
  <2>1. UNCHANGED <<ast, pc, entities_left, entity, fail, type_complete, role_verbs>>
    BY <1>2 DEF SkipCompleteRole, DeferRole, VisitRole, heapVars
  <2> QED
    BY <2>1, SoundFrame
<1>3. ASSUME NEW r \in Roles, CompleteRole(r) PROVE SoundSoFar'
  <2>1. /\ UNCHANGED <<ast, pc, entities_left, entity>>
        /\ type_complete' = type_complete \cup {<<entity, r>>}
    BY <1>3 DEF CompleteRole, VisitRole
  <2>2. entity \in ast.entities /\ r \in ast.roles[entity]
    BY <1>3, CompleteRoleTrees
  <2>2a. entity \in Entities /\ Complete(entity, r)'
    BY <1>3, <2>1, CompleteRoleTrees DEF Complete
  <2>3. /\ fail => fail'
        /\ \A e \in Entities : \A s \in Roles : Complete(e, s) =>
             Complete(e, s)' /\ (Whole(e, s)' <=> Whole(e, s))
    BY <1>3, CompleteRoleKeeps
  <2>3a. \A e \in Entities, s \in Roles :
           Complete(e, s)' => Complete(e, s) \/ (e = entity /\ s = r)
    BY <2>1 DEF Complete
  <2>4. CASE fail
    BY <2>1, <2>3, <2>4 DEF SoundSoFar
  <2>4a. ASSUME ~fail
         PROVE  fail' = (fail \/ ~WellFormedRole(ast, entity, r) \/ ~Whole(entity, r)')
    BY <1>3, <2>2a, <2>4a, CompleteRoleFail DEF SoundSoFar
  <2>5. CASE ~fail /\ ~WellFormedRole(ast, entity, r)
    BY <2>1, <2>2, <2>4a, <2>5, OneFaultSpoils DEF SoundSoFar
  <2>6. CASE ~fail /\ ~Whole(entity, r)'
    <3>1. fail'
      BY <2>4a, <2>6
    <3>2. \E e \in Entities : \E s \in Roles : Complete(e, s)' /\ ~Whole(e, s)'
      <4>1. PICK e \in Entities : e = entity /\ e = entity'
        BY <2>1, <2>2a
      <4>2. Complete(e, r)'
        BY <2>2a, <4>1 DEF Complete
      <4>3. ~Whole(e, r)'
        BY <2>6, <4>1 DEF Whole
      <4> QED
        BY <4>2, <4>3
    <3> QED
      BY <3>1, <3>2 DEF SoundSoFar
  <2>7. CASE ~fail /\ WellFormedRole(ast, entity, r) /\ Whole(entity, r)'
    <3>1. ~fail'
      BY <2>4a, <2>7
    <3>2. \A e \in Entities : \A s \in Roles :
            Complete(e, s)' => WellFormedRole(ast, e, s) /\ Whole(e, s)'
      <4>1. \A e \in Entities : \A s \in Roles :
              Complete(e, s) => WellFormedRole(ast, e, s) /\ Whole(e, s)
        BY <2>7 DEF SoundSoFar
      <4>2. ASSUME NEW e \in Entities, NEW s \in Roles, e = entity, s = r
            PROVE  WellFormedRole(ast, e, s) /\ Whole(e, s)'
        BY <2>1, <2>7, <4>2
      <4> QED
        BY <2>3, <2>3a, <4>1, <4>2
    <3>3. \A e \in ast.entities \ entities_left :
            /\ e \in ast.declared
            /\ ~(pc = "roles" /\ e = entity) => \A s \in ast.roles[e] : Complete(e, s)'
      BY <2>1, <2>7 DEF SoundSoFar, Complete
    <3> QED
      BY <2>1, <3>1, <3>2, <3>3 DEF SoundSoFar
  <2> QED
    BY <2>4, <2>5, <2>6, <2>7
<1>4. CASE CircularLoop
  <2>1. ~WellFormed(ast) /\ ast' = ast
    BY <1>4, CircularLoopIsLoop DEF CircularLoop
  <2>2. fail'
    BY <1>4 DEF CircularLoop, SetErrors
  <2> QED
    BY <2>1, <2>2 DEF SoundSoFar
<1>5. CASE NextPass
  <2>1. UNCHANGED <<ast, pc, entities_left, entity, fail, type_complete, role_verbs>>
    BY <1>5 DEF NextPass, heapVars
  <2> QED
    BY <2>1, SoundFrame
<1>6. CASE EntityDone
  <2>1. /\ UNCHANGED <<ast, entities_left, fail, type_complete, role_verbs>>
        /\ pc = "roles" /\ roles_left = {} /\ ~incomplete_types_found
    BY <1>6 DEF EntityDone, PassOver, loopVars, heapVars
  <2>2. \A r \in ast.roles[entity] : Complete(entity, r)
    BY <2>1 DEF PassInv
  <2>3. \A f, s : (Complete(f, s)' <=> Complete(f, s)) /\ (Whole(f, s)' <=> Whole(f, s))
    BY <2>1 DEF Complete, Whole
  <2> QED
    BY <2>1, <2>2, <2>3 DEF SoundSoFar
<1>7. CASE Return
  <2>1. UNCHANGED <<ast, entities_left, fail, type_complete, role_verbs>> /\ pc = "entities"
    BY <1>7 DEF Return, loopVars, heapVars
  <2>3. \A f, s : (Complete(f, s)' <=> Complete(f, s)) /\ (Whole(f, s)' <=> Whole(f, s))
    BY <2>1 DEF Complete, Whole
  <2> QED
    BY <2>1, <2>3 DEF SoundSoFar
<1>8. CASE UNCHANGED vars
  BY <1>8, SoundFrame DEF vars, loopVars, heapVars
<1> QED
  BY <1>1, <1>2, <1>3, <1>4, <1>5, <1>6, <1>7, <1>8 DEF Next, RoleStep, Returned

(* Initially nothing is complete and nothing is visited. *)
LEMMA InitIInv == Init => IInv
<1> SUFFICES ASSUME Init PROVE IInv
  OBVIOUS
<1>1. TypeOK
  BY InitType
<1>2. type_complete = {} /\ pc = "entities" /\ entities_left = ast.entities /\ ~fail
  BY DEF Init
<1>3. IncompleteRoles
  BY DEF IncompleteRoles, Init
<1>4. CompletedRoles /\ LoopsIncomplete
  BY <1>2 DEF CompletedRoles, LoopsIncomplete, Complete
<1>5. PassInv /\ SoundSoFar /\ StatusInv
  BY <1>2 DEF PassInv, SoundSoFar, StatusInv, Complete
<1> QED
  BY <1>1, <1>3, <1>4, <1>5 DEF IInv, HeapInv

(* The inductive invariant of endorse_analyze. *)
THEOREM Inductive == Spec => []IInv
<1>1. IInv /\ [Next]_vars => IInv'
  BY NextType, NextHeap, NextPassInv, NextSound, NextStatus DEF IInv
<1> QED
  BY <1>1, InitIInv, PTL DEF Spec

(* Nothing is lost while every complete role is whole, and only then. *)
LEMMA NothingLostIsWhole ==
  ASSUME TypeOK, HeapInv
  PROVE  NothingLost <=>
           \A e \in Entities : \A r \in Roles : Complete(e, r) => Whole(e, r)
<1>1. ASSUME NEW e \in Entities, NEW r \in Roles, Complete(e, r)
      PROVE  Held(e, r) = VerbsOf(ast, e, r) <=> Whole(e, r)
  <2>1. Whole(e, r) => Held(e, r) = VerbsOf(ast, e, r)
    BY <1>1, WholeBase
  <2> QED
    BY <2>1 DEF Held, Whole
<1>2. \A e \in Entities : \A r \in Roles :
        Complete(e, r) => e \in ast.entities /\ r \in ast.roles[e]
  BY DEF HeapInv, CompletedRoles
<1>3. ast.entities \subseteq Entities /\ \A e \in Entities : ast.roles[e] \subseteq Roles
  BY AstTypes DEF TypeOK
<1>4. NothingLost <=> \A e \in ast.entities : \A r \in ast.roles[e] :
        Complete(e, r) => Held(e, r) = VerbsOf(ast, e, r)
  BY DEF NothingLost, Complete
<1> QED
  BY <1>1, <1>2, <1>3, <1>4

(* For every config: the status of endorse_analyze is success when the     *)
(* config is well formed and every insert found memory, and failure when   *)
(* not.                                                                    *)
THEOREM VerdictCorrect == Spec => []Verdict
<1>1. IInv => Verdict
  <2> SUFFICES ASSUME IInv PROVE Verdict
    OBVIOUS
  <2>0. NothingLost <=>
          \A e \in Entities : \A r \in Roles : Complete(e, r) => Whole(e, r)
    BY NothingLostIsWhole DEF IInv
  <2>1. CASE pc = "success"
    <3>1. ~fail /\ entities_left = {} /\ ast \in Ast
      BY <2>1 DEF IInv, StatusInv, TypeOK
    <3>2. ASSUME NEW e \in ast.entities
          PROVE  /\ e \in ast.declared
                 /\ Acyclic(ast, e)
                 /\ \A r \in ast.roles[e] : WellFormedRole(ast, e, r)
      <4>1. e \in Entities /\ ast.roles[e] \subseteq Roles
        BY <3>1, AstTypes
      <4>2. e \in ast.declared /\ \A r \in ast.roles[e] : Complete(e, r)
        BY <2>1, <3>1 DEF IInv, SoundSoFar
      <4>3. Acyclic(ast, e)
        BY <4>1, <4>2 DEF IInv, HeapInv, LoopsIncomplete, Acyclic
      <4>4. \A r \in ast.roles[e] : WellFormedRole(ast, e, r)
        BY <3>1, <4>1, <4>2 DEF IInv, SoundSoFar
      <4> QED
        BY <4>2, <4>3, <4>4
    <3>3. NothingLost
      BY <2>0, <3>1 DEF IInv, SoundSoFar
    <3> QED
      BY <2>1, <3>2, <3>3 DEF Verdict, WellFormed
  <2>2. CASE pc = "failure"
    <3>1. ~(WellFormed(ast) /\ NothingLost)
      BY <2>0, <2>2 DEF IInv, StatusInv, SoundSoFar
    <3> QED
      BY <2>2, <3>1 DEF Verdict
  <2> QED
    BY <2>1, <2>2 DEF Verdict, Done
<1> QED
  BY <1>1, Inductive, PTL

(* For every config: when the analysis succeeds, add_role_capabilities     *)
(* meets no role_verb whose verb pointer is NULL.                          *)
THEOREM NoNullVerb == Spec => []NoNullVerbOnSuccess
<1>1. IInv => NoNullVerbOnSuccess
  <2> SUFFICES ASSUME IInv, pc = "success", NEW e \in ast.entities, NEW r \in ast.roles[e]
      PROVE  /\ <<e, r>> \in type_complete
             /\ \A v \in Held(e, r) : <<e, role_verbs[e, r][v], v>> \in linked
    BY DEF NoNullVerbOnSuccess
  <2>1. ast \in Ast /\ e \in Entities /\ r \in Roles
    BY AstTypes DEF IInv, TypeOK
  <2>2. ~fail /\ entities_left = {}
    BY DEF IInv, StatusInv
  <2>3. \A s \in ast.roles[e] : Complete(e, s)
    BY <2>2 DEF IInv, SoundSoFar
  <2>4. \A s \in ast.roles[e] : ast.own[e][s] \subseteq ast.verbs[e]
    BY <2>1, <2>2, <2>3, AstTypes DEF IInv, SoundSoFar, WellFormedRole
  <2>5. VerbsOf(ast, e, r) \subseteq ast.verbs[e]
    BY <2>1, <2>4, LineageRoles DEF VerbsOf
  <2>6. \A v \in Held(e, r) : v \in Verbs /\ v \in VerbsOf(ast, e, r)
    BY <2>1, <2>3 DEF IInv, HeapInv, CompletedRoles, Held
  <2>7. \A v \in Verbs : role_verbs[<<e, r>>][v] # NULL /\ v \in ast.verbs[e] =>
          <<e, role_verbs[<<e, r>>][v], v>> \in linked
    BY <2>1, <2>3 DEF IInv, HeapInv, CompletedRoles
  <2>8. \A v \in Held(e, r) : v \in Verbs /\ role_verbs[<<e, r>>][v] # NULL
    BY DEF Held
  <2> QED
    BY <2>3, <2>5, <2>6, <2>7, <2>8 DEF Complete
<1> QED
  BY <1>1, Inductive, PTL

(* For every config: a complete role is never changed again. *)
THEOREM CompleteStaysFinal == Spec => CompleteIsFinal
<1>1. ASSUME TypeOK, [Next]_vars
      PROVE  [\A x \in type_complete :
                /\ x \in type_complete'
                /\ role_verbs'[x] = role_verbs[x]
                /\ extends_role'[x] = extends_role[x]]_vars
  <2>1. ASSUME NEW r \in Roles, CompleteRole(r), NEW x \in type_complete
        PROVE  /\ x \in type_complete'
               /\ role_verbs'[x] = role_verbs[x]
               /\ extends_role'[x] = extends_role[x]
    <3>1. x \in Entities \X Roles /\ x # <<entity, r>>
      BY <1>1, <2>1 DEF TypeOK, CompleteRole
    <3>2. extends_role \in [Entities \X Roles -> Roles \cup {NULL}]
      BY <1>1 DEF TypeOK
    <3>3. entity \in Entities /\ BaseOf(ast, entity, r) \in Roles \cup {NULL}
      BY <1>1, <2>1, CompleteRoleTrees
    <3> QED
      BY <1>1, <2>1, <3>1, <3>2, <3>3, CompleteRoleTrees
  <2>2. CASE UNCHANGED heapVars
    BY <2>2 DEF heapVars
  <2>3. \/ \E r \in Roles : CompleteRole(r)
        \/ UNCHANGED heapVars
    BY <1>1 DEF Next, RoleStep, vars, VisitEntity, SkipCompleteRole, DeferRole, VisitRole,
           CircularLoop, NextPass, EntityDone, Return, Returned
  <2> QED
    BY <2>1, <2>2, <2>3
<1> QED
  BY <1>1, TypeCorrect, PTL DEF Spec, CompleteIsFinal

-----------------------------------------------------------------------------
(***************************************************************************)
(* endorse_analyze implements its contract: CompleteRole settles a role,   *)
(* Return finishes, and every other step leaves the contract's state alone.*)
(***************************************************************************)

(* The refinement mapping, applied to a role. *)
LEMMA HeldVerbsOfRole ==
  /\ HeldVerbs = [x \in Entities \X Roles |-> HeldVerbs[x]]
  /\ \A e \in Entities, r \in Roles : HeldVerbs[<<e, r>>] = Held(e, r)
BY DEF HeldVerbs

(* Trees that do not change hold the same verbs. *)
LEMMA HeldVerbsFrame ==
  ASSUME role_verbs' = role_verbs
  PROVE  HeldVerbs' = HeldVerbs
<1>1. ASSUME NEW x \in Entities \X Roles
      PROVE  Held(x[1], x[2])' = Held(x[1], x[2])
  BY DEF Held
<1> QED
  BY <1>1 DEF HeldVerbs

(* The contract means the same by a config as the analyzer's module. *)
LEMMA ContractAst == Contract!Ast = Ast
BY DEF Contract!Ast, Ast

(* The contract speaks of the same base of a role,                          *)
LEMMA ContractBaseOf ==
  ASSUME NEW a, NEW e, NEW r
  PROVE  Contract!BaseOf(a, e, r) = BaseOf(a, e, r)
BY DEF Contract!BaseOf, BaseOf

(* of the same verbs of its lineage,                                        *)
LEMMA ContractVerbsOf ==
  ASSUME NEW a, NEW e, NEW r
  PROVE  Contract!VerbsOf(a, e, r) = VerbsOf(a, e, r)
BY DEF Contract!VerbsOf, VerbsOf, Contract!Lineage, Lineage, Contract!BaseClosed, BaseClosed,
   Contract!BaseOf, BaseOf

(* and of the same well formed configs.                                     *)
LEMMA ContractWellFormed ==
  ASSUME NEW a
  PROVE  Contract!WellFormed(a) <=> WellFormed(a)
BY DEF Contract!WellFormed, WellFormed, Contract!Acyclic, Acyclic,
   Contract!WellFormedRole, WellFormedRole, Contract!NoOverride, NoOverride,
   Contract!ExtendsUndefined, ExtendsUndefined, Contract!VerbsOf, VerbsOf,
   Contract!Lineage, Lineage, Contract!BaseClosed, BaseClosed, Contract!BaseOf, BaseOf

(* The initial states map to initial states of the contract. *)
LEMMA InitImplements == Init => Contract!Init
<1> SUFFICES ASSUME Init PROVE Contract!Init
  OBVIOUS
<1>1. ast \in Ast /\ Status = "running" /\ type_complete = {}
  BY ConfigsAssumption DEF Init, Done, Status
<1>2. ASSUME NEW e \in Entities, NEW r \in Roles
      PROVE  Held(e, r) = ast.own[e][r]
  <2>1. ast.own[e][r] \subseteq Verbs
    BY <1>1, <1>2, AstTypes
  <2>2. role_verbs[<<e, r>>] = [v \in Verbs |-> IF v \in ast.own[e][r] THEN r ELSE NULL]
    BY <1>2 DEF Init
  <2>3. \A v \in Verbs : role_verbs[<<e, r>>][v] # NULL <=> v \in ast.own[e][r]
    BY <1>2, <2>2, NullAssumption
  <2> QED
    BY <2>1, <2>3 DEF Held
<1>3. HeldVerbs = [x \in Entities \X Roles |-> ast.own[x[1]][x[2]]]
  BY <1>2 DEF HeldVerbs
<1> QED
  BY <1>1, <1>3, ContractAst DEF Contract!Init

(* Completing a role settles it in the contract. *)
LEMMA CompleteRoleSettles ==
  ASSUME TypeOK, HeapInv, NEW r \in Roles, CompleteRole(r)
  PROVE  Contract!Settle(entity, r)
<1>1. /\ ast \in Ast /\ entity \in Entities /\ entity \in ast.entities
      /\ r \in ast.roles[entity]
      /\ <<entity, r>> \notin type_complete
      /\ BaseOf(ast, entity, r) # NULL => <<entity, BaseOf(ast, entity, r)>> \in type_complete
      /\ type_complete' = type_complete \cup {<<entity, r>>}
      /\ \A x \in Entities \X Roles : x # <<entity, r>> => role_verbs'[x] = role_verbs[x]
  BY CompleteRoleTrees DEF TypeOK
<1>2. ast' = ast /\ Status = "running" /\ Status' = "running"
  BY DEF CompleteRole, VisitRole, Done, Status
<1>3. ASSUME NEW e \in Entities, NEW s \in Roles, <<e, s>> # <<entity, r>>
      PROVE  HeldVerbs'[<<e, s>>] = HeldVerbs[<<e, s>>]
  <2>1. role_verbs'[<<e, s>>] = role_verbs[<<e, s>>]
    BY <1>1, <1>3
  <2>2. Held(e, s)' = Held(e, s)
    BY <2>1 DEF Held
  <2> QED
    BY <1>3, <2>2 DEF HeldVerbs
<1> DEFINE verbs == HeldVerbs'[<<entity, r>>]
<1>4. verbs \subseteq VerbsOf(ast, entity, r) /\ ast.own[entity][r] \subseteq verbs
  <2>1. ast.own[entity][r] \subseteq Verbs
    BY <1>1, AstTypes
  <2>2. verbs = {v \in Verbs : role_verbs'[<<entity, r>>][v] # NULL}
    BY <1>1 DEF HeldVerbs, Held
  <2> QED
    BY <2>1, <2>2, CompletedRole
<1>5. HeldVerbs' = [HeldVerbs EXCEPT ![<<entity, r>>] = verbs]
  <2>1. HeldVerbs' = [x \in Entities \X Roles |-> HeldVerbs'[x]]
    BY DEF HeldVerbs
  <2>2. HeldVerbs = [x \in Entities \X Roles |-> HeldVerbs[x]]
    BY HeldVerbsOfRole
  <2>3. ASSUME NEW x \in Entities \X Roles
        PROVE  HeldVerbs'[x] = IF x = <<entity, r>> THEN verbs ELSE HeldVerbs[x]
    <3>1. PICK e \in Entities, s \in Roles : x = <<e, s>>
      BY <2>3
    <3> QED
      BY <1>3, <3>1
  <2> HIDE DEF verbs
  <2> QED
    BY <2>1, <2>2, <2>3
<1> HIDE DEF verbs
<1> QED
  BY <1>1, <1>2, <1>4, <1>5, ContractBaseOf, ContractVerbsOf DEF Contract!Settle

(* Nothing is lost when no settled role misses a verb in the contract. *)
LEMMA NothingLostContract ==
  ASSUME TypeOK, HeapInv
  PROVE  NothingLost <=> Contract!NoneMissing
<1>1. type_complete \subseteq Entities \X Roles /\ ast \in Ast
  BY DEF TypeOK
<1>2. ASSUME NEW e \in Entities, NEW r \in Roles
      PROVE  /\ HeldVerbs[<<e, r>>] = Held(e, r)
             /\ <<e, r>> \in type_complete <=> Complete(e, r)
             /\ Complete(e, r) => e \in ast.entities /\ r \in ast.roles[e]
  BY <1>2, HeldVerbsOfRole DEF Complete, HeapInv, CompletedRoles
<1>3. ast.entities \subseteq Entities /\ \A e \in Entities : ast.roles[e] \subseteq Roles
  BY <1>1, AstTypes
<1>4. Contract!NoneMissing <=> \A x \in type_complete : HeldVerbs[x] = VerbsOf(ast, x[1], x[2])
  BY ContractVerbsOf DEF Contract!NoneMissing
<1>5. Contract!NoneMissing <=>
        \A e \in Entities, r \in Roles :
          Complete(e, r) => Held(e, r) = VerbsOf(ast, e, r)
  <2>1. ASSUME NEW x \in type_complete
        PROVE  \E e \in Entities, r \in Roles : x = <<e, r>> /\ x[1] = e /\ x[2] = r
    BY <1>1, <2>1
  <2>2. ASSUME \A x \in type_complete : HeldVerbs[x] = VerbsOf(ast, x[1], x[2]),
               NEW e \in Entities, NEW r \in Roles, Complete(e, r)
        PROVE  Held(e, r) = VerbsOf(ast, e, r)
    <3>1. <<e, r>> \in type_complete
      BY <2>2 DEF Complete
    <3>2. HeldVerbs[<<e, r>>] = VerbsOf(ast, e, r)
      BY <2>2, <3>1
    <3> QED
      BY <1>2, <3>2
  <2>3. ASSUME \A e \in Entities, r \in Roles : Complete(e, r) => Held(e, r) = VerbsOf(ast, e, r),
               NEW x \in type_complete
        PROVE  HeldVerbs[x] = VerbsOf(ast, x[1], x[2])
    <3>1. PICK e \in Entities, r \in Roles : x = <<e, r>> /\ x[1] = e /\ x[2] = r
      BY <2>1
    <3>2. Held(e, r) = VerbsOf(ast, e, r)
      BY <2>3, <3>1 DEF Complete
    <3>3. HeldVerbs[x] = Held(e, r)
      BY <1>2, <3>1
    <3> QED
      BY <3>1, <3>2, <3>3
  <2> QED
    BY <1>4, <2>2, <2>3
<1> QED
  BY <1>2, <1>3, <1>5 DEF NothingLost, Complete

(* Every step is a step of the contract or leaves its state alone. *)
LEMMA NextImplements ==
  ASSUME IInv, IInv', Verdict', NoNullVerbOnSuccess', [Next]_vars
  PROVE  [Contract!Next]_(Contract!contractVars)
<1>1. ASSUME NEW r \in Roles, CompleteRole(r) PROVE Contract!Next
  <2>1. entity \in Entities /\ Contract!Settle(entity, r)
    BY <1>1, CompleteRoleTrees, CompleteRoleSettles DEF IInv
  <2> QED
    BY <2>1 DEF Contract!Next
<1>2. CASE Return
  <2>1. /\ Status = "running" /\ Status' = pc' /\ pc' \in {"success", "failure"}
        /\ ast' = ast /\ type_complete' = type_complete /\ role_verbs' = role_verbs
    BY <1>2 DEF Return, Done, heapVars, Status
  <2>2. pc' = "success" <=> WellFormed(ast) /\ NothingLost'
    BY <2>1 DEF Verdict, Done
  <2>2a. NothingLost' <=> Contract!NoneMissing
    <3>1. NothingLost' <=> NothingLost
      BY <2>1 DEF NothingLost, Held
    <3> QED
      BY <3>1, NothingLostContract DEF IInv
  <2>3. pc' = "success" => Contract!AllSettled
    BY <2>1 DEF NoNullVerbOnSuccess, Contract!AllSettled
  <2>4. HeldVerbs' = HeldVerbs
    BY <2>1, HeldVerbsFrame
  <2> QED
    BY <2>1, <2>2, <2>2a, <2>3, <2>4, ContractWellFormed DEF Contract!Finish, Contract!Next
<1>3. ASSUME UNCHANGED <<ast, type_complete, role_verbs>>, Status' = Status
      PROVE  UNCHANGED Contract!contractVars
  <2>1. HeldVerbs' = HeldVerbs
    BY <1>3, HeldVerbsFrame
  <2> QED
    BY <1>3, <2>1 DEF Contract!contractVars
<1>4. ASSUME NEW e \in Entities, VisitEntity(e) PROVE UNCHANGED Contract!contractVars
  <2>1. UNCHANGED <<ast, type_complete, role_verbs>> /\ Status' = Status
    BY <1>4 DEF VisitEntity, heapVars, Done, Status
  <2> QED
    BY <1>3, <2>1
<1>5. ASSUME NEW r \in Roles, SkipCompleteRole(r) \/ DeferRole(r)
      PROVE  UNCHANGED Contract!contractVars
  <2>1. UNCHANGED <<ast, type_complete, role_verbs>> /\ Status' = Status
    BY <1>5 DEF SkipCompleteRole, DeferRole, VisitRole, heapVars, Done, Status
  <2> QED
    BY <1>3, <2>1
<1>6. CASE CircularLoop \/ NextPass \/ EntityDone
  <2>1. UNCHANGED <<ast, type_complete, role_verbs>> /\ Status' = Status
    BY <1>6 DEF CircularLoop, NextPass, EntityDone, PassOver, heapVars, Done, Status
  <2> QED
    BY <1>3, <2>1
<1>7. CASE UNCHANGED vars
  <2>1. UNCHANGED <<ast, type_complete, role_verbs>> /\ Status' = Status
    BY <1>7 DEF vars, heapVars, Done, Status
  <2> QED
    BY <1>3, <2>1
<1> QED
  BY <1>1, <1>2, <1>4, <1>5, <1>6, <1>7 DEF Next, RoleStep, Returned

(* For every config: the passes over trees of shared role_verbs implement  *)
(* the contract that settles each role in one step.                        *)
THEOREM ImplementsContract == Spec => Implements
<1>1. IInv /\ IInv' /\ Verdict' /\ NoNullVerbOnSuccess' /\ [Next]_vars
        => [Contract!Next]_(Contract!contractVars)
  BY NextImplements
<1> QED
  BY <1>1, InitImplements, Inductive, VerdictCorrect, NoNullVerb, PTL
  DEF Spec, Implements, Contract!Spec
-----------------------------------------------------------------------------
(***************************************************************************)
(* The messages.  EveryFaultReported speaks of the end; on the way there,  *)
(* what has been reported are the faults of the entities visited and of    *)
(* the roles completed, and an entity that is done with has been reported  *)
(* as circular just when some of its roles are left incomplete.            *)
(***************************************************************************)

(* The messages by their kinds. *)
Undeclared(e) == <<"undeclared", e>>
UndefinedRole(e, r) == <<"undefined role", e, r>>
UndefinedVerb(e, r, v) == <<"undefined verb", e, r, v>>
CopyFailed(e, r, v) == <<"copy failed", e, r, v>>
Circular(e, r) == <<"circular", e, r>>

(* No message is another. *)
LEMMA DistinctMessages ==
  /\ \A e, f : Undeclared(e) = Undeclared(f) <=> e = f
  /\ \A e, r, f, s : UndefinedRole(e, r) = UndefinedRole(f, s) <=> e = f /\ r = s
  /\ \A e, r, v, f, s, w :
       UndefinedVerb(e, r, v) = UndefinedVerb(f, s, w) <=> e = f /\ r = s /\ v = w
  /\ \A e, r, v, f, s, w :
       CopyFailed(e, r, v) = CopyFailed(f, s, w) <=> e = f /\ r = s /\ v = w
  /\ \A e, r, f, s : Circular(e, r) = Circular(f, s) <=> e = f /\ r = s
  /\ \A e, f, s : Undeclared(e) # UndefinedRole(f, s) /\ Undeclared(e) # Circular(f, s)
  /\ \A e, f, s, w : Undeclared(e) # UndefinedVerb(f, s, w) /\ Undeclared(e) # CopyFailed(f, s, w)
  /\ \A e, r, f, s : UndefinedRole(e, r) # Circular(f, s)
  /\ \A e, r, f, s, w :
       /\ UndefinedRole(e, r) # UndefinedVerb(f, s, w) /\ UndefinedRole(e, r) # CopyFailed(f, s, w)
       /\ Circular(e, r) # UndefinedVerb(f, s, w) /\ Circular(e, r) # CopyFailed(f, s, w)
  /\ \A e, r, v, f, s, w : UndefinedVerb(e, r, v) # CopyFailed(f, s, w)
BY DEF Undeclared, UndefinedRole, UndefinedVerb, CopyFailed, Circular

(* The first field of a message is its kind. *)
LEMMA KindOfMessage ==
  \A e, r, v : /\ Undeclared(e)[1] = "undeclared"
               /\ UndefinedRole(e, r)[1] = "undefined role"
               /\ UndefinedVerb(e, r, v)[1] = "undefined verb"
               /\ CopyFailed(e, r, v)[1] = "copy failed"
BY DEF Undeclared, UndefinedRole, UndefinedVerb, CopyFailed

(* Every message is of one of the kinds.                                   *)
LEMMA Diagnostics ==
  ASSUME NEW m \in Diagnostic
  PROVE  \/ \E e \in Entities : m = Undeclared(e)
         \/ \E e \in Entities, r \in Roles : m = UndefinedRole(e, r)
         \/ \E e \in Entities, r \in Roles : m = Circular(e, r)
         \/ \E e \in Entities, r \in Roles, v \in Verbs : m = UndefinedVerb(e, r, v)
         \/ \E e \in Entities, r \in Roles, v \in Verbs : m = CopyFailed(e, r, v)
<1> DEFINE K == {"undefined role", "circular"}
           L == {"undefined verb", "copy failed"}
<1> HIDE DEF K, L
<1>1. CASE m \in {"undeclared"} \X Entities
  BY <1>1 DEF Undeclared
<1>2. CASE m \in K \X Entities \X Roles
  <2>0. m = <<m[1], m[2], m[3]>>
    BY <1>2
  <2>1. m[1] \in {"undefined role", "circular"} /\ m[2] \in Entities /\ m[3] \in Roles
    BY <1>2 DEF K
  <2>2. CASE m[1] = "undefined role"
    <3>1. m = <<"undefined role", m[2], m[3]>>
      BY <2>0, <2>2, Zenon
    <3>2. m = UndefinedRole(m[2], m[3])
      BY <3>1 DEF UndefinedRole
    <3> QED
      BY <2>1, <3>2
  <2>3. CASE m[1] = "circular"
    <3>1. m = <<"circular", m[2], m[3]>>
      BY <2>0, <2>3, Zenon
    <3>2. m = Circular(m[2], m[3])
      BY <3>1 DEF Circular
    <3> QED
      BY <2>1, <3>2
  <2> QED
    BY <2>1, <2>2, <2>3
<1>3. CASE m \in L \X Entities \X Roles \X Verbs
  <2>0. m = <<m[1], m[2], m[3], m[4]>>
    BY <1>3
  <2>1. /\ m[1] \in {"undefined verb", "copy failed"}
        /\ m[2] \in Entities /\ m[3] \in Roles /\ m[4] \in Verbs
    BY <1>3 DEF L
  <2>2. CASE m[1] = "undefined verb"
    <3>1. m = <<"undefined verb", m[2], m[3], m[4]>>
      BY <2>0, <2>2, Zenon
    <3>2. m = UndefinedVerb(m[2], m[3], m[4])
      BY <3>1 DEF UndefinedVerb
    <3> QED
      BY <2>1, <3>2
  <2>3. CASE m[1] = "copy failed"
    <3>1. m = <<"copy failed", m[2], m[3], m[4]>>
      BY <2>0, <2>3, Zenon
    <3>2. m = CopyFailed(m[2], m[3], m[4])
      BY <3>1 DEF CopyFailed
    <3> QED
      BY <2>1, <3>2
  <2> QED
    BY <2>1, <2>2, <2>3
<1> QED
  BY <1>1, <1>2, <1>3 DEF Diagnostic, K, L

(* The base of role r holds verb v and r has no copy of it: r lists the    *)
(* verb itself, or the insert found no memory.                             *)
Uncopied(e, r, v) ==
  LET base == BaseOf(ast, e, r)
  IN  /\ base # NULL
      /\ role_verbs[<<e, base>>][v] # NULL
      /\ v \in ast.own[e][r] \/ role_verbs[<<e, r>>][v] = NULL

(* Role r lists verb v and inherits it as well. *)
Overrides(e, r, v) ==
  /\ v \in ast.own[e][r]
  /\ BaseOf(ast, e, r) # NULL
  /\ v \in VerbsOf(ast, e, BaseOf(ast, e, r))

MessagesInv ==
  /\ \A e \in Entities :
       Undeclared(e) \in errors
         <=> e \in ast.entities \ entities_left /\ e \notin ast.declared
  /\ \A e \in Entities : \A r \in Roles :
       /\ UndefinedRole(e, r) \in errors <=> Complete(e, r) /\ ExtendsUndefined(ast, e, r)
       /\ \A v \in Verbs :
            /\ UndefinedVerb(e, r, v) \in errors
                 <=> Complete(e, r) /\ v \in ast.own[e][r] \ ast.verbs[e]
            /\ CopyFailed(e, r, v) \in errors <=> Complete(e, r) /\ Uncopied(e, r, v)

(* The roles left incomplete all extend roles left incomplete. *)
Stuck(e) ==
  \A r \in ast.roles[e] : ~Complete(e, r) =>
    BaseOf(ast, e, r) # NULL /\ ~Complete(e, BaseOf(ast, e, r))

(* The one message about the loops of an entity names a role left          *)
(* incomplete.                                                             *)
CircularNamed(e) ==
  \/ /\ \A r \in ast.roles[e] : Complete(e, r)
     /\ \A r \in Roles : Circular(e, r) \notin errors
  \/ \E r \in ast.roles[e] :
       /\ ~Complete(e, r)
       /\ \A s \in Roles : Circular(e, s) \in errors <=> s = r

CircularInv ==
  \A e \in ast.entities :
    IF e \in entities_left \/ (pc = "roles" /\ e = entity)
    THEN \A r \in Roles : Circular(e, r) \notin errors
    ELSE Stuck(e) /\ CircularNamed(e)

(* The faults of a role, message by message. *)
LEMMA RoleFaultsOf ==
  ASSUME NEW e, NEW r, ast.own[e][r] \subseteq Verbs, NEW m
  PROVE  m \in RoleFaults(e, r) <=>
           \/ m = UndefinedRole(e, r) /\ ExtendsUndefined(ast, e, r)
           \/ \E v \in Verbs :
                m = UndefinedVerb(e, r, v) /\ v \in ast.own[e][r] \ ast.verbs[e]
           \/ \E v \in Verbs : m = CopyFailed(e, r, v) /\ Overrides(e, r, v)
<1> DEFINE base == BaseOf(ast, e, r)
           inherited == IF base = NULL THEN {} ELSE VerbsOf(ast, e, base)
           A == IF ExtendsUndefined(ast, e, r) THEN {<<"undefined role", e, r>>} ELSE {}
           B == {<<"undefined verb", e, r, v>> : v \in ast.own[e][r] \ ast.verbs[e]}
           C == {<<"copy failed", e, r, v>> : v \in ast.own[e][r] \cap inherited}
<1>1. RoleFaults(e, r) = A \cup B \cup C
  BY Zenon DEF RoleFaults
<1>2. m \in A <=> m = UndefinedRole(e, r) /\ ExtendsUndefined(ast, e, r)
  BY DEF UndefinedRole
<1>3. m \in B <=> \E v \in ast.own[e][r] \ ast.verbs[e] : m = UndefinedVerb(e, r, v)
  BY DEF UndefinedVerb
<1>4. m \in C <=> \E v \in ast.own[e][r] \cap inherited : m = CopyFailed(e, r, v)
  BY DEF CopyFailed
<1>5. \A v : v \in ast.own[e][r] \cap inherited <=> Overrides(e, r, v)
  BY DEF Overrides
<1> HIDE DEF A, B, C, inherited
<1>6. \A v : Overrides(e, r, v) => v \in Verbs
  BY DEF Overrides
<1> QED
  BY <1>1, <1>2, <1>3, <1>4, <1>5, <1>6

(* The same after the step, of the roles of the config. *)
UncopiedNext(e, r, v) ==
  LET base == BaseOf(ast, e, r)
  IN  /\ base # NULL
      /\ role_verbs'[<<e, base>>][v] # NULL
      /\ v \in ast.own[e][r] \/ role_verbs'[<<e, r>>][v] = NULL

(* What completing a role adds to the messages. *)
LEMMA CompleteRoleErrors ==
  ASSUME TypeOK, HeapInv, NEW r \in Roles, CompleteRole(r)
  PROVE  /\ \A m : m \in errors' <=>
              \/ m \in errors
              \/ ExtendsUndefined(ast, entity, r) /\ m = UndefinedRole(entity, r)
              \/ \E v \in ast.own[entity][r] \ ast.verbs[entity] :
                   m = UndefinedVerb(entity, r, v)
              \/ \E v \in Verbs : UncopiedNext(entity, r, v) /\ m = CopyFailed(entity, r, v)
         /\ \A e \in Entities : \A s \in Roles : \A v \in Verbs :
              Complete(e, s) => (UncopiedNext(e, s, v) <=> Uncopied(e, s, v))
<1> DEFINE base == BaseOf(ast, entity, r)
           own == ast.own[entity][r]
           undef == IF ExtendsUndefined(ast, entity, r)
                    THEN {UndefinedRole(entity, r)} ELSE {}
<1>0. PICK copied : Copies(r, base, copied)
  BY CompleteRoleCopies
<1>1. /\ ast \in Ast /\ entity \in Entities /\ r \in ast.roles[entity]
      /\ <<entity, r>> \notin type_complete
      /\ base # NULL => <<entity, base>> \in type_complete
      /\ \A x \in Entities \X Roles : x # <<entity, r>> => role_verbs'[x] = role_verbs[x]
      /\ \A v \in Verbs :
           role_verbs'[<<entity, r>>][v] =
             IF v \in copied THEN role_verbs[<<entity, base>>][v]
             ELSE role_verbs[<<entity, r>>][v]
  BY <1>0, CompleteRoleTrees DEF TypeOK
<1>2. own \subseteq Verbs /\ r # NULL
  BY <1>1, AstTypes, NullAssumption
<1>3. /\ Held(entity, r) = own
      /\ \A v \in Verbs : role_verbs[<<entity, r>>][v] = IF v \in own THEN r ELSE NULL
  <2>1. \A v \in Verbs : role_verbs[<<entity, r>>][v] = IF v \in own THEN r ELSE NULL
    BY <1>1 DEF HeapInv, IncompleteRoles, Complete
  <2> QED
    BY <1>2, <2>1 DEF Held
<1>4. \A v \in Verbs : v \in Inherited(base) \ copied <=> UncopiedNext(entity, r, v)
  <2>1. CASE base = NULL
    BY <2>1 DEF Inherited, UncopiedNext
  <2>2. CASE base # NULL
    <3>1. base \in Roles /\ <<entity, base>> # <<entity, r>>
      BY <1>1, <2>2, BaseOfType
    <3>2. role_verbs'[<<entity, base>>] = role_verbs[<<entity, base>>]
      BY <1>1, <3>1
    <3>3. \A v \in Verbs : v \in Inherited(base) <=> role_verbs[<<entity, base>>][v] # NULL
      BY <2>2 DEF Inherited, Held
    <3>4. copied \in SUBSET Copyable(r, base)
      BY <1>0 DEF Copies
    <3>5. \A v \in copied : v \in Inherited(base) /\ v \notin own
      BY <1>3, <3>4 DEF Copyable
    <3>6. \A v \in Verbs : UncopiedNext(entity, r, v) <=>
            /\ role_verbs[<<entity, base>>][v] # NULL
            /\ v \in own \/ role_verbs'[<<entity, r>>][v] = NULL
      BY <2>2, <3>2 DEF UncopiedNext
    <3>7. \A v \in Verbs : role_verbs[<<entity, base>>][v] # NULL =>
            (role_verbs'[<<entity, r>>][v] = NULL <=> v \notin own /\ v \notin copied)
      BY <1>1, <1>2, <1>3
    <3> QED
      BY <3>3, <3>5, <3>6, <3>7
  <2> QED
    BY <2>1, <2>2
<1>5. \A m : m \in UndefinedVerbs(r) <=>
        \E v \in own \ ast.verbs[entity] : m = UndefinedVerb(entity, r, v)
  BY <1>3 DEF UndefinedVerbs, UndefinedVerb
<1>6. \A m : m \in CopyFailures(r, base, copied) <=>
        \E v \in Verbs : UncopiedNext(entity, r, v) /\ m = CopyFailed(entity, r, v)
  <2>1. Inherited(base) \subseteq Verbs
    BY DEF Inherited, Held
  <2>2. \A m : m \in CopyFailures(r, base, copied) <=>
          \E v \in Inherited(base) \ copied : m = CopyFailed(entity, r, v)
    BY DEF CopyFailures, CopyFailed
  <2> QED
    BY <1>4, <2>1, <2>2
<1>7. errors' = errors \cup (undef \cup UndefinedVerbs(r) \cup CopyFailures(r, base, copied))
  BY <1>0 DEF Copies, SetErrors, UndefinedRole
<1>8. \A m : m \in undef <=>
        ExtendsUndefined(ast, entity, r) /\ m = UndefinedRole(entity, r)
  OBVIOUS
<1>9. ASSUME NEW e \in Entities, NEW s \in Roles, NEW v \in Verbs, Complete(e, s)
      PROVE  UncopiedNext(e, s, v) <=> Uncopied(e, s, v)
  <2>1. role_verbs'[<<e, s>>] = role_verbs[<<e, s>>]
    BY <1>1, <1>9 DEF Complete
  <2>2. BaseOf(ast, e, s) # NULL =>
          role_verbs'[<<e, BaseOf(ast, e, s)>>] = role_verbs[<<e, BaseOf(ast, e, s)>>]
    <3> SUFFICES ASSUME BaseOf(ast, e, s) # NULL
                 PROVE  role_verbs'[<<e, BaseOf(ast, e, s)>>] = role_verbs[<<e, BaseOf(ast, e, s)>>]
      OBVIOUS
    <3>1. Complete(e, BaseOf(ast, e, s)) /\ BaseOf(ast, e, s) \in Roles
      BY <1>1, <1>9, BaseOfType DEF HeapInv, CompletedRoles
    <3> QED
      BY <1>1, <3>1 DEF Complete
  <2> QED
    BY <2>1, <2>2 DEF Uncopied, UncopiedNext
<1> HIDE DEF base, undef
<1> QED
  BY <1>5, <1>6, <1>7, <1>8, <1>9

(* A step that changes nothing the messages are about. *)
LEMMA MessagesFrame ==
  ASSUME UNCHANGED <<ast, entities_left, errors, type_complete, role_verbs>>
  PROVE  /\ MessagesInv => MessagesInv'
         /\ \A e : Stuck(e) => Stuck(e)'
         /\ \A e : CircularNamed(e) => CircularNamed(e)'
<1>1. \A e, r, v : (Complete(e, r)' <=> Complete(e, r)) /\ (Uncopied(e, r, v)' <=> Uncopied(e, r, v))
  BY DEF Complete, Uncopied
<1>2. MessagesInv => MessagesInv'
  BY <1>1 DEF MessagesInv
<1>3. \A e : (Stuck(e) => Stuck(e)') /\ (CircularNamed(e) => CircularNamed(e)')
  BY DEF Stuck, CircularNamed, Complete
<1> QED
  BY <1>2, <1>3

(* What is reported stays what it should be: the faults of roles,          *)
LEMMA NextMessages ==
  ASSUME TypeOK, HeapInv, MessagesInv, [Next]_vars
  PROVE  MessagesInv'
<1>1. ASSUME NEW e \in Entities, VisitEntity(e) PROVE MessagesInv'
  <2>1. /\ e \in entities_left /\ entities_left' = entities_left \ {e} /\ e \in ast.entities
        /\ UNCHANGED <<ast, type_complete, role_verbs>>
    BY <1>1 DEF VisitEntity, IsNext, heapVars, TypeOK
  <2>2. \A m : m \in errors' <=> m \in errors \/ (e \notin ast.declared /\ m = Undeclared(e))
    BY <1>1 DEF VisitEntity, SetErrors, Undeclared
  <2> QED
    BY <2>1, <2>2, DistinctMessages DEF MessagesInv, Complete, Uncopied
<1>2. ASSUME NEW r \in Roles, SkipCompleteRole(r) \/ DeferRole(r) PROVE MessagesInv'
  BY <1>2, MessagesFrame DEF SkipCompleteRole, DeferRole, VisitRole, heapVars
<1>3. ASSUME NEW r \in Roles, CompleteRole(r) PROVE MessagesInv'
  <2>1. /\ UNCHANGED <<ast, entities_left>>
        /\ type_complete' = type_complete \cup {<<entity, r>>}
    BY <1>3 DEF CompleteRole, VisitRole
  <2>2. ast \in Ast /\ entity \in Entities /\ ast.own[entity][r] \subseteq Verbs
    BY <1>3, CompleteRoleTrees, AstTypes DEF TypeOK
  <2>3. \A m : m \in errors' <=>
          \/ m \in errors
          \/ ExtendsUndefined(ast, entity, r) /\ m = UndefinedRole(entity, r)
          \/ \E v \in ast.own[entity][r] \ ast.verbs[entity] :
               m = UndefinedVerb(entity, r, v)
          \/ \E v \in Verbs : UncopiedNext(entity, r, v) /\ m = CopyFailed(entity, r, v)
    BY <1>3, CompleteRoleErrors
  <2>4. \A e, s : Complete(e, s)' <=> Complete(e, s) \/ (e = entity /\ s = r)
    BY <2>1 DEF Complete
  <2>5. /\ \A e, s, v : Uncopied(e, s, v)' <=> UncopiedNext(e, s, v)
        /\ \A e \in Entities : \A s \in Roles : \A v \in Verbs :
             Complete(e, s) => (UncopiedNext(e, s, v) <=> Uncopied(e, s, v))
    BY <1>3, <2>1, CompleteRoleErrors DEF Uncopied, UncopiedNext
  <2>6. \A e \in Entities : Undeclared(e) \in errors' <=> Undeclared(e) \in errors
    BY <2>3, DistinctMessages
  <2>7. \A e \in Entities, s \in Roles : UndefinedRole(e, s) \in errors' <=>
          \/ UndefinedRole(e, s) \in errors
          \/ ExtendsUndefined(ast, entity, r) /\ e = entity /\ s = r
    BY <2>3, DistinctMessages
  <2>8. \A e \in Entities, s \in Roles, v \in Verbs : UndefinedVerb(e, s, v) \in errors' <=>
          \/ UndefinedVerb(e, s, v) \in errors
          \/ e = entity /\ s = r /\ v \in ast.own[entity][r] \ ast.verbs[entity]
    BY <2>3, DistinctMessages
  <2>9. \A e \in Entities, s \in Roles, v \in Verbs : CopyFailed(e, s, v) \in errors' <=>
          \/ CopyFailed(e, s, v) \in errors
          \/ e = entity /\ s = r /\ UncopiedNext(entity, r, v)
    BY <2>3, DistinctMessages
  <2> QED
    BY <2>1, <2>2, <2>4, <2>5, <2>6, <2>7, <2>8, <2>9 DEF MessagesInv
<1>4. CASE CircularLoop
  <2>1. UNCHANGED <<ast, entities_left, type_complete, role_verbs>>
    BY <1>4 DEF CircularLoop, heapVars, loopVars
  <2>2. \A m : m \in errors' <=> m \in errors \/ m = Circular(entity, last_incomplete_type)
    BY <1>4 DEF CircularLoop, SetErrors, Circular
  <2> QED
    BY <2>1, <2>2, DistinctMessages DEF MessagesInv, Complete, Uncopied
<1>5. CASE NextPass \/ EntityDone \/ Return
  BY <1>5, MessagesFrame DEF NextPass, EntityDone, Return, heapVars, loopVars
<1>6. CASE UNCHANGED vars
  BY <1>6, MessagesFrame DEF vars, heapVars, loopVars
<1> QED
  BY <1>1, <1>2, <1>3, <1>4, <1>5, <1>6 DEF Next, RoleStep, Returned

(* and those of inheritance loops.                                         *)
LEMMA NextCircular ==
  ASSUME TypeOK, HeapInv, PassInv, CircularInv, [Next]_vars
  PROVE  CircularInv'
<1>1. ASSUME NEW e \in Entities, VisitEntity(e) PROVE CircularInv'
  <2>1. /\ pc = "entities" /\ e \in entities_left /\ entities_left' = entities_left \ {e}
        /\ entity' = e /\ pc' = IF ast.roles[e] = {} THEN "entities" ELSE "roles"
        /\ UNCHANGED <<ast, type_complete>>
    BY <1>1 DEF VisitEntity, IsNext, heapVars
  <2>2. \A m : m \in errors' <=> m \in errors \/ (e \notin ast.declared /\ m = Undeclared(e))
    BY <1>1 DEF VisitEntity, SetErrors, Undeclared
  <2>3. \A f, r : Circular(f, r) \in errors' <=> Circular(f, r) \in errors
    BY <2>2, DistinctMessages
  <2>4. ASSUME NEW f PROVE (Stuck(f) => Stuck(f)') /\ (CircularNamed(f) => CircularNamed(f)')
    BY <2>1, <2>3 DEF Stuck, CircularNamed, Complete
  <2>5. ast.roles[e] = {} =>
          ((\A r \in Roles : Circular(e, r) \notin errors) => Stuck(e) /\ CircularNamed(e))
    BY DEF Stuck, CircularNamed
  <2> QED
    BY <2>1, <2>3, <2>4, <2>5 DEF CircularInv
<1>2. ASSUME NEW r \in Roles, SkipCompleteRole(r) \/ DeferRole(r) PROVE CircularInv'
  <2>1. UNCHANGED <<ast, pc, entity, entities_left, errors, type_complete, role_verbs>>
    BY <1>2 DEF SkipCompleteRole, DeferRole, VisitRole, heapVars
  <2> QED
    BY <2>1, MessagesFrame DEF CircularInv
<1>3. ASSUME NEW r \in Roles, CompleteRole(r) PROVE CircularInv'
  <2>1. /\ pc = "roles" /\ UNCHANGED <<ast, pc, entity, entities_left>>
        /\ type_complete' = type_complete \cup {<<entity, r>>}
    BY <1>3 DEF CompleteRole, VisitRole
  <2>2. \A f, s : Circular(f, s) \in errors' <=> Circular(f, s) \in errors
    BY <1>3, CompleteRoleErrors, DistinctMessages
  <2>3. \A f, s : f # entity => (Complete(f, s)' <=> Complete(f, s))
    BY <2>1 DEF Complete
  <2>4. ASSUME NEW f, f # entity
        PROVE  (Stuck(f) => Stuck(f)') /\ (CircularNamed(f) => CircularNamed(f)')
    BY <2>1, <2>2, <2>3, <2>4 DEF Stuck, CircularNamed
  <2> QED
    BY <2>1, <2>2, <2>4 DEF CircularInv
<1>4. CASE CircularLoop
  <2>1. /\ pc = "roles" /\ pc' = "entities" /\ roles_left = {}
        /\ incomplete_types_found /\ resolved_count = 0
        /\ UNCHANGED <<ast, entity, entities_left, type_complete>>
    BY <1>4 DEF CircularLoop, PassOver, loopVars, heapVars
  <2>2. \A m : m \in errors' <=> m \in errors \/ m = Circular(entity, last_incomplete_type)
    BY <1>4 DEF CircularLoop, SetErrors, Circular
  <2>3. /\ entity \in ast.entities \ entities_left
        /\ last_incomplete_type \in ast.roles[entity]
        /\ ~Complete(entity, last_incomplete_type)
        /\ Stuck(entity)
    BY <2>1 DEF PassInv, Stuck
  <2>4. \A f, s : Circular(f, s) \in errors' <=>
          Circular(f, s) \in errors \/ (f = entity /\ s = last_incomplete_type)
    BY <2>2, DistinctMessages
  <2>5. \A s \in Roles : Circular(entity, s) \notin errors
    BY <2>1, <2>3 DEF CircularInv
  <2>6. CircularNamed(entity)'
    BY <2>1, <2>3, <2>4, <2>5 DEF CircularNamed, Complete
  <2>7. \A f : Stuck(f) => Stuck(f)'
    BY <2>1 DEF Stuck, Complete
  <2>8. ASSUME NEW f, f # entity, CircularNamed(f) PROVE CircularNamed(f)'
    <3>1. CASE /\ \A r \in ast.roles[f] : Complete(f, r)
               /\ \A r \in Roles : Circular(f, r) \notin errors
      BY <2>1, <2>4, <2>8, <3>1 DEF CircularNamed, Complete
    <3>2. CASE \E r \in ast.roles[f] :
                 /\ ~Complete(f, r)
                 /\ \A s \in Roles : Circular(f, s) \in errors <=> s = r
      <4>1. PICK r \in ast.roles[f] :
              /\ ~Complete(f, r)
              /\ \A s \in Roles : Circular(f, s) \in errors <=> s = r
        BY <3>2
      <4>2. /\ ~Complete(f, r)' /\ r \in ast'.roles[f]
            /\ \A s \in Roles : Circular(f, s) \in errors' <=> s = r
        BY <2>1, <2>4, <2>8, <4>1 DEF Complete
      <4> QED
        BY <4>2 DEF CircularNamed
    <3> QED
      BY <2>8, <3>1, <3>2 DEF CircularNamed
  <2> QED
    BY <2>1, <2>3, <2>4, <2>6, <2>7, <2>8 DEF CircularInv
<1>5. CASE NextPass
  <2>1. UNCHANGED <<ast, pc, entity, entities_left, errors, type_complete, role_verbs>>
    BY <1>5 DEF NextPass, heapVars
  <2> QED
    BY <2>1, MessagesFrame DEF CircularInv
<1>6. CASE EntityDone
  <2>1. /\ pc = "roles" /\ pc' = "entities" /\ roles_left = {} /\ ~incomplete_types_found
        /\ UNCHANGED <<ast, entity, entities_left, errors, type_complete, role_verbs>>
    BY <1>6 DEF EntityDone, PassOver, loopVars, heapVars
  <2>2. entity \in ast.entities \ entities_left /\ \A r \in ast.roles[entity] : Complete(entity, r)
    BY <2>1 DEF PassInv
  <2>3. Stuck(entity) /\ CircularNamed(entity)
    BY <2>1, <2>2 DEF CircularInv, Stuck, CircularNamed
  <2> QED
    BY <2>1, <2>3, MessagesFrame DEF CircularInv
<1>7. CASE Return
  <2>1. /\ pc = "entities" /\ pc' # "roles"
        /\ UNCHANGED <<ast, entity, entities_left, errors, type_complete, role_verbs>>
    BY <1>7 DEF Return, loopVars, heapVars
  <2> QED
    BY <2>1, MessagesFrame DEF CircularInv
<1>8. CASE UNCHANGED vars
  <2>1. UNCHANGED <<ast, pc, entity, entities_left, errors, type_complete, role_verbs>>
    BY <1>8 DEF vars, loopVars, heapVars
  <2> QED
    BY <2>1, MessagesFrame DEF CircularInv
<1> QED
  BY <1>1, <1>2, <1>3, <1>4, <1>5, <1>6, <1>7, <1>8 DEF Next, RoleStep, Returned

(* Nothing is reported before the first entity. *)
LEMMA InitMessages == Init => MessagesInv /\ CircularInv
BY DEF Init, MessagesInv, CircularInv, Complete

(* In an entity that is done with, the roles completed are those whose     *)
(* lineage does not run into a loop.                                       *)
LEMMA CompletableIsComplete ==
  ASSUME TypeOK, HeapInv, NEW e \in ast.entities, Stuck(e), NEW r \in ast.roles[e]
  PROVE  r \in Completable(e) <=> Complete(e, r)
<1> DEFINE L == Lineage(ast, e, r)
           part == [ast EXCEPT !.roles[e] = L]
<1>1. /\ ast \in Ast /\ e \in Entities /\ r \in Roles /\ r \in L /\ L \subseteq ast.roles[e]
      /\ ast.roles[e] \subseteq Roles
  BY AstTypes, LineageRoles DEF TypeOK
<1>2. part.roles[e] = L /\ part.extends = ast.extends
  BY <1>1 DEF Ast
<1>3. ASSUME NEW s \in L PROVE BaseOf(part, e, s) = BaseOf(ast, e, s)
  <2>1. BaseOf(ast, e, s) \in L \cup {NULL}
    BY <1>1, LineageClosed DEF BaseClosed
  <2> QED
    BY <1>1, <1>2, <2>1, NullAssumption DEF BaseOf
<1> HIDE DEF part
<1>4. InLoop(e, r) <=> \E S \in SUBSET L : S # {} /\ \A s \in S : BaseOf(ast, e, s) \in S
  <2>1. InLoop(e, r) <=> ~Acyclic(part, e)
    BY DEF InLoop, part
  <2> QED
    BY <1>2, <1>3, <2>1 DEF Acyclic
<1>5. ASSUME Complete(e, r), NEW S \in SUBSET L, \A s \in S : BaseOf(ast, e, s) \in S
      PROVE  S = {}
  <2> DEFINE C == {s \in ast.roles[e] : Complete(e, s)}
  <2>1. BaseClosed(ast, e, C) /\ C \in SUBSET ast.roles[e] /\ r \in C
    <3>1. ASSUME NEW s \in C, BaseOf(ast, e, s) # NULL PROVE BaseOf(ast, e, s) \in C
      <4>1. BaseOf(ast, e, s) \in ast.roles[e]
        BY <3>1 DEF BaseOf
      <4> QED
        BY <1>1, <3>1, <4>1 DEF HeapInv, CompletedRoles
    <3> QED
      BY <1>5, <3>1 DEF BaseClosed
  <2>2. \A s \in L : Complete(e, s)
    BY <2>1 DEF Lineage
  <2>3. \A s \in S : ~Complete(e, s)
    BY <1>1, <1>5 DEF HeapInv, LoopsIncomplete
  <2> QED
    BY <2>2, <2>3
<1>6. ASSUME ~Complete(e, r) PROVE InLoop(e, r)
  <2> DEFINE S == {s \in L : ~Complete(e, s)}
  <2>1. S \in SUBSET L /\ r \in S
    BY <1>1, <1>6
  <2>2. ASSUME NEW s \in S PROVE BaseOf(ast, e, s) \in S
    <3>1. BaseOf(ast, e, s) # NULL /\ ~Complete(e, BaseOf(ast, e, s))
      BY <1>1 DEF Stuck
    <3>2. BaseOf(ast, e, s) \in L
      BY <1>1, <3>1, LineageClosed DEF BaseClosed
    <3> QED
      BY <3>1, <3>2
  <2> QED
    BY <1>4, <2>1, <2>2
<1> QED
  BY <1>4, <1>5, <1>6 DEF Completable

(* Complete role r has no copy of verb v, which its base holds. *)
LostCopy(e, r, v) ==
  LET base == BaseOf(ast, e, r)
  IN  base # NULL /\ v \in Held(e, base) \ Held(e, r)

(* The lost copies, message by message. *)
LEMMA LostCopiesOf ==
  ASSUME NEW m,
         ast.entities \subseteq Entities,
         \A e \in ast.entities : ast.roles[e] \subseteq Roles,
         \A e \in Entities, r \in Roles : Complete(e, r) => e \in ast.entities /\ r \in ast.roles[e]
  PROVE  m \in LostCopies <=>
           \E e \in ast.entities : \E r \in ast.roles[e] : \E v \in Verbs :
             m = CopyFailed(e, r, v) /\ Complete(e, r) /\ LostCopy(e, r, v)
<1>1. ASSUME m \in LostCopies
      PROVE  \E e \in ast.entities : \E r \in ast.roles[e] : \E v \in Verbs :
               m = CopyFailed(e, r, v) /\ Complete(e, r) /\ LostCopy(e, r, v)
  <2>1. m \in {"copy failed"} \X Entities \X Roles \X Verbs
    BY <1>1 DEF LostCopies
  <2>2. Complete(m[2], m[3]) /\ LostCopy(m[2], m[3], m[4])
    BY <1>1 DEF LostCopies, Complete, LostCopy
  <2>3. /\ m = <<"copy failed", m[2], m[3], m[4]>>
        /\ m[2] \in Entities /\ m[3] \in Roles /\ m[4] \in Verbs
    <3> DEFINE K == {"copy failed"}
    <3>1. m \in K \X Entities \X Roles \X Verbs
      BY <2>1
    <3>2. m[1] = "copy failed"
      BY <2>1
    <3> HIDE DEF K
    <3>3. /\ m = <<m[1], m[2], m[3], m[4]>>
          /\ m[2] \in Entities /\ m[3] \in Roles /\ m[4] \in Verbs
      BY <3>1
    <3>4. m = <<"copy failed", m[2], m[3], m[4]>>
      BY <3>2, <3>3, Zenon
    <3> QED
      BY <3>3, <3>4
  <2>4. m = CopyFailed(m[2], m[3], m[4])
    BY <2>3 DEF CopyFailed
  <2>5. m[2] \in ast.entities /\ m[3] \in ast.roles[m[2]]
    BY <2>2, <2>3
  <2> QED
    BY <2>2, <2>3, <2>4, <2>5
<1>2. ASSUME NEW e \in ast.entities, NEW r \in ast.roles[e], NEW v \in Verbs,
             m = CopyFailed(e, r, v), Complete(e, r), LostCopy(e, r, v)
      PROVE  m \in LostCopies
  <2>1. e \in Entities /\ r \in Roles
    OBVIOUS
  <2>2. m \in {"copy failed"} \X Entities \X Roles \X Verbs
    BY <1>2, <2>1 DEF CopyFailed
  <2>3. m[2] = e /\ m[3] = r /\ m[4] = v
    BY <1>2 DEF CopyFailed
  <2> QED
    BY <1>2, <2>2, <2>3 DEF LostCopies, Complete, LostCopy
<1> QED
  BY <1>1, <1>2

(* A verb is not copied when it is listed again or when the copy is lost.  *)
LEMMA UncopiedIs ==
  ASSUME TypeOK, HeapInv, NEW e \in Entities, NEW r \in ast.roles[e], r \in Roles,
         NEW v \in Verbs, Complete(e, r)
  PROVE  Uncopied(e, r, v) <=>
           \/ Overrides(e, r, v) /\ ~Masked(CopyFailed(e, r, v))
           \/ LostCopy(e, r, v)
<1> DEFINE base == BaseOf(ast, e, r)
<1>1. /\ v \in Held(e, r) <=> role_verbs[<<e, r>>][v] # NULL
      /\ v \in Held(e, base) <=> role_verbs[<<e, base>>][v] # NULL
  BY DEF Held
<1>2. v \in ast.own[e][r] => role_verbs[<<e, r>>][v] # NULL
  BY DEF HeapInv, CompletedRoles
<1>3. base # NULL /\ v \in Held(e, base) => v \in VerbsOf(ast, e, base)
  <2> SUFFICES ASSUME base # NULL, v \in Held(e, base) PROVE v \in VerbsOf(ast, e, base)
    OBVIOUS
  <2>1. base \in Roles
    BY BaseOfType DEF TypeOK
  <2>2. Complete(e, base)
    BY DEF HeapInv, CompletedRoles
  <2> QED
    BY <1>1, <2>1, <2>2 DEF HeapInv, CompletedRoles
<1>4. Masked(CopyFailed(e, r, v)) <=> v \notin Held(e, base)
  <2>1. /\ CopyFailed(e, r, v)[1] = "copy failed" /\ CopyFailed(e, r, v)[2] = e
        /\ CopyFailed(e, r, v)[3] = r /\ CopyFailed(e, r, v)[4] = v
    BY DEF CopyFailed
  <2> QED
    BY <2>1 DEF Masked
<1>5. Uncopied(e, r, v) <=>
        base # NULL /\ v \in Held(e, base) /\ (v \in ast.own[e][r] \/ v \notin Held(e, r))
  BY <1>1 DEF Uncopied
<1>6. Overrides(e, r, v) <=> v \in ast.own[e][r] /\ base # NULL /\ v \in VerbsOf(ast, e, base)
  BY DEF Overrides
<1>7. LostCopy(e, r, v) <=> base # NULL /\ v \in Held(e, base) /\ v \notin Held(e, r)
  BY DEF LostCopy
<1> HIDE DEF base
<1> QED
  BY <1>3, <1>4, <1>5, <1>6, <1>7

(* A verb that a complete role lacks was lost by the role or by a role of  *)
(* its lineage, which was reported.                                        *)
LEMMA LossReported ==
  ASSUME TypeOK, HeapInv, MessagesInv, NEW e \in Entities, NEW r \in Roles, Complete(e, r),
         NEW v \in VerbsOf(ast, e, r), v \notin Held(e, r)
  PROVE  \E s \in Lineage(ast, e, r) : CopyFailed(e, s, v) \in errors
<1> SUFFICES ASSUME \A s \in Lineage(ast, e, r) : CopyFailed(e, s, v) \notin errors
             PROVE  FALSE
  OBVIOUS
<1> DEFINE L == Lineage(ast, e, r)
           S == {s \in L : Complete(e, s) /\ v \notin Held(e, s)}
<1>1. /\ ast \in Ast /\ r \in ast.roles[e] /\ ast.roles[e] \subseteq Roles
  BY AstTypes DEF TypeOK, HeapInv, CompletedRoles
<1>2. r \in L /\ L \subseteq ast.roles[e] /\ BaseClosed(ast, e, L)
  BY <1>1, LineageRoles, LineageClosed
<1>3. PICK t \in L : v \in ast.own[e][t]
  BY DEF VerbsOf
<1>4. v \in Verbs /\ t \in Roles
  BY <1>1, <1>2, <1>3, AstTypes
<1>5. BaseClosed(ast, e, S)
  <2> SUFFICES ASSUME NEW s \in S, BaseOf(ast, e, s) # NULL
               PROVE  BaseOf(ast, e, s) \in S
    BY DEF BaseClosed
  <2>1. s \in L /\ s \in Roles /\ Complete(e, s) /\ v \notin Held(e, s)
    BY <1>1, <1>2
  <2>2. BaseOf(ast, e, s) \in L /\ Complete(e, BaseOf(ast, e, s))
    BY <1>2, <2>1 DEF BaseClosed, HeapInv, CompletedRoles
  <2>3. ~Uncopied(e, s, v)
    BY <1>4, <2>1 DEF MessagesInv
  <2>4. role_verbs[<<e, s>>][v] = NULL
    BY <1>4, <2>1 DEF Held
  <2>5. role_verbs[<<e, BaseOf(ast, e, s)>>][v] = NULL
    BY <2>3, <2>4 DEF Uncopied
  <2>6. v \notin Held(e, BaseOf(ast, e, s))
    BY <2>5 DEF Held
  <2> QED
    BY <2>2, <2>6
<1>6. S \in SUBSET ast.roles[e] /\ r \in S
  BY <1>2
<1>7. t \in S
  BY <1>3, <1>5, <1>6 DEF Lineage
<1>8. Complete(e, t) /\ v \notin Held(e, t)
  BY <1>7
<1>9. role_verbs[<<e, t>>][v] # NULL
  BY <1>3, <1>4, <1>8 DEF HeapInv, CompletedRoles
<1> QED
  BY <1>4, <1>8, <1>9 DEF Held

(* For every config and every order of the names: a complete role holds    *)
(* verbs of its lineage, each as a role_verb of a role that lists it, and  *)
(* a verb of the lineage that it lacks was reported.                       *)
THEOREM InheritanceCorrect == Spec => []InheritedVerbs
<1>1. IInv /\ MessagesInv => InheritedVerbs
  <2> SUFFICES ASSUME IInv, MessagesInv, NEW e \in ast.entities, NEW r \in ast.roles[e],
                      <<e, r>> \in type_complete
      PROVE  /\ Held(e, r) \subseteq VerbsOf(ast, e, r)
             /\ \A v \in Held(e, r) :
                  /\ role_verbs[e, r][v] \in Lineage(ast, e, r)
                  /\ v \in ast.own[e][role_verbs[e, r][v]]
             /\ \A v \in VerbsOf(ast, e, r) \ Held(e, r) :
                  \E s \in Lineage(ast, e, r) : <<"copy failed", e, s, v>> \in errors
    BY DEF InheritedVerbs
  <2>1. /\ e \in Entities /\ r \in Roles /\ Complete(e, r)
        /\ TypeOK /\ HeapInv
    BY AstTypes DEF IInv, TypeOK, Complete
  <2>2. \A v \in Verbs : role_verbs[<<e, r>>][v] # NULL =>
          /\ v \in VerbsOf(ast, e, r)
          /\ role_verbs[<<e, r>>][v] \in Lineage(ast, e, r)
          /\ v \in ast.own[e][role_verbs[<<e, r>>][v]]
    BY <2>1 DEF HeapInv, CompletedRoles
  <2>3. \A v \in Held(e, r) : v \in Verbs /\ role_verbs[<<e, r>>][v] # NULL
    BY DEF Held
  <2>4. \A v \in VerbsOf(ast, e, r) \ Held(e, r) :
          \E s \in Lineage(ast, e, r) : <<"copy failed", e, s, v>> \in errors
    <3> SUFFICES ASSUME NEW v \in VerbsOf(ast, e, r), v \notin Held(e, r)
                 PROVE  \E s \in Lineage(ast, e, r) : <<"copy failed", e, s, v>> \in errors
      OBVIOUS
    <3>1. PICK s \in Lineage(ast, e, r) : CopyFailed(e, s, v) \in errors
      BY <2>1, LossReported
    <3> QED
      BY <3>1 DEF CopyFailed
  <2> QED
    BY <2>2, <2>3, <2>4
<1>2. MessagesInv /\ TypeOK /\ HeapInv /\ [Next]_vars => MessagesInv'
  BY NextMessages
<1> QED
  BY <1>1, <1>2, InitMessages, Inductive, PTL DEF Spec, IInv

(* For every config: endorse_analyze reports every fault of every entity   *)
(* that lost verbs do not mask, every copy that failed for want of memory  *)
(* and nothing else, and each entity with an inheritance loop once, with   *)
(* a role that runs into it.                                               *)
THEOREM FaultsAreReported == Spec => []EveryFaultReported
<1>1. MessagesInv /\ CircularInv /\ TypeOK /\ HeapInv /\ PassInv /\ [Next]_vars
        => MessagesInv' /\ CircularInv'
  BY NextMessages, NextCircular
<1>2. IInv /\ MessagesInv /\ CircularInv => EveryFaultReported
  <2> SUFFICES ASSUME IInv, MessagesInv, CircularInv, Done PROVE EveryFaultReported
    BY DEF EveryFaultReported
  <2>1. /\ TypeOK /\ HeapInv /\ ast \in Ast /\ entities_left = {} /\ pc # "roles"
    BY DEF IInv, TypeOK, StatusInv, Done
  <2>2. ASSUME NEW e \in ast.entities
        PROVE  /\ e \in Entities /\ ast.roles[e] \subseteq Roles
               /\ \A r \in ast.roles[e] : ast.own[e][r] \subseteq Verbs
               /\ Stuck(e) /\ CircularNamed(e)
               /\ \A r \in ast.roles[e] : r \in Completable(e) <=> Complete(e, r)
    <3>1. Stuck(e) /\ CircularNamed(e)
      BY <2>1 DEF CircularInv
    <3> QED
      BY <2>1, <3>1, AstTypes, CompletableIsComplete
  <2>3. \A e \in Entities, r \in Roles : Complete(e, r) => e \in ast.entities /\ r \in ast.roles[e]
    BY <2>1 DEF HeapInv, CompletedRoles
  <2>4. ASSUME NEW m PROVE m \in {x \in errors : x[1] # "circular"}
                             <=> \/ /\ m \in UNION {Faults(e) : e \in ast.entities}
                                    /\ ~Masked(m)
                                 \/ m \in LostCopies
    <3> DEFINE Fault ==
          \/ \E e \in ast.entities : m = Undeclared(e) /\ e \notin ast.declared
          \/ \E e \in ast.entities : \E r \in ast.roles[e] :
               /\ Complete(e, r)
               /\ \/ m = UndefinedRole(e, r) /\ ExtendsUndefined(ast, e, r)
                  \/ \E v \in Verbs :
                       /\ m = UndefinedVerb(e, r, v)
                       /\ v \in ast.own[e][r] \ ast.verbs[e]
                  \/ \E v \in Verbs : m = CopyFailed(e, r, v) /\ Overrides(e, r, v)
    <3>1. m \in UNION {Faults(e) : e \in ast.entities} <=> Fault
      <4>1. ASSUME NEW e \in ast.entities
            PROVE  m \in Faults(e) <=>
                     \/ m = Undeclared(e) /\ e \notin ast.declared
                     \/ \E r \in ast.roles[e] :
                          /\ Complete(e, r)
                          /\ \/ m = UndefinedRole(e, r) /\ ExtendsUndefined(ast, e, r)
                             \/ \E v \in Verbs :
                                  /\ m = UndefinedVerb(e, r, v)
                                  /\ v \in ast.own[e][r] \ ast.verbs[e]
                             \/ \E v \in Verbs :
                                  m = CopyFailed(e, r, v) /\ Overrides(e, r, v)
        <5>1. \A r : r \in Completable(e) <=> r \in ast.roles[e] /\ Complete(e, r)
          BY <2>2 DEF Completable
        <5>2. m \in Faults(e) <=>
                \/ m = Undeclared(e) /\ e \notin ast.declared
                \/ \E r \in Completable(e) : m \in RoleFaults(e, r)
          BY DEF Faults, Undeclared
        <5>3. \A r \in ast.roles[e] : m \in RoleFaults(e, r) <=>
                \/ m = UndefinedRole(e, r) /\ ExtendsUndefined(ast, e, r)
                \/ \E v \in Verbs :
                     /\ m = UndefinedVerb(e, r, v)
                     /\ v \in ast.own[e][r] \ ast.verbs[e]
                \/ \E v \in Verbs : m = CopyFailed(e, r, v) /\ Overrides(e, r, v)
          BY <2>2, RoleFaultsOf
        <5> QED
          BY <5>1, <5>2, <5>3
      <4> QED
        BY <4>1
    <3> DEFINE Reported ==
          \/ \E e \in ast.entities : m = Undeclared(e) /\ e \notin ast.declared
          \/ \E e \in ast.entities : \E r \in ast.roles[e] :
               /\ Complete(e, r)
               /\ \/ m = UndefinedRole(e, r) /\ ExtendsUndefined(ast, e, r)
                  \/ \E v \in Verbs :
                       /\ m = UndefinedVerb(e, r, v)
                       /\ v \in ast.own[e][r] \ ast.verbs[e]
                  \/ \E v \in Verbs : m = CopyFailed(e, r, v) /\ Uncopied(e, r, v)
    <3>1a. (Fault /\ ~Masked(m)) \/ m \in LostCopies <=> Reported
      <4>1. m \in LostCopies <=>
              \E e \in ast.entities : \E r \in ast.roles[e] : \E v \in Verbs :
                m = CopyFailed(e, r, v) /\ Complete(e, r) /\ LostCopy(e, r, v)
        BY <2>1, <2>2, <2>3, LostCopiesOf
      <4>2. ASSUME NEW e \in ast.entities, NEW r \in ast.roles[e], NEW v \in Verbs, Complete(e, r)
            PROVE  Uncopied(e, r, v) <=>
                     \/ Overrides(e, r, v) /\ ~Masked(CopyFailed(e, r, v))
                     \/ LostCopy(e, r, v)
        BY <2>1, <2>2, <4>2, UncopiedIs
      <4>3. \A e, r, v : /\ ~Masked(Undeclared(e)) /\ ~Masked(UndefinedRole(e, r))
                         /\ ~Masked(UndefinedVerb(e, r, v))
        BY KindOfMessage DEF Masked
      <4>4. ASSUME Fault, ~Masked(m) PROVE Reported
        BY <4>2, <4>4
      <4>5. ASSUME m \in LostCopies PROVE Reported
        BY <4>1, <4>2, <4>5
      <4>6. ASSUME Reported PROVE (Fault /\ ~Masked(m)) \/ m \in LostCopies
        BY <4>1, <4>2, <4>3, <4>6
      <4> QED
        BY <4>4, <4>5, <4>6
    <3>2. m \in errors /\ m[1] # "circular" => Reported
      <4> SUFFICES ASSUME m \in errors, m[1] # "circular" PROVE Reported
        OBVIOUS
      <4>1. \/ \E e \in Entities : m = Undeclared(e)
            \/ \E e \in Entities, r \in Roles : m = UndefinedRole(e, r)
            \/ \E e \in Entities, r \in Roles, v \in Verbs : m = UndefinedVerb(e, r, v)
            \/ \E e \in Entities, r \in Roles, v \in Verbs : m = CopyFailed(e, r, v)
        <5>1. m \in Diagnostic /\ \A e, r : m # Circular(e, r)
          BY <2>1 DEF TypeOK, Circular
        <5> QED
          BY <5>1, Diagnostics
      <4> QED
        BY <2>1, <2>3, <4>1 DEF MessagesInv
    <3>3. Reported => m \in errors /\ m[1] # "circular"
      <4>1. ASSUME Reported PROVE m \in errors
        BY <2>1, <2>2, <4>1 DEF MessagesInv
      <4>2. ASSUME Reported PROVE m[1] # "circular"
        BY <4>2, KindOfMessage
      <4> QED
        BY <4>1, <4>2
    <3> HIDE DEF Fault, Reported
    <3> QED
      BY <3>1, <3>1a, <3>2, <3>3
  <2>5. {x \in errors : x[1] # "circular"} =
          {x \in UNION {Faults(e) : e \in ast.entities} : ~Masked(x)} \cup LostCopies
    BY <2>4
  <2>6. ASSUME NEW e \in ast.entities
        PROVE  LET named == {r \in Roles : <<"circular", e, r>> \in errors}
               IN  IF Acyclic(ast, e) THEN named = {}
                   ELSE \E r \in ast.roles[e] \ Completable(e) : named = {r}
    <3>1. CASE \A r \in ast.roles[e] : Complete(e, r)
      <4>1. Acyclic(ast, e)
        BY <2>1, <2>2, <3>1 DEF HeapInv, LoopsIncomplete, Acyclic
      <4> QED
        BY <2>2, <3>1, <4>1 DEF CircularNamed, Circular
    <3>2. CASE \E r \in ast.roles[e] : ~Complete(e, r)
      <4>1. PICK r \in ast.roles[e] : /\ ~Complete(e, r)
                                      /\ \A s \in Roles : Circular(e, s) \in errors <=> s = r
        BY <2>2, <3>2 DEF CircularNamed
      <4>2. r \in ast.roles[e] \ Completable(e) /\ r \in Roles
        BY <2>2, <4>1
      <4>3. {s \in Roles : <<"circular", e, s>> \in errors} = {r}
        BY <4>1, <4>2 DEF Circular
      <4>4. ~Acyclic(ast, e)
        <5> DEFINE S == {s \in ast.roles[e] : ~Complete(e, s)}
        <5>1. \A s \in S : BaseOf(ast, e, s) \in ast.roles[e]
          BY <2>2 DEF Stuck, BaseOf
        <5>2. \A s \in S : BaseOf(ast, e, s) \in S
          BY <2>2, <5>1 DEF Stuck
        <5>3. S \in SUBSET ast.roles[e] /\ S # {}
          BY <3>2
        <5> HIDE DEF S
        <5> QED
          BY <5>2, <5>3 DEF Acyclic
      <4> QED
        BY <4>2, <4>3, <4>4
    <3> QED
      BY <3>1, <3>2
  <2> QED
    BY <2>5, <2>6 DEF EveryFaultReported
<1> QED
  BY <1>1, <1>2, InitMessages, Inductive, PTL DEF Spec, IInv
=============================================================================
