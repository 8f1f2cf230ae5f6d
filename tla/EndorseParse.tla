---------------------------- MODULE EndorseParse ----------------------------
(***************************************************************************)
(* endorse_parse: the Bison parser of endorse config files.                *)
(*                                                                         *)
(* The tokens come from a file that nobody has checked, so any token may   *)
(* be next.  A step reads the tokens up to the next reduction and runs the *)
(* reduction's code: a declaration is added to the block it stands in, and *)
(* the block is merged into the config when it is closed.  Code that fails *)
(* has set a message and returned NULL, upon which MAYBE_ASSIGN executes   *)
(* YYACCEPT: yyparse pops the values below the failing rule off its stack  *)
(* and returns 0, as it does at the end of the input.                      *)
(*                                                                         *)
(* Both the config and the block under construction are syntax trees.      *)
(* Any allocation may fail.  The copies of strings are not checked: a role *)
(* whose copy of the extended role's name fails extends nothing, and no    *)
(* message says so.  (An object without a name is EndorseContext's NoName.)*)
(***************************************************************************)
EXTENDS EndorseAst, FiniteSets

CONSTANT MaxRead   \* bound: the declarations read

ASSUME MaxReadAssumption == MaxRead \in Nat

VARIABLES
  pos,               \* where in the grammar the parser is
  entity,            \* the entity that the open block is for
  block,             \* the block read so far
  role,              \* the name of the role being read
  role_extends,      \* the role that it extends
  role_verbs,        \* the verbs read for it
  cfg,               \* the config, which the context holds too
  reference_count,   \* of the config
  messages,          \* given to context->set_error
  retval,            \* what yyparse returns
  read,              \* history: the declarations read
  repeated,          \* history: a name was declared again, or an entity
                     \* declared after a block for it
  forgotten          \* history: the roles that lost their extends clause

values == <<entity, block, role, role_extends, role_verbs>>
history == <<read, repeated, forgotten>>
vars == <<pos, values, cfg, reference_count, messages, retval, history>>

EmptyAst ==
  [entities |-> {}, declared |-> {},
   verbs    |-> [e \in Entities |-> {}],
   roles    |-> [e \in Entities |-> {}],
   extends  |-> [e \in Entities |-> [r \in Roles |-> NULL]],
   own      |-> [e \in Entities |-> [r \in Roles |-> {}]]]

(* What a file can say: that there is an entity, that a block is for an    *)
(* entity, and what is in the block.                                       *)
Declarations ==
       ({"entity", "for"} \X Entities)
  \cup ({"verb"} \X Entities \X Verbs)
  \cup ({"role"} \X Entities \X Roles \X (Roles \cup {NULL}))
  \cup ({"role_verb"} \X Entities \X Roles \X Verbs)

Messages ==
       {<<"syntax error">>, <<"out of memory">>, <<"error merging">>}
  \cup ({"duplicate entity"} \X Entities)
  \cup ({"duplicate verb"} \X Verbs)
  \cup ({"duplicate role"} \X Roles)

TypeOK ==
  /\ pos \in {"start", "top", "entities", "verbs", "roles", "role", "done"}
  /\ entity \in Entities \cup {NULL}
  /\ pos \in {"verbs", "roles", "role"} => entity \in Entities /\ block.entities = {entity}
  /\ block \in Ast
  /\ block.declared = (IF pos = "entities" THEN block.entities ELSE {})
  /\ role \in Roles \cup {NULL}
  /\ pos = "role" => role \in Roles
  /\ role_extends \in Roles \cup {NULL}
  /\ role_verbs \in SUBSET Verbs
  /\ cfg \in Ast
  /\ reference_count \in 0 .. 2
  /\ messages \in SUBSET Messages
  /\ retval \in {0, 1}
  /\ read \in SUBSET Declarations
  /\ repeated \in BOOLEAN
  /\ forgotten \subseteq Entities \X Roles

Init ==
  /\ pos = "start"
  /\ entity = NULL
  /\ block = EmptyAst
  /\ role = NULL /\ role_extends = NULL /\ role_verbs = {}
  /\ cfg = EmptyAst
  /\ reference_count = 0
  /\ messages = {}
  /\ retval = 0
  /\ read = {} /\ repeated = FALSE /\ forgotten = {}

-----------------------------------------------------------------------------
(* Tokens. *)

(* Two declarations of the same thing. *)
SameName(d, c) ==
  /\ d[1] = c[1] /\ d[1] # "for"
  /\ d[2] = c[2]
  /\ d[1] # "entity" => d[3] = c[3]
  /\ d[1] = "role_verb" => d[4] = c[4]

(* The tokens of declaration d are read. *)
Read(d) ==
  /\ Cardinality(read) < MaxRead
  /\ read' = read \cup {d}
  /\ repeated' = \/ repeated
                 \/ \E c \in read : SameName(d, c)
                 \/ d[1] = "entity" /\ <<"for", d[2]>> \in read
  /\ UNCHANGED forgotten

-----------------------------------------------------------------------------
(* The end of the parse. *)

(* YYACCEPT in a rule.  The values on the right-hand side of the rule are  *)
(* not popped, which for a rule of `endorse' includes the config.          *)
Accept(top) == reference_count' = IF top THEN reference_count ELSE reference_count - 1

(* The values of the open block are gone: moved, popped or leaked. *)
Drop ==
  /\ entity' = NULL /\ block' = EmptyAst
  /\ role' = NULL /\ role_extends' = NULL /\ role_verbs' = {}

(* CONFIG_ERROR, then YYACCEPT. *)
Fail(top, errors) ==
  /\ Accept(top)
  /\ messages' = messages \cup errors
  /\ pos' = "done"
  /\ Drop
  /\ UNCHANGED retval

NoMemory(top) == Fail(top, {<<"out of memory">>})

Reduced == UNCHANGED <<reference_count, messages, retval>>

(* Mutant: the context gets the config without a reference of its own. *)
NewConfigUncounted ==
  /\ pos = "start"
  /\ pos' = "top"
  /\ reference_count' = 1
  /\ UNCHANGED <<values, cfg, messages, retval, history>>

(* endorse: empty.  The config has a reference for the stack and one for   *)
(* the context.                                                            *)
NewConfig ==
  /\ pos = "start"
  /\ \/ /\ pos' = "top"
        /\ reference_count' = 2
        /\ UNCHANGED messages
     \/ /\ pos' = "done"
        /\ messages' = messages \cup {<<"out of memory">>}
        /\ UNCHANGED reference_count
  /\ UNCHANGED <<values, cfg, retval, history>>

EndOfInput ==
  /\ pos = "top"
  /\ pos' = "done"
  /\ Accept(FALSE)
  /\ UNCHANGED <<values, cfg, messages, retval, history>>

(* A token that the grammar does not allow: yyerror, and everything on the *)
(* stack is popped.                                                        *)
SyntaxError ==
  /\ pos \notin {"start", "done"}
  /\ pos' = "done"
  /\ messages' = messages \cup {<<"syntax error">>}
  /\ retval' = 1
  /\ reference_count' = reference_count - 1
  /\ Drop
  /\ UNCHANGED <<cfg, history>>

-----------------------------------------------------------------------------
(* Blocks are opened and filled. *)

(* new_entities, new_verbs or new_roles for a new block. *)
Open(kind, e, new) ==
  /\ pos = "top"
  /\ \/ /\ pos' = kind
        /\ entity' = e /\ block' = new
        /\ UNCHANGED <<role, role_extends, role_verbs>>
        /\ Reduced
     \/ NoMemory(FALSE)
  /\ UNCHANGED cfg

OpenEntities == Open("entities", NULL, EmptyAst) /\ UNCHANGED history

OpenVerbs(e) ==
  Open("verbs", e, [EmptyAst EXCEPT !.entities = {e}]) /\ Read(<<"for", e>>)

OpenRoles(e) ==
  Open("roles", e, [EmptyAst EXCEPT !.entities = {e}]) /\ Read(<<"for", e>>)

(* Mutant: the entity is not marked as declared. *)
AddEntityUndeclared(e) ==
  /\ pos = "entities"
  /\ Read(<<"entity", e>>)
  /\ e \notin block.entities
  /\ block' = [block EXCEPT !.entities = @ \cup {e}]
  /\ UNCHANGED <<pos, entity, role, role_extends, role_verbs, cfg>>
  /\ Reduced

(* add_entity; it is the insert that fails for a duplicate. *)
AddEntity(e) ==
  /\ pos = "entities"
  /\ Read(<<"entity", e>>)
  /\ \/ /\ e \notin block.entities
        /\ block' = [block EXCEPT !.entities = @ \cup {e}, !.declared = @ \cup {e}]
        /\ UNCHANGED <<pos, entity, role, role_extends, role_verbs>>
        /\ Reduced
     \/ NoMemory(FALSE)
  /\ UNCHANGED cfg

(* Mutant: a verb that the block has already is passed over. *)
AddVerbAgain(v) ==
  /\ pos = "verbs"
  /\ Read(<<"verb", entity, v>>)
  /\ \/ /\ block' = [block EXCEPT !.verbs[entity] = @ \cup {v}]
        /\ UNCHANGED <<pos, entity, role, role_extends, role_verbs>>
        /\ Reduced
     \/ NoMemory(FALSE)
  /\ UNCHANGED cfg

AddVerb(v) ==
  /\ pos = "verbs"
  /\ Read(<<"verb", entity, v>>)
  /\ \/ /\ v \notin block.verbs[entity]
        /\ block' = [block EXCEPT !.verbs[entity] = @ \cup {v}]
        /\ UNCHANGED <<pos, entity, role, role_extends, role_verbs>>
        /\ Reduced
     \/ /\ v \in block.verbs[entity]
        /\ Fail(FALSE, {<<"duplicate verb", v>>})
     \/ /\ v \notin block.verbs[entity]
        /\ NoMemory(FALSE)
  /\ UNCHANGED cfg

(* new_role_verbs, after the name of the role and of the one it extends. *)
OpenRole(r, b) ==
  /\ pos = "roles"
  /\ Read(<<"role", entity, r, b>>)
  /\ \/ /\ pos' = "role"
        /\ role' = r /\ role_extends' = b /\ role_verbs' = {}
        /\ UNCHANGED <<entity, block>>
        /\ Reduced
     \/ NoMemory(FALSE)
  /\ UNCHANGED cfg

AddRoleVerb(v) ==
  /\ pos = "role"
  /\ Read(<<"role_verb", entity, role, v>>)
  /\ \/ /\ v \notin role_verbs
        /\ role_verbs' = role_verbs \cup {v}
        /\ UNCHANGED <<pos, entity, block, role, role_extends>>
        /\ Reduced
     \/ /\ v \in role_verbs
        /\ Fail(FALSE, {<<"duplicate verb", v>>})
     \/ /\ v \notin role_verbs
        /\ NoMemory(FALSE)
  /\ UNCHANGED cfg

(* Mutant: the name of the extended role is not kept. *)
AddRoleNoBase ==
  /\ pos = "role"
  /\ role \notin block.roles[entity]
  /\ pos' = "roles"
  /\ block' = [block EXCEPT !.roles[entity] = @ \cup {role},
                            !.own[entity][role] = role_verbs]
  /\ role' = NULL /\ role_extends' = NULL /\ role_verbs' = {}
  /\ UNCHANGED <<entity, cfg, history>>
  /\ Reduced

(* add_role, at the right brace of a role.  The name of the extended role  *)
(* has been copied by the scanner and is copied again by new_role; when    *)
(* either copy fails, it is NULL, as it is without an extends clause.      *)
AddRole ==
  LET known == block.roles[entity]
  IN  /\ pos = "role"
      /\ \/ \E base \in {role_extends, NULL} :
              /\ role \notin known
              /\ pos' = "roles"
              /\ block' = [block EXCEPT !.roles[entity] = @ \cup {role},
                                        !.extends[entity][role] = base,
                                        !.own[entity][role] = role_verbs]
              /\ forgotten' = forgotten \cup (IF base = role_extends THEN {}
                                              ELSE {<<entity, role>>})
              /\ role' = NULL /\ role_extends' = NULL /\ role_verbs' = {}
              /\ UNCHANGED entity
              /\ Reduced
         \/ /\ role \in known
            /\ Fail(FALSE, {<<"duplicate role", role>>})
            /\ UNCHANGED forgotten
         \/ /\ role \notin known
            /\ NoMemory(FALSE)
            /\ UNCHANGED forgotten
      /\ UNCHANGED <<cfg, read, repeated>>

-----------------------------------------------------------------------------
(* Blocks are merged into the config. *)

Combine(a, b) ==
  [entities |-> a.entities \cup b.entities,
   declared |-> a.declared \cup b.declared,
   verbs    |-> [e \in Entities |-> a.verbs[e] \cup b.verbs[e]],
   roles    |-> [e \in Entities |-> a.roles[e] \cup b.roles[e]],
   extends  |-> [e \in Entities |-> [r \in Roles |->
                   IF r \in b.roles[e] THEN b.extends[e][r] ELSE a.extends[e][r]]],
   own      |-> [e \in Entities |-> [r \in Roles |->
                   IF r \in b.roles[e] THEN b.own[e][r] ELSE a.own[e][r]]]]

(* Part of a block: the entities, verbs or roles of the given names. *)
EntitiesOf(b, names) == [b EXCEPT !.entities = names, !.declared = names]
VerbsPart(b, names)  == [b EXCEPT !.verbs[entity] = names]
RolesPart(b, names)  == [b EXCEPT !.roles[entity] = names]

(* A merge moves one name after the other, in the order in which they get  *)
(* to the root of the block's tree, until it meets a name that the config  *)
(* has already or runs out of memory; what was moved stays in the config.  *)
MergeNames(all, have, Part(_, _), duplicate(_), others) ==
  \/ /\ all \cap have = {}
     /\ cfg' = Combine(cfg, block)
     /\ pos' = "top"
     /\ Drop /\ Reduced
  \/ \E moved \in SUBSET (all \ have), n \in all \cap have :
       /\ cfg' = Combine(cfg, Part(block, moved))
       /\ Fail(TRUE, {duplicate(n)} \cup others)
  \/ \E moved \in SUBSET (all \ have) :
       /\ moved # all
       /\ cfg' = Combine(cfg, Part(block, moved))
       /\ NoMemory(TRUE)

(* merge_entities, at the right brace. *)
CloseEntities ==
  /\ pos = "entities"
  /\ MergeNames(block.entities, cfg.entities, EntitiesOf,
                LAMBDA e : <<"duplicate entity", e>>, {})
  /\ UNCHANGED history

(* merge_verb_entity and merge_role_entity: an entity that the config does *)
(* not have is put there as it is.                                         *)
MergeEntity(Merge) ==
  \/ entity \in cfg.entities /\ Merge
  \/ /\ entity \notin cfg.entities
     /\ \/ /\ cfg' = Combine(cfg, block)
           /\ pos' = "top"
           /\ Drop /\ Reduced
        \/ NoMemory(TRUE) /\ UNCHANGED cfg

(* new_entity and merge_verb_entity. *)
CloseVerbs ==
  /\ pos = "verbs"
  /\ \/ NoMemory(FALSE) /\ UNCHANGED cfg
     \/ MergeEntity(MergeNames(block.verbs[entity], cfg.verbs[entity], VerbsPart,
                               LAMBDA v : <<"duplicate verb", v>>, {<<"error merging">>}))
  /\ UNCHANGED history

(* Mutant: a role that the config has already is replaced. *)
CloseRolesAgain ==
  /\ pos = "roles"
  /\ \/ NoMemory(FALSE) /\ UNCHANGED cfg
     \/ MergeEntity(MergeNames(block.roles[entity], {}, RolesPart,
                               LAMBDA r : <<"duplicate role", r>>, {}))
  /\ UNCHANGED history

(* new_entity and merge_role_entity. *)
CloseRoles ==
  /\ pos = "roles"
  /\ \/ NoMemory(FALSE) /\ UNCHANGED cfg
     \/ MergeEntity(MergeNames(block.roles[entity], cfg.roles[entity], RolesPart,
                               LAMBDA r : <<"duplicate role", r>>, {<<"error merging">>}))
  /\ UNCHANGED history

-----------------------------------------------------------------------------
Done == pos = "done"

ParseNext ==
  \/ NewConfig \/ EndOfInput \/ SyntaxError
  \/ OpenEntities \/ CloseEntities \/ CloseVerbs \/ CloseRoles \/ AddRole
  \/ \E e \in Entities : OpenVerbs(e) \/ OpenRoles(e) \/ AddEntity(e)
  \/ \E r \in Roles, b \in Roles \cup {NULL} : OpenRole(r, b)
  \/ \E v \in Verbs : AddVerb(v) \/ AddRoleVerb(v)

-----------------------------------------------------------------------------
(* The syntax tree that a set of declarations describes, when no two of    *)
(* them declare the same thing.                                            *)
Meaning(R) ==
  LET Base(e, r) == {b \in Roles \cup {NULL} : <<"role", e, r, b>> \in R}
  IN  [entities |-> {e \in Entities : <<"entity", e>> \in R \/ <<"for", e>> \in R},
       declared |-> {e \in Entities : <<"entity", e>> \in R},
       verbs    |-> [e \in Entities |-> {v \in Verbs : <<"verb", e, v>> \in R}],
       roles    |-> [e \in Entities |-> {r \in Roles : Base(e, r) # {}}],
       extends  |-> [e \in Entities |-> [r \in Roles |->
                       IF Base(e, r) # {} THEN CHOOSE b \in Base(e, r) : TRUE ELSE NULL]],
       own      |-> [e \in Entities |-> [r \in Roles |->
                       {v \in Verbs : <<"role_verb", e, r, v>> \in R}]]]

(* The role extends what the file says it does, or has lost its extends    *)
(* clause.                                                                 *)
ExtendsAsRead(e, r) ==
  \/ cfg.extends[e][r] = Meaning(read).extends[e][r]
  \/ cfg.extends[e][r] = NULL /\ <<e, r>> \in forgotten

(* A parse that returns 0 and sets no message has read nothing twice, and  *)
(* the config is what the whole file says, in whichever blocks the file    *)
(* says it, except for extends clauses that found no memory and are gone;  *)
(* and a message about a duplicate has its cause in the file.              *)
SilentParseExact ==
  /\ Done /\ retval = 0 /\ messages = {} =>
       /\ ~repeated
       /\ cfg = [Meaning(read) EXCEPT !.extends = cfg.extends]
       /\ \A e \in Entities, r \in Roles : ExtendsAsRead(e, r)
  /\ messages \subseteq {<<"syntax error">>, <<"out of memory">>} \/ repeated

(* However the parse ends, the config that the caller goes on to analyze   *)
(* has only what the file says, and each of its roles has all the verbs    *)
(* that the file gives it and extends what the file says, or, for want of  *)
(* memory, nothing.                                                        *)
OnlyWhatWasRead ==
  LET M == Meaning(read)
  IN  /\ cfg.entities \subseteq M.entities
      /\ cfg.declared \subseteq M.declared
      /\ \A e \in Entities :
           /\ cfg.verbs[e] \subseteq M.verbs[e]
           /\ cfg.roles[e] \subseteq M.roles[e]
           /\ ~repeated => \A r \in cfg.roles[e] :
                ExtendsAsRead(e, r) /\ cfg.own[e][r] = M.own[e][r]

(* What was merged is never lost or changed by a later block, not even by  *)
(* a merge that fails halfway.                                             *)
MergedStays ==
  [][/\ cfg.entities \subseteq cfg'.entities
     /\ cfg.declared \subseteq cfg'.declared
     /\ \A e \in Entities :
          /\ cfg.verbs[e] \subseteq cfg'.verbs[e]
          /\ \A r \in cfg.roles[e] :
               /\ r \in cfg'.roles[e]
               /\ cfg'.extends[e][r] = cfg.extends[e][r]
               /\ cfg'.own[e][r] = cfg.own[e][r]]_vars
=============================================================================
