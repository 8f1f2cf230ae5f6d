------------------------- MODULE EndorseParseProofs -------------------------
(***************************************************************************)
(* That the parser's config is what the file says, for files of any length *)
(* and any names, and that the context around the parse is given back.     *)
(***************************************************************************)
EXTENDS EndorseContext, FiniteSetTheorems, TLAPS

(* The parse has not met an error so far. *)
Silent == retval = 0 /\ messages = {}

RoleNames == Roles \cup {NULL}

(* A role, or anything at all, was said of an entity. *)
SaidRole(e, r) == \E b \in RoleNames : <<"role", e, r, b>> \in read
Said(e) == <<"entity", e>> \in read \/ <<"for", e>> \in read

(* Verbs are read of roles that are being read, and a role has one base    *)
(* unless something was repeated.                                          *)
ReadInv ==
  /\ \A e \in Entities, r \in Roles, v \in Verbs :
       <<"role_verb", e, r, v>> \in read => SaidRole(e, r)
  /\ ~repeated =>
       \A e \in Entities, r \in Roles, b, c \in RoleNames :
         <<"role", e, r, b>> \in read /\ <<"role", e, r, c>> \in read => b = c

(* A block holds only what its kind is about. *)
BlockInv ==
  /\ block.entities # {} => pos \in {"entities", "verbs", "roles", "role"}
  /\ \A e \in Entities :
       /\ block.verbs[e] # {} => pos = "verbs" /\ e = entity
       /\ block.roles[e] # {} => pos \in {"roles", "role"} /\ e = entity

(* The config has nothing for an entity, or a role, that it does not have. *)
CfgInv ==
  /\ pos = "start" => cfg = EmptyAst /\ read = {} /\ ~repeated
  /\ \A e \in Entities :
       /\ e \notin cfg.entities => cfg.verbs[e] = {} /\ cfg.roles[e] = {}
       /\ \A r \in Roles \ cfg.roles[e] : cfg.extends[e][r] = NULL /\ cfg.own[e][r] = {}

(* What is in the config or in the block was read. *)
SoundInv ==
  \A e \in Entities :
    /\ e \in cfg.declared \cup block.declared => <<"entity", e>> \in read
    /\ e \in cfg.entities \cup block.entities => Said(e)
    /\ \A v \in cfg.verbs[e] \cup block.verbs[e] : <<"verb", e, v>> \in read
    /\ \A r \in cfg.roles[e] \cup block.roles[e] : SaidRole(e, r)

(* Without an error so far, what was read is in the one or in the other.   *)
CompleteInv ==
  Silent =>
    \A e \in Entities :
      /\ <<"entity", e>> \in read => e \in cfg.declared \cup block.declared
      /\ Said(e) => e \in cfg.entities \cup block.entities
      /\ \A v \in Verbs : <<"verb", e, v>> \in read => v \in cfg.verbs[e] \cup block.verbs[e]
      /\ \A r \in Roles : SaidRole(e, r) =>
           r \in cfg.roles[e] \cup block.roles[e] \/ (pos = "role" /\ e = entity /\ r = role)

(* The role extends what was said, or nothing for want of memory. *)
BaseSaid(e, r, b) ==
  \/ <<"role", e, r, b>> \in read
  \/ b = NULL /\ <<e, r>> \in forgotten

(* That this is so after the step. *)
BaseSaidNext(e, r, b) ==
  \/ <<"role", e, r, b>> \in read'
  \/ b = NULL /\ <<e, r>> \in forgotten'

(* Roles are what was said of them. *)
RolesExact(a) ==
  \A e \in Entities : \A r \in a.roles[e] :
    /\ BaseSaid(e, r, a.extends[e][r])
    /\ \A v \in Verbs : v \in a.own[e][r] <=> <<"role_verb", e, r, v>> \in read

RolesInv ==
  /\ ~repeated => RolesExact(cfg) /\ RolesExact(block)
  /\ pos = "role" =>
       /\ <<"role", entity, role, role_extends>> \in read
       /\ \A v \in role_verbs : <<"role_verb", entity, role, v>> \in read
       /\ ~repeated =>
            \A v \in Verbs : <<"role_verb", entity, role, v>> \in read => v \in role_verbs

(* What will keep the open block from being merged. *)
Clash ==
  \/ pos = "entities" /\ block.entities \cap cfg.entities # {}
  \/ pos = "verbs" /\ block.verbs[entity] \cap cfg.verbs[entity] # {}
  \/ pos \in {"roles", "role"} /\ block.roles[entity] \cap cfg.roles[entity] # {}
  \/ pos = "role" /\ role \in cfg.roles[entity] \cup block.roles[entity]

(* As long as there is no error, a name is repeated just when it is going  *)
(* to keep the open block from being merged.                               *)
ClashInv == Silent => (repeated <=> Clash)

(* The first error ends the parse. *)
MessagesInv ==
  /\ pos # "done" => Silent
  /\ messages \subseteq {<<"syntax error">>, <<"out of memory">>} \/ repeated
  /\ IsFiniteSet(messages)

(* The config is shared by the stack and the context. *)
CountInv ==
  /\ pos = "start" => reference_count = 0
  /\ pos \notin {"start", "done"} => reference_count = 2

ParseInv ==
  /\ TypeOK
  /\ ReadInv /\ BlockInv /\ CfgInv /\ SoundInv /\ CompleteInv /\ RolesInv /\ ClashInv
  /\ MessagesInv /\ CountInv

(* The steps at which all parts of the context are there. *)
Whole == {"parse", "release user", "crashed"}

(* What is allocated at each step of the command. *)
LiveInv ==
  /\ ctx_pc \in Steps
  /\ ctx_pc = "create user" => live = {}
  /\ ctx_pc = "create list" => live = {"user"}
  /\ ctx_pc = "create context" => live = {"user", "list"}
  /\ ctx_pc \in Whole => live = {"user", "list", "context"}
  /\ ctx_pc = "release context" => live = {"context"}
  /\ ctx_pc = "done" => live = {}
  /\ hooked \in BOOLEAN /\ (hooked <=> ctx_pc \in Whole)

(* The messages are listed while there is a list. *)
ListInv ==
  /\ error_list \in Seq(messages)
  /\ ctx_pc \notin Whole => error_list = << >>
  /\ ctx_pc \in {"create user", "create list", "create context"} => pos = "start"
  /\ ctx_pc = "release user" => pos = "done"

(* The config is counted for as long as it is the root of the context, and *)
(* only a failed merge leaves it with the count of the stack.              *)
RootInv ==
  /\ root \in BOOLEAN
  /\ ctx_pc \notin {"release context", "done"} => (root <=> reference_count # 0)
  /\ messages \subseteq {<<"syntax error">>} /\ pos = "done" /\ ctx_pc \in Whole =>
       reference_count # 2
  /\ ctx_pc \in {"release context", "done"} =>
       /\ reference_count # 2
       /\ messages \subseteq {<<"syntax error">>} => reference_count = 0

CtxInv == LiveInv /\ ListInv /\ RootInv

-----------------------------------------------------------------------------
(* Syntax trees. *)

(* The parts of a syntax tree have their types. *)
LEMMA AstFields ==
  ASSUME NEW a \in Ast
  PROVE  /\ a.entities \subseteq Entities /\ a.declared \subseteq Entities
         /\ \A e \in Entities :
              /\ a.verbs[e] \subseteq Verbs /\ a.roles[e] \subseteq Roles
              /\ \A r \in Roles : a.extends[e][r] \in RoleNames /\ a.own[e][r] \subseteq Verbs
  BY DEF Ast, RoleNames

(* There is nothing in the empty tree. *)
LEMMA EmptyFields ==
  /\ EmptyAst \in Ast
  /\ EmptyAst.entities = {} /\ EmptyAst.declared = {}
  /\ \A e \in Entities :
       /\ EmptyAst.verbs[e] = {} /\ EmptyAst.roles[e] = {}
       /\ \A r \in Roles : EmptyAst.extends[e][r] = NULL /\ EmptyAst.own[e][r] = {}
  BY DEF EmptyAst, Ast

(* What is in two trees combined. *)
LEMMA CombineFields ==
  ASSUME NEW a \in Ast, NEW b \in Ast
  PROVE  /\ Combine(a, b) \in Ast
         /\ Combine(a, b).entities = a.entities \cup b.entities
         /\ Combine(a, b).declared = a.declared \cup b.declared
         /\ \A e \in Entities :
              /\ Combine(a, b).verbs[e] = a.verbs[e] \cup b.verbs[e]
              /\ Combine(a, b).roles[e] = a.roles[e] \cup b.roles[e]
              /\ \A r \in Roles :
                   /\ r \in b.roles[e] =>
                        /\ Combine(a, b).extends[e][r] = b.extends[e][r]
                        /\ Combine(a, b).own[e][r] = b.own[e][r]
                   /\ r \notin b.roles[e] =>
                        /\ Combine(a, b).extends[e][r] = a.extends[e][r]
                        /\ Combine(a, b).own[e][r] = a.own[e][r]
<1>1. Combine(a, b).entities \in SUBSET Entities /\ Combine(a, b).declared \in SUBSET Entities
  BY DEF Combine, Ast
<1>2. Combine(a, b).verbs \in [Entities -> SUBSET Verbs]
  BY DEF Combine, Ast
<1>3. Combine(a, b).roles \in [Entities -> SUBSET Roles]
  BY DEF Combine, Ast
<1>4. Combine(a, b).extends \in [Entities -> [Roles -> Roles \cup {NULL}]]
  BY DEF Combine, Ast
<1>5. Combine(a, b).own \in [Entities -> [Roles -> SUBSET Verbs]]
  BY DEF Combine, Ast
<1>6. Combine(a, b) \in Ast
  BY <1>1, <1>2, <1>3, <1>4, <1>5 DEF Combine, Ast
<1> QED
  BY <1>6 DEF Combine

(* Two trees with the same parts are the same. *)
LEMMA AstExtensional ==
  ASSUME NEW a \in Ast, NEW b \in Ast,
         a.entities = b.entities, a.declared = b.declared,
         \A e \in Entities :
           /\ a.verbs[e] = b.verbs[e] /\ a.roles[e] = b.roles[e]
           /\ \A r \in Roles : a.extends[e][r] = b.extends[e][r] /\ a.own[e][r] = b.own[e][r]
  PROVE  a = b
<1>1. a.verbs = b.verbs
  BY DEF Ast
<1>2. a.roles = b.roles
  BY DEF Ast
<1>3. a.extends = b.extends
  <2>1. ASSUME NEW e \in Entities PROVE a.extends[e] = b.extends[e]
    BY DEF Ast
  <2> QED
    BY <2>1 DEF Ast
<1>4. a.own = b.own
  <2>1. ASSUME NEW e \in Entities PROVE a.own[e] = b.own[e]
    BY DEF Ast
  <2> QED
    BY <2>1 DEF Ast
<1> QED
  BY <1>1, <1>2, <1>3, <1>4 DEF Ast

(* Two trees say the same of roles. *)
SameRoles(a, b) ==
  \A e \in Entities :
    /\ a.roles[e] = b.roles[e]
    /\ \A r \in Roles : a.extends[e][r] = b.extends[e][r] /\ a.own[e][r] = b.own[e][r]

(* The parts of a block of each kind. *)
LEMMA EntitiesPart ==
  ASSUME NEW b \in Ast, NEW names \in SUBSET Entities
  PROVE  /\ EntitiesOf(b, names) \in Ast
         /\ EntitiesOf(b, names).entities = names /\ EntitiesOf(b, names).declared = names
         /\ \A e \in Entities : EntitiesOf(b, names).verbs[e] = b.verbs[e]
         /\ SameRoles(EntitiesOf(b, names), b)
  BY DEF EntitiesOf, Ast, SameRoles

(* With other verbs a block keeps the rest. *)
LEMMA VerbsOfBlock ==
  ASSUME NEW b \in Ast, NEW e \in Entities, NEW names \in SUBSET Verbs
  PROVE  LET c == [b EXCEPT !.verbs[e] = names]
         IN  /\ c \in Ast /\ c.entities = b.entities /\ c.declared = b.declared
             /\ c.verbs[e] = names
             /\ \A f \in Entities \ {e} : c.verbs[f] = b.verbs[f]
             /\ SameRoles(c, b)
  BY DEF Ast, SameRoles

(* With other roles a block keeps the rest. *)
LEMMA RolesOfBlock ==
  ASSUME NEW b \in Ast, NEW e \in Entities, NEW names \in SUBSET Roles
  PROVE  LET c == [b EXCEPT !.roles[e] = names]
         IN  /\ c \in Ast /\ c.entities = b.entities /\ c.declared = b.declared
             /\ \A f \in Entities : c.verbs[f] = b.verbs[f]
             /\ c.roles[e] = names
             /\ \A f \in Entities \ {e} : c.roles[f] = b.roles[f]
             /\ \A f \in Entities, r \in Roles :
                  c.extends[f][r] = b.extends[f][r] /\ c.own[f][r] = b.own[f][r]
  BY DEF Ast

(* A role that is added to a block. *)
LEMMA RoleAdded ==
  ASSUME NEW a \in Ast, NEW e \in Entities, NEW r \in Roles, NEW b \in RoleNames,
         NEW S \in SUBSET Verbs
  PROVE  LET c == [a EXCEPT !.roles[e] = @ \cup {r}, !.extends[e][r] = b, !.own[e][r] = S]
         IN  /\ c \in Ast /\ c.entities = a.entities /\ c.declared = a.declared
             /\ \A f \in Entities : c.verbs[f] = a.verbs[f]
             /\ c.roles[e] = a.roles[e] \cup {r}
             /\ \A f \in Entities \ {e} : c.roles[f] = a.roles[f]
             /\ c.extends[e][r] = b /\ c.own[e][r] = S
             /\ \A f \in Entities, s \in Roles : f # e \/ s # r =>
                  c.extends[f][s] = a.extends[f][s] /\ c.own[f][s] = a.own[f][s]
  BY DEF Ast, RoleNames

-----------------------------------------------------------------------------
(* What is read: each kind of declaration adds itself to what was said and *)
(* nothing else, and is a repetition if it was said before.                *)

(* Declarations have their kind first. *)
LEMMA Kinds ==
  ASSUME NEW d \in Declarations
  PROVE  /\ d[1] \in {"entity", "for"} => d = <<d[1], d[2]>>
         /\ d[1] = "verb" => d = <<d[1], d[2], d[3]>>
         /\ d[1] \in {"role", "role_verb"} => d = <<d[1], d[2], d[3], d[4]>>
         /\ d[1] = "role" => d[4] \in RoleNames
<1>1. CASE d \in {"entity", "for"} \X Entities
  <2>1. d[1] \in {"entity", "for"} /\ d = <<d[1], d[2]>>
    BY <1>1
  <2> QED
    BY <2>1
<1>2. CASE d \in {"verb"} \X Entities \X Verbs
  <2>1. d[1] = "verb" /\ d = <<d[1], d[2], d[3]>>
    BY <1>2
  <2> QED
    BY <2>1
<1>3. CASE d \in {"role"} \X Entities \X Roles \X (Roles \cup {NULL})
  BY <1>3 DEF RoleNames
<1>4. CASE d \in {"role_verb"} \X Entities \X Roles \X Verbs
  <2>1. PICK e \in Entities, r \in Roles, v \in Verbs : d = <<"role_verb", e, r, v>>
    BY <1>4
  <2> QED
    BY <2>1
<1> QED
  BY <1>1, <1>2, <1>3, <1>4 DEF Declarations

(* When an entity is declared, *)
LEMMA ReadsEntity ==
  ASSUME TypeOK, NEW e \in Entities, Read(<<"entity", e>>)
  PROVE  /\ \A f \in Entities :
              <<"entity", f>> \in read' <=> <<"entity", f>> \in read \/ f = e
         /\ \A f \in Entities :
              <<"for", f>> \in read' <=> <<"for", f>> \in read
         /\ \A f \in Entities, w \in Verbs :
              <<"verb", f, w>> \in read' <=> <<"verb", f, w>> \in read
         /\ \A f \in Entities, s \in Roles, c \in RoleNames :
              <<"role", f, s, c>> \in read' <=> <<"role", f, s, c>> \in read
         /\ \A f \in Entities, s \in Roles, w \in Verbs :
              <<"role_verb", f, s, w>> \in read' <=> <<"role_verb", f, s, w>> \in read
         /\ read' \subseteq Declarations /\ read \subseteq read'
         /\ repeated' \in BOOLEAN /\ (repeated' <=> repeated \/ Said(e))
<1>1. read' = read \cup {<<"entity", e>>} /\ read \subseteq Declarations
  BY DEF Read, TypeOK
<1>2. <<"entity", e>> \in Declarations
  BY DEF Declarations, RoleNames
<1>3. \A f \in Entities :
        <<"entity", f>> \in read' <=> <<"entity", f>> \in read \/ f = e
  BY <1>1
<1>4. \A f \in Entities : <<"for", f>> \in read' <=> <<"for", f>> \in read
  BY <1>1
<1>5. \A f \in Entities, w \in Verbs :
        <<"verb", f, w>> \in read' <=> <<"verb", f, w>> \in read
  BY <1>1
<1>6. \A f \in Entities, s \in Roles, c \in RoleNames :
        <<"role", f, s, c>> \in read' <=> <<"role", f, s, c>> \in read
  BY <1>1
<1>7. \A f \in Entities, s \in Roles, w \in Verbs :
        <<"role_verb", f, s, w>> \in read' <=> <<"role_verb", f, s, w>> \in read
  BY <1>1
<1>8. (\E c \in read : SameName(<<"entity", e>>, c)) <=> <<"entity", e>> \in read
  <2>1. ASSUME NEW c \in read, SameName(<<"entity", e>>, c)
        PROVE  c = <<"entity", e>>
    BY <1>1, <2>1, Kinds DEF SameName
  <2>2. SameName(<<"entity", e>>, <<"entity", e>>)
    BY DEF SameName
  <2> QED
    BY <2>1, <2>2
<1>9. repeated' \in BOOLEAN /\ (repeated' <=> repeated \/ Said(e))
  <2>1. repeated' <=> (repeated \/ (\E c \in read : SameName(<<"entity", e>>, c)) \/ <<"for", e>> \in read)
    BY DEF Read
  <2>2. repeated' \in BOOLEAN
    BY DEF Read, TypeOK
  <2> QED
    BY <1>8, <2>1, <2>2 DEF Said
<1> QED
  BY <1>1, <1>2, <1>3, <1>4, <1>5, <1>6, <1>7, <1>9

(* a block is for an entity, *)
LEMMA ReadsFor ==
  ASSUME TypeOK, NEW e \in Entities, Read(<<"for", e>>)
  PROVE  /\ \A f \in Entities :
              <<"entity", f>> \in read' <=> <<"entity", f>> \in read
         /\ \A f \in Entities :
              <<"for", f>> \in read' <=> <<"for", f>> \in read \/ f = e
         /\ \A f \in Entities, w \in Verbs :
              <<"verb", f, w>> \in read' <=> <<"verb", f, w>> \in read
         /\ \A f \in Entities, s \in Roles, c \in RoleNames :
              <<"role", f, s, c>> \in read' <=> <<"role", f, s, c>> \in read
         /\ \A f \in Entities, s \in Roles, w \in Verbs :
              <<"role_verb", f, s, w>> \in read' <=> <<"role_verb", f, s, w>> \in read
         /\ read' \subseteq Declarations /\ read \subseteq read'
         /\ repeated' \in BOOLEAN /\ (repeated' <=> repeated)
<1>1. read' = read \cup {<<"for", e>>} /\ read \subseteq Declarations
  BY DEF Read, TypeOK
<1>2. <<"for", e>> \in Declarations
  BY DEF Declarations, RoleNames
<1>3. \A f \in Entities :
        <<"entity", f>> \in read' <=> <<"entity", f>> \in read
  BY <1>1
<1>4. \A f \in Entities :
        <<"for", f>> \in read' <=> <<"for", f>> \in read \/ f = e
  BY <1>1
<1>5. \A f \in Entities, w \in Verbs :
        <<"verb", f, w>> \in read' <=> <<"verb", f, w>> \in read
  BY <1>1
<1>6. \A f \in Entities, s \in Roles, c \in RoleNames :
        <<"role", f, s, c>> \in read' <=> <<"role", f, s, c>> \in read
  BY <1>1
<1>7. \A f \in Entities, s \in Roles, w \in Verbs :
        <<"role_verb", f, s, w>> \in read' <=> <<"role_verb", f, s, w>> \in read
  BY <1>1
<1>8. (\E c \in read : SameName(<<"for", e>>, c)) <=> FALSE
  <2>1. ASSUME NEW c \in read, SameName(<<"for", e>>, c)
        PROVE  FALSE
    BY <2>1 DEF SameName
  <2> QED
    BY <2>1
<1>9. repeated' \in BOOLEAN /\ (repeated' <=> repeated)
  <2>1. repeated' <=> (repeated \/ (\E c \in read : SameName(<<"for", e>>, c)))
    BY DEF Read
  <2>2. repeated' \in BOOLEAN
    BY DEF Read, TypeOK
  <2> QED
    BY <1>8, <2>1, <2>2 DEF Said
<1> QED
  BY <1>1, <1>2, <1>3, <1>4, <1>5, <1>6, <1>7, <1>9

(* a verb, *)
LEMMA ReadsVerb ==
  ASSUME TypeOK, NEW e \in Entities, NEW v \in Verbs, Read(<<"verb", e, v>>)
  PROVE  /\ \A f \in Entities :
              <<"entity", f>> \in read' <=> <<"entity", f>> \in read
         /\ \A f \in Entities :
              <<"for", f>> \in read' <=> <<"for", f>> \in read
         /\ \A f \in Entities, w \in Verbs :
              <<"verb", f, w>> \in read' <=> <<"verb", f, w>> \in read \/ (f = e /\ w = v)
         /\ \A f \in Entities, s \in Roles, c \in RoleNames :
              <<"role", f, s, c>> \in read' <=> <<"role", f, s, c>> \in read
         /\ \A f \in Entities, s \in Roles, w \in Verbs :
              <<"role_verb", f, s, w>> \in read' <=> <<"role_verb", f, s, w>> \in read
         /\ read' \subseteq Declarations /\ read \subseteq read'
         /\ repeated' \in BOOLEAN /\ (repeated' <=> repeated \/ <<"verb", e, v>> \in read)
<1>1. read' = read \cup {<<"verb", e, v>>} /\ read \subseteq Declarations
  BY DEF Read, TypeOK
<1>2. <<"verb", e, v>> \in Declarations
  BY DEF Declarations, RoleNames
<1>3. \A f \in Entities :
        <<"entity", f>> \in read' <=> <<"entity", f>> \in read
  BY <1>1
<1>4. \A f \in Entities : <<"for", f>> \in read' <=> <<"for", f>> \in read
  BY <1>1
<1>5. \A f \in Entities, w \in Verbs :
        <<"verb", f, w>> \in read' <=> <<"verb", f, w>> \in read \/ (f = e /\ w = v)
  BY <1>1
<1>6. \A f \in Entities, s \in Roles, c \in RoleNames :
        <<"role", f, s, c>> \in read' <=> <<"role", f, s, c>> \in read
  BY <1>1
<1>7. \A f \in Entities, s \in Roles, w \in Verbs :
        <<"role_verb", f, s, w>> \in read' <=> <<"role_verb", f, s, w>> \in read
  BY <1>1
<1>8. (\E c \in read : SameName(<<"verb", e, v>>, c)) <=> <<"verb", e, v>> \in read
  <2>1. ASSUME NEW c \in read, SameName(<<"verb", e, v>>, c)
        PROVE  c = <<"verb", e, v>>
    BY <1>1, <2>1, Kinds DEF SameName
  <2>2. SameName(<<"verb", e, v>>, <<"verb", e, v>>)
    BY DEF SameName
  <2> QED
    BY <2>1, <2>2
<1>9. repeated' \in BOOLEAN /\ (repeated' <=> repeated \/ <<"verb", e, v>> \in read)
  <2>1. repeated' <=> (repeated \/ (\E c \in read : SameName(<<"verb", e, v>>, c)))
    BY DEF Read
  <2>2. repeated' \in BOOLEAN
    BY DEF Read, TypeOK
  <2> QED
    BY <1>8, <2>1, <2>2 DEF Said
<1> QED
  BY <1>1, <1>2, <1>3, <1>4, <1>5, <1>6, <1>7, <1>9

(* a role, *)
LEMMA ReadsRole ==
  ASSUME TypeOK, NEW e \in Entities, NEW r \in Roles, NEW b \in RoleNames, Read(<<"role", e, r, b>>)
  PROVE  /\ \A f \in Entities :
              <<"entity", f>> \in read' <=> <<"entity", f>> \in read
         /\ \A f \in Entities :
              <<"for", f>> \in read' <=> <<"for", f>> \in read
         /\ \A f \in Entities, w \in Verbs :
              <<"verb", f, w>> \in read' <=> <<"verb", f, w>> \in read
         /\ \A f \in Entities, s \in Roles, c \in RoleNames :
              <<"role", f, s, c>> \in read' <=> <<"role", f, s, c>> \in read \/ (f = e /\ s = r /\ c = b)
         /\ \A f \in Entities, s \in Roles, w \in Verbs :
              <<"role_verb", f, s, w>> \in read' <=> <<"role_verb", f, s, w>> \in read
         /\ read' \subseteq Declarations /\ read \subseteq read'
         /\ repeated' \in BOOLEAN /\ (repeated' <=> repeated \/ SaidRole(e, r))
<1>1. read' = read \cup {<<"role", e, r, b>>} /\ read \subseteq Declarations
  BY DEF Read, TypeOK
<1>2. <<"role", e, r, b>> \in Declarations
  BY DEF Declarations, RoleNames
<1>3. \A f \in Entities :
        <<"entity", f>> \in read' <=> <<"entity", f>> \in read
  BY <1>1
<1>4. \A f \in Entities : <<"for", f>> \in read' <=> <<"for", f>> \in read
  BY <1>1
<1>5. \A f \in Entities, w \in Verbs :
        <<"verb", f, w>> \in read' <=> <<"verb", f, w>> \in read
  BY <1>1
<1>6. \A f \in Entities, s \in Roles, c \in RoleNames :
        <<"role", f, s, c>> \in read' <=> <<"role", f, s, c>> \in read \/ (f = e /\ s = r /\ c = b)
  BY <1>1
<1>7. \A f \in Entities, s \in Roles, w \in Verbs :
        <<"role_verb", f, s, w>> \in read' <=> <<"role_verb", f, s, w>> \in read
  BY <1>1
<1>8. (\E c \in read : SameName(<<"role", e, r, b>>, c)) <=> SaidRole(e, r)
  <2>1. ASSUME NEW c \in read, SameName(<<"role", e, r, b>>, c)
        PROVE  SaidRole(e, r)
    <3>1. c = <<"role", e, r, c[4]>> /\ c[4] \in RoleNames
      BY <1>1, <2>1, Kinds DEF SameName
    <3> QED
      BY <3>1 DEF SaidRole
  <2>2. ASSUME SaidRole(e, r)
        PROVE  \E c \in read : SameName(<<"role", e, r, b>>, c)
    BY <2>2 DEF SaidRole, SameName
  <2> QED
    BY <2>1, <2>2
<1>9. repeated' \in BOOLEAN /\ (repeated' <=> repeated \/ SaidRole(e, r))
  <2>1. repeated' <=> (repeated \/ (\E c \in read : SameName(<<"role", e, r, b>>, c)))
    BY DEF Read
  <2>2. repeated' \in BOOLEAN
    BY DEF Read, TypeOK
  <2> QED
    BY <1>8, <2>1, <2>2 DEF Said
<1> QED
  BY <1>1, <1>2, <1>3, <1>4, <1>5, <1>6, <1>7, <1>9

(* or a verb of a role. *)
LEMMA ReadsRoleVerb ==
  ASSUME TypeOK, NEW e \in Entities, NEW r \in Roles, NEW v \in Verbs, Read(<<"role_verb", e, r, v>>)
  PROVE  /\ \A f \in Entities :
              <<"entity", f>> \in read' <=> <<"entity", f>> \in read
         /\ \A f \in Entities :
              <<"for", f>> \in read' <=> <<"for", f>> \in read
         /\ \A f \in Entities, w \in Verbs :
              <<"verb", f, w>> \in read' <=> <<"verb", f, w>> \in read
         /\ \A f \in Entities, s \in Roles, c \in RoleNames :
              <<"role", f, s, c>> \in read' <=> <<"role", f, s, c>> \in read
         /\ \A f \in Entities, s \in Roles, w \in Verbs :
              <<"role_verb", f, s, w>> \in read' <=> <<"role_verb", f, s, w>> \in read \/ (f = e /\ s = r /\ w = v)
         /\ read' \subseteq Declarations /\ read \subseteq read'
         /\ repeated' \in BOOLEAN /\ (repeated' <=> repeated \/ <<"role_verb", e, r, v>> \in read)
<1>1. read' = read \cup {<<"role_verb", e, r, v>>} /\ read \subseteq Declarations
  BY DEF Read, TypeOK
<1>2. <<"role_verb", e, r, v>> \in Declarations
  BY DEF Declarations, RoleNames
<1>3. \A f \in Entities :
        <<"entity", f>> \in read' <=> <<"entity", f>> \in read
  BY <1>1
<1>4. \A f \in Entities : <<"for", f>> \in read' <=> <<"for", f>> \in read
  BY <1>1
<1>5. \A f \in Entities, w \in Verbs :
        <<"verb", f, w>> \in read' <=> <<"verb", f, w>> \in read
  BY <1>1
<1>6. \A f \in Entities, s \in Roles, c \in RoleNames :
        <<"role", f, s, c>> \in read' <=> <<"role", f, s, c>> \in read
  BY <1>1
<1>7. \A f \in Entities, s \in Roles, w \in Verbs :
        <<"role_verb", f, s, w>> \in read' <=> <<"role_verb", f, s, w>> \in read \/ (f = e /\ s = r /\ w = v)
  BY <1>1
<1>8. (\E c \in read : SameName(<<"role_verb", e, r, v>>, c)) <=> <<"role_verb", e, r, v>> \in read
  <2>1. ASSUME NEW c \in read, SameName(<<"role_verb", e, r, v>>, c)
        PROVE  c = <<"role_verb", e, r, v>>
    BY <1>1, <2>1, Kinds DEF SameName
  <2>2. SameName(<<"role_verb", e, r, v>>, <<"role_verb", e, r, v>>)
    BY DEF SameName
  <2> QED
    BY <2>1, <2>2
<1>9. repeated' \in BOOLEAN /\ (repeated' <=> repeated \/ <<"role_verb", e, r, v>> \in read)
  <2>1. repeated' <=> (repeated \/ (\E c \in read : SameName(<<"role_verb", e, r, v>>, c)))
    BY DEF Read
  <2>2. repeated' \in BOOLEAN
    BY DEF Read, TypeOK
  <2> QED
    BY <1>8, <2>1, <2>2 DEF Said
<1> QED
  BY <1>1, <1>2, <1>3, <1>4, <1>5, <1>6, <1>7, <1>9

-----------------------------------------------------------------------------
(* A step that reads a declaration, or none, keeps what is known of those  *)
(* read, and says nothing new of a role that is complete.                  *)
Reading ==
  /\ read \subseteq read' /\ read' \subseteq Declarations
  /\ forgotten \subseteq forgotten' /\ forgotten' \subseteq Entities \X Roles
  /\ repeated' \in BOOLEAN /\ (repeated => repeated')
  /\ ReadInv'
  /\ ~repeated' =>
       \A e \in Entities : \A r \in cfg.roles[e] \cup block.roles[e], v \in Verbs :
         <<"role_verb", e, r, v>> \in read' => <<"role_verb", e, r, v>> \in read

(* That is so when nothing is read.                                        *)
LEMMA ReadingNothing ==
  ASSUME ParseInv, read' = read, repeated' = repeated,
         forgotten \subseteq forgotten', forgotten' \subseteq Entities \X Roles
  PROVE  Reading
<1>1. ReadInv'
  BY DEF ParseInv, ReadInv, SaidRole
<1> QED
  BY <1>1 DEF Reading, ParseInv, TypeOK

(* It is so when a step leaves the history alone.                          *)
LEMMA ReadingUnchanged ==
  ASSUME ParseInv, UNCHANGED history
  PROVE  Reading
<1>1. read' = read /\ repeated' = repeated /\ forgotten' = forgotten
  BY DEF history
<1> QED
  BY <1>1, ReadingNothing DEF ParseInv, TypeOK

(* Nothing is forgotten where a declaration is read.                       *)
LEMMA ReadForgetsNothing ==
  ASSUME NEW d, Read(d)
  PROVE  forgotten' = forgotten
  BY DEF Read

(* or something that is not about roles,                                   *)
LEMMA ReadingOther ==
  ASSUME ParseInv, forgotten' = forgotten,
         read \subseteq read', read' \subseteq Declarations,
         repeated' \in BOOLEAN, repeated => repeated',
         \A f \in Entities, s \in Roles, c \in RoleNames :
           <<"role", f, s, c>> \in read' <=> <<"role", f, s, c>> \in read,
         \A f \in Entities, s \in Roles, w \in Verbs :
           <<"role_verb", f, s, w>> \in read' <=> <<"role_verb", f, s, w>> \in read
  PROVE  Reading
<1>1. ReadInv'
  BY DEF ParseInv, ReadInv, SaidRole
<1>2. cfg \in Ast /\ block \in Ast /\ forgotten \subseteq Entities \X Roles
  BY DEF ParseInv, TypeOK
<1> QED
  BY <1>1, <1>2, AstFields DEF Reading

(* which is an entity, *)
LEMMA ReadingEntity ==
  ASSUME ParseInv, NEW e \in Entities, Read(<<"entity", e>>)
  PROVE  Reading
  BY ReadsEntity, ReadForgetsNothing, ReadingOther DEF ParseInv

(* the entity of a block, *)
LEMMA ReadingFor ==
  ASSUME ParseInv, NEW e \in Entities, Read(<<"for", e>>)
  PROVE  Reading
  BY ReadsFor, ReadForgetsNothing, ReadingOther DEF ParseInv

(* or a verb, *)
LEMMA ReadingVerb ==
  ASSUME ParseInv, NEW e \in Entities, NEW v \in Verbs, Read(<<"verb", e, v>>)
  PROVE  Reading
  BY ReadsVerb, ReadForgetsNothing, ReadingOther DEF ParseInv

(* or a role,                                                              *)
LEMMA ReadingRole ==
  ASSUME ParseInv, NEW e \in Entities, NEW r \in Roles, NEW b \in RoleNames,
         Read(<<"role", e, r, b>>)
  PROVE  Reading
<1> DEFINE New(f, s, c) == f = e /\ s = r /\ c = b
<1>a. /\ \A f \in Entities, s \in Roles, c \in RoleNames :
           <<"role", f, s, c>> \in read' <=> <<"role", f, s, c>> \in read \/ New(f, s, c)
      /\ \A f \in Entities, s \in Roles, w \in Verbs :
           <<"role_verb", f, s, w>> \in read' <=> <<"role_verb", f, s, w>> \in read
  BY ReadsRole DEF ParseInv
<1>b. /\ read' \subseteq Declarations /\ read \subseteq read'
      /\ repeated' \in BOOLEAN /\ (repeated' <=> repeated \/ SaidRole(e, r))
  BY ReadsRole DEF ParseInv
<1> HIDE DEF New
<1>1. ReadInv'
  <2>1. ASSUME NEW f \in Entities, NEW s \in Roles, NEW w \in Verbs,
               <<"role_verb", f, s, w>> \in read'
        PROVE  SaidRole(f, s)'
    <3>1. SaidRole(f, s)
      BY <1>a, <2>1 DEF ParseInv, ReadInv
    <3> QED
      BY <1>b, <3>1 DEF SaidRole
  <2>2. ASSUME ~repeated', NEW f \in Entities, NEW s \in Roles, NEW c \in RoleNames,
               NEW d \in RoleNames,
               <<"role", f, s, c>> \in read', <<"role", f, s, d>> \in read'
        PROVE  c = d
    <3>1. ~repeated /\ ~SaidRole(e, r)
      BY <1>b, <2>2
    <3>2. CASE f = e /\ s = r
      <4>1. <<"role", e, r, c>> \notin read /\ <<"role", e, r, d>> \notin read
        BY <3>1 DEF SaidRole
      <4> QED
        BY <1>a, <2>2, <3>2, <4>1 DEF New
    <3>3. CASE ~(f = e /\ s = r)
      <4>1. <<"role", f, s, c>> \in read /\ <<"role", f, s, d>> \in read
        BY <1>a, <2>2, <3>3 DEF New
      <4> QED
        BY <3>1, <4>1 DEF ParseInv, ReadInv
    <3> QED
      BY <3>2, <3>3
  <2> QED
    BY <2>1, <2>2 DEF ReadInv
<1>2. cfg \in Ast /\ block \in Ast /\ forgotten' = forgotten /\ forgotten \subseteq Entities \X Roles
  BY ReadForgetsNothing DEF ParseInv, TypeOK
<1> QED
  BY <1>a, <1>b, <1>1, <1>2, AstFields DEF Reading

(* or a verb of the role that is being read.                               *)
LEMMA ReadingRoleVerb ==
  ASSUME ParseInv, NEW v \in Verbs, pos = "role", Read(<<"role_verb", entity, role, v>>)
  PROVE  Reading
<1>1. entity \in Entities /\ role \in Roles /\ cfg \in Ast /\ block \in Ast
  BY DEF ParseInv, TypeOK
<1> DEFINE New(f, s, w) == f = entity /\ s = role /\ w = v
<1>t. TypeOK
  BY DEF ParseInv
<1>a. /\ \A f \in Entities, s \in Roles, c \in RoleNames :
           <<"role", f, s, c>> \in read' <=> <<"role", f, s, c>> \in read
      /\ \A f \in Entities, s \in Roles, w \in Verbs :
           <<"role_verb", f, s, w>> \in read' <=> <<"role_verb", f, s, w>> \in read \/ New(f, s, w)
  <2>1. \A f \in Entities, s \in Roles, c \in RoleNames :
           <<"role", f, s, c>> \in read' <=> <<"role", f, s, c>> \in read
    BY <1>1, <1>t, ReadsRoleVerb
  <2>2. \A f \in Entities, s \in Roles, w \in Verbs :
           <<"role_verb", f, s, w>> \in read' <=> <<"role_verb", f, s, w>> \in read \/ New(f, s, w)
    BY DEF Read
  <2> QED
    BY <2>1, <2>2
<1>b. /\ read' \subseteq Declarations /\ read \subseteq read'
      /\ repeated' \in BOOLEAN /\ (repeated => repeated')
  BY <1>1, ReadsRoleVerb DEF ParseInv
<1> HIDE DEF New
<1>2. ReadInv'
  <2>1. SaidRole(entity, role)
    BY DEF ParseInv, RolesInv, SaidRole, TypeOK, RoleNames
  <2>2. ASSUME NEW f \in Entities, NEW s \in Roles, NEW w \in Verbs,
               <<"role_verb", f, s, w>> \in read'
        PROVE  SaidRole(f, s)'
    <3>1. SaidRole(f, s)
      BY <1>a, <2>1, <2>2 DEF ParseInv, ReadInv, New
    <3> QED
      BY <1>b, <3>1 DEF SaidRole
  <2>3. ~repeated' => ~repeated
    BY <1>b
  <2> QED
    BY <1>a, <2>2, <2>3 DEF ReadInv, ParseInv
<1>3. ASSUME ~repeated'
      PROVE  role \notin cfg.roles[entity] \cup block.roles[entity]
  <2>1. ~repeated
    BY <1>b, <1>3
  <2>2. ~Clash
    BY <2>1 DEF ParseInv, ClashInv, MessagesInv
  <2> QED
    BY <2>2 DEF Clash
<1>4. forgotten' = forgotten /\ forgotten \subseteq Entities \X Roles
  BY ReadForgetsNothing DEF ParseInv, TypeOK
<1> QED
  BY <1>a, <1>b, <1>1, <1>2, <1>3, <1>4, AstFields DEF Reading, New

-----------------------------------------------------------------------------
(* Merges. *)

(* A part of the block that has nothing of what the config has already.    *)
MergePart(x) ==
  /\ x \in Ast
  /\ x.entities \subseteq block.entities /\ x.declared \subseteq block.declared
  /\ \A e \in Entities :
       /\ x.verbs[e] \subseteq block.verbs[e]
       /\ x.roles[e] \subseteq block.roles[e] \ cfg.roles[e]
       /\ x.verbs[e] \cup x.roles[e] # {} => e \in x.entities
       /\ \A r \in x.roles[e] :
            x.extends[e][r] = block.extends[e][r] /\ x.own[e][r] = block.own[e][r]

(* Some of the block is in the config, and the rest is lost. *)
PartMerged == \E x : MergePart(x) /\ cfg' = Combine(cfg, x)

(* Nothing is such a part. *)
LEMMA NothingMerged ==
  ASSUME ParseInv, UNCHANGED cfg
  PROVE  PartMerged
<1> DEFINE c == Combine(cfg, EmptyAst)
<1>1. cfg \in Ast
  BY DEF ParseInv, TypeOK
<1>2. EmptyAst \in Ast
  BY EmptyFields
<1>3. /\ c \in Ast
      /\ c.entities = cfg.entities \cup EmptyAst.entities
      /\ c.declared = cfg.declared \cup EmptyAst.declared
      /\ \A e \in Entities :
           /\ c.verbs[e] = cfg.verbs[e] \cup EmptyAst.verbs[e]
           /\ c.roles[e] = cfg.roles[e] \cup EmptyAst.roles[e]
           /\ \A r \in Roles : r \notin EmptyAst.roles[e] =>
                c.extends[e][r] = cfg.extends[e][r] /\ c.own[e][r] = cfg.own[e][r]
  BY <1>1, <1>2, CombineFields
<1> HIDE DEF c
<1>4. c = cfg
  <2>1. c.entities = cfg.entities /\ c.declared = cfg.declared
    BY <1>3, EmptyFields
  <2>2. ASSUME NEW e \in Entities
        PROVE  /\ c.verbs[e] = cfg.verbs[e] /\ c.roles[e] = cfg.roles[e]
               /\ \A r \in Roles : c.extends[e][r] = cfg.extends[e][r] /\ c.own[e][r] = cfg.own[e][r]
    <3>1. EmptyAst.verbs[e] = {} /\ EmptyAst.roles[e] = {}
      BY EmptyFields
    <3>2. c.verbs[e] = cfg.verbs[e] /\ c.roles[e] = cfg.roles[e]
      <4>1. /\ c.verbs[e] = cfg.verbs[e] \cup EmptyAst.verbs[e]
            /\ c.roles[e] = cfg.roles[e] \cup EmptyAst.roles[e]
        BY <1>3, Zenon
      <4>2. /\ cfg.verbs[e] \cup {} = cfg.verbs[e]
            /\ cfg.roles[e] \cup {} = cfg.roles[e]
        OBVIOUS
      <4> QED
        BY <3>1, <4>1, <4>2, Zenon
    <3>3. ASSUME NEW r \in Roles
          PROVE  c.extends[e][r] = cfg.extends[e][r] /\ c.own[e][r] = cfg.own[e][r]
      BY <1>3, <3>1
    <3> QED
      BY <3>2, <3>3
  <2> QED
    BY <1>1, <1>3, <2>1, <2>2, AstExtensional
<1>5. MergePart(EmptyAst)
  BY <1>2, EmptyFields DEF MergePart
<1> QED
  BY <1>4, <1>5 DEF PartMerged, c

(* The whole block is such a part when nothing keeps it from being merged. *)
LEMMA BlockIsPart ==
  ASSUME ParseInv, pos \in {"entities", "verbs", "roles"}, ~Clash
  PROVE  MergePart(block)
<1>1. block \in Ast /\ cfg \in Ast
  BY DEF ParseInv, TypeOK
<1>2. ASSUME NEW e \in Entities
      PROVE  /\ block.verbs[e] \cup block.roles[e] # {} => e \in block.entities
             /\ block.roles[e] \subseteq block.roles[e] \ cfg.roles[e]
  BY <1>1 DEF ParseInv, BlockInv, Clash, TypeOK
<1> QED
  BY <1>1, <1>2 DEF MergePart

(* And so are some of the entities of a block, *)
LEMMA EntitiesArePart ==
  ASSUME ParseInv, pos = "entities", NEW names \in SUBSET block.entities
  PROVE  MergePart(EntitiesOf(block, names))
<1> DEFINE x == EntitiesOf(block, names)
<1>1. block \in Ast /\ names \in SUBSET Entities
  BY AstFields DEF ParseInv, TypeOK
<1>2. /\ x \in Ast /\ x.entities = names /\ x.declared = names
      /\ \A e \in Entities : x.verbs[e] = block.verbs[e]
      /\ SameRoles(x, block)
  BY <1>1, EntitiesPart
<1>3. block.declared = block.entities
  BY DEF ParseInv, TypeOK
<1>4. \A e \in Entities : block.verbs[e] = {} /\ block.roles[e] = {}
  BY DEF ParseInv, BlockInv
<1> HIDE DEF x
<1>5. MergePart(x)
  BY <1>2, <1>3, <1>4 DEF MergePart, SameRoles
<1> QED
  BY <1>5 DEF x

(* some of the verbs, *)
LEMMA VerbsArePart ==
  ASSUME ParseInv, pos = "verbs", NEW names \in SUBSET block.verbs[entity]
  PROVE  MergePart(VerbsPart(block, names))
<1> DEFINE x == VerbsPart(block, names)
<1>1. block \in Ast /\ entity \in Entities /\ names \in SUBSET Verbs
  BY AstFields DEF ParseInv, TypeOK
<1>2. /\ x \in Ast /\ x.entities = block.entities /\ x.declared = block.declared
      /\ x.verbs[entity] = names
      /\ \A f \in Entities \ {entity} : x.verbs[f] = block.verbs[f]
      /\ SameRoles(x, block)
  BY <1>1, VerbsOfBlock DEF VerbsPart
<1>3. block.entities = {entity}
  BY DEF ParseInv, TypeOK
<1>4. \A e \in Entities : (e # entity => block.verbs[e] = {}) /\ block.roles[e] = {}
  BY DEF ParseInv, BlockInv
<1> HIDE DEF x
<1>5. MergePart(x)
  BY <1>1, <1>2, <1>3, <1>4 DEF MergePart, SameRoles
<1> QED
  BY <1>5 DEF x

(* and some of the roles, but not those that the config has already. *)
LEMMA RolesArePart ==
  ASSUME ParseInv, pos = "roles", NEW names \in SUBSET (block.roles[entity] \ cfg.roles[entity])
  PROVE  MergePart(RolesPart(block, names))
<1> DEFINE x == RolesPart(block, names)
<1>1. block \in Ast /\ entity \in Entities /\ names \in SUBSET Roles
  BY AstFields DEF ParseInv, TypeOK
<1>2. /\ x \in Ast /\ x.entities = block.entities /\ x.declared = block.declared
      /\ \A f \in Entities : x.verbs[f] = block.verbs[f]
      /\ x.roles[entity] = names
      /\ \A f \in Entities \ {entity} : x.roles[f] = block.roles[f]
      /\ \A f \in Entities, r \in Roles :
           x.extends[f][r] = block.extends[f][r] /\ x.own[f][r] = block.own[f][r]
  BY <1>1, RolesOfBlock DEF RolesPart
<1>3. block.entities = {entity}
  BY DEF ParseInv, TypeOK
<1>4. \A e \in Entities : (e # entity => block.roles[e] = {}) /\ block.verbs[e] = {}
  BY DEF ParseInv, BlockInv
<1> HIDE DEF x
<1>5. MergePart(x)
  BY <1>1, <1>2, <1>3, <1>4 DEF MergePart
<1> QED
  BY <1>5 DEF x

(* What was in the config stays there as it was. *)
Stays ==
  /\ cfg.entities \subseteq cfg'.entities
  /\ cfg.declared \subseteq cfg'.declared
  /\ \A e \in Entities :
       /\ cfg.verbs[e] \subseteq cfg'.verbs[e]
       /\ \A r \in cfg.roles[e] :
            /\ r \in cfg'.roles[e]
            /\ cfg'.extends[e][r] = cfg.extends[e][r]
            /\ cfg'.own[e][r] = cfg.own[e][r]

(* A merge of such a part adds to the config and changes nothing. *)
LEMMA PartMergedStays ==
  ASSUME cfg \in Ast, NEW x, MergePart(x), cfg' = Combine(cfg, x)
  PROVE  Stays
<1>1. x \in Ast
  BY DEF MergePart
<1>2. /\ cfg'.entities = cfg.entities \cup x.entities
      /\ cfg'.declared = cfg.declared \cup x.declared
      /\ \A e \in Entities :
           /\ cfg'.verbs[e] = cfg.verbs[e] \cup x.verbs[e]
           /\ cfg'.roles[e] = cfg.roles[e] \cup x.roles[e]
           /\ \A r \in Roles : r \notin x.roles[e] =>
                cfg'.extends[e][r] = cfg.extends[e][r] /\ cfg'.own[e][r] = cfg.own[e][r]
  BY <1>1, CombineFields
<1>3. \A e \in Entities : cfg.roles[e] \subseteq Roles /\ cfg.roles[e] \cap x.roles[e] = {}
  BY AstFields DEF MergePart
<1> QED
  BY <1>2, <1>3 DEF Stays

-----------------------------------------------------------------------------
(* Failures. *)

(* An error ends the parse: with a message that is about memory unless     *)
(* something was repeated.                                                 *)
Failed(errors) ==
  /\ pos' = "done" /\ Drop /\ UNCHANGED retval
  /\ messages' = messages \cup errors
  /\ reference_count' \in {reference_count - 1, reference_count}
  /\ errors \subseteq Messages /\ IsFiniteSet(errors) /\ ~(errors \subseteq {<<"syntax error">>})
  /\ errors \subseteq {<<"out of memory">>} \/ repeated'
  /\ PartMerged

(* The messages of the parser. *)
LEMMA MessageTypes ==
  /\ <<"syntax error">> \in Messages
  /\ <<"out of memory">> \in Messages
  /\ <<"error merging">> \in Messages
  /\ \A e \in Entities : <<"duplicate entity", e>> \in Messages
  /\ \A v \in Verbs : <<"duplicate verb", v>> \in Messages
  /\ \A r \in Roles : <<"duplicate role", r>> \in Messages
  BY DEF Messages

(* They are not the one about the syntax. *)
LEMMA MessagesDiffer ==
  /\ <<"out of memory">> # <<"syntax error">>
  /\ <<"error merging">> # <<"syntax error">>
  /\ \A e \in Entities : <<"duplicate entity", e>> # <<"syntax error">>
  /\ \A v \in Verbs : <<"duplicate verb", v>> # <<"syntax error">>
  /\ \A r \in Roles : <<"duplicate role", r>> # <<"syntax error">>
  OBVIOUS

(* A failure for want of memory, *)
LEMMA NoMemoryFails ==
  ASSUME NEW top \in BOOLEAN, NoMemory(top), PartMerged
  PROVE  Failed({<<"out of memory">>})
<1>1. IsFiniteSet({<<"out of memory">>})
  BY FS_Singleton
<1> QED
  BY <1>1, MessageTypes, MessagesDiffer DEF NoMemory, Fail, Accept, Failed

(* or because of a duplicate. *)
LEMMA DuplicateFails ==
  ASSUME NEW top \in BOOLEAN, NEW m \in Messages, m # <<"syntax error">>,
         NEW others \in {{}, {<<"error merging">>}},
         Fail(top, {m} \cup others), PartMerged, repeated'
  PROVE  Failed({m} \cup others)
<1>1. IsFiniteSet({m} \cup others)
  <2>1. IsFiniteSet({m}) /\ IsFiniteSet({<<"error merging">>}) /\ IsFiniteSet({})
    BY FS_Singleton, FS_EmptySet
  <2> QED
    BY <2>1, FS_Union
<1> QED
  BY <1>1, MessageTypes DEF Fail, Accept, Failed

(* The block is merged and the next one may follow. *)
Merged == cfg' = Combine(cfg, block) /\ pos' = "top" /\ Drop /\ Reduced

(* A block is merged when nothing keeps it from being merged, and          *)
(* otherwise the parse fails.                                              *)
LEMMA CloseEntitiesMerges ==
  ASSUME ParseInv, CloseEntities
  PROVE  (~Clash /\ Merged) \/ \E errors : Failed(errors)
<1>1. /\ pos = "entities" /\ (repeated <=> Clash) /\ (repeated' <=> repeated)
      /\ (Clash <=> block.entities \cap cfg.entities # {})
      /\ block.entities \subseteq Entities
  BY AstFields DEF CloseEntities, history, Clash, ParseInv, ClashInv, MessagesInv, TypeOK
<1>2. ASSUME NEW moved \in SUBSET (block.entities \ cfg.entities),
             cfg' = Combine(cfg, EntitiesOf(block, moved))
      PROVE  PartMerged
  BY <1>1, <1>2, EntitiesArePart DEF PartMerged
<1>3. CASE block.entities \cap cfg.entities = {} /\ Merged
  BY <1>1, <1>3
<1>4. ASSUME NEW moved \in SUBSET (block.entities \ cfg.entities),
             NEW e \in block.entities \cap cfg.entities,
             cfg' = Combine(cfg, EntitiesOf(block, moved)),
             Fail(TRUE, {<<"duplicate entity", e>>} \cup {})
      PROVE  \E errors : Failed(errors)
  <2>1. /\ <<"duplicate entity", e>> \in Messages
        /\ <<"duplicate entity", e>> # <<"syntax error">>
    BY <1>1, MessageTypes, MessagesDiffer
  <2> QED
    BY <1>1, <1>2, <1>4, <2>1, DuplicateFails
<1>5. ASSUME NEW moved \in SUBSET (block.entities \ cfg.entities),
             cfg' = Combine(cfg, EntitiesOf(block, moved)), NoMemory(TRUE)
      PROVE  \E errors : Failed(errors)
  BY <1>2, <1>5, NoMemoryFails
<1> QED
  BY <1>3, <1>4, <1>5 DEF CloseEntities, MergeNames, Merged

(* So it is with a block of verbs, *)
LEMMA CloseVerbsMerges ==
  ASSUME ParseInv, CloseVerbs
  PROVE  (~Clash /\ Merged) \/ \E errors : Failed(errors)
<1>1. /\ pos = "verbs" /\ (repeated <=> Clash) /\ (repeated' <=> repeated)
      /\ (Clash <=> block.verbs[entity] \cap cfg.verbs[entity] # {})
      /\ entity \in Entities /\ block.verbs[entity] \subseteq Verbs
      /\ entity \notin cfg.entities => cfg.verbs[entity] = {}
  BY AstFields
     DEF CloseVerbs, history, Clash, ParseInv, ClashInv, MessagesInv, TypeOK, CfgInv
<1>2. ASSUME NEW moved \in SUBSET (block.verbs[entity] \ cfg.verbs[entity]),
             cfg' = Combine(cfg, VerbsPart(block, moved))
      PROVE  PartMerged
  BY <1>1, <1>2, VerbsArePart DEF PartMerged
<1>3. CASE block.verbs[entity] \cap cfg.verbs[entity] = {} /\ Merged
  BY <1>1, <1>3
<1>4. ASSUME NEW moved \in SUBSET (block.verbs[entity] \ cfg.verbs[entity]),
             NEW v \in block.verbs[entity] \cap cfg.verbs[entity],
             cfg' = Combine(cfg, VerbsPart(block, moved)),
             Fail(TRUE, {<<"duplicate verb", v>>} \cup {<<"error merging">>})
      PROVE  \E errors : Failed(errors)
  <2>1. /\ <<"duplicate verb", v>> \in Messages
        /\ <<"duplicate verb", v>> # <<"syntax error">>
    BY <1>1, MessageTypes, MessagesDiffer
  <2> QED
    BY <1>1, <1>2, <1>4, <2>1, DuplicateFails
<1>5. ASSUME NEW moved \in SUBSET (block.verbs[entity] \ cfg.verbs[entity]),
             cfg' = Combine(cfg, VerbsPart(block, moved)), NoMemory(TRUE)
      PROVE  \E errors : Failed(errors)
  BY <1>2, <1>5, NoMemoryFails
<1>6. ASSUME NEW top \in BOOLEAN, NoMemory(top), UNCHANGED cfg
      PROVE  \E errors : Failed(errors)
  BY <1>6, NothingMerged, NoMemoryFails
<1>7. CASE NoMemory(FALSE) /\ UNCHANGED cfg
  BY <1>6, <1>7
<1>8. CASE entity \in cfg.entities
             /\ MergeNames(block.verbs[entity], cfg.verbs[entity], VerbsPart,
                           LAMBDA v : <<"duplicate verb", v>>, {<<"error merging">>})
  BY <1>3, <1>4, <1>5, <1>8 DEF MergeNames, Merged
<1>9. CASE entity \notin cfg.entities /\ (Merged \/ (NoMemory(TRUE) /\ UNCHANGED cfg))
  BY <1>1, <1>6, <1>9
<1> QED
  BY <1>7, <1>8, <1>9 DEF CloseVerbs, MergeEntity, MergeNames, Merged

(* and with one of roles. *)
LEMMA CloseRolesMerges ==
  ASSUME ParseInv, CloseRoles
  PROVE  (~Clash /\ Merged) \/ \E errors : Failed(errors)
<1>1. /\ pos = "roles" /\ (repeated <=> Clash) /\ (repeated' <=> repeated)
      /\ (Clash <=> block.roles[entity] \cap cfg.roles[entity] # {})
      /\ entity \in Entities /\ block.roles[entity] \subseteq Roles
      /\ entity \notin cfg.entities => cfg.roles[entity] = {}
  BY AstFields
     DEF CloseRoles, history, Clash, ParseInv, ClashInv, MessagesInv, TypeOK, CfgInv
<1>2. ASSUME NEW moved \in SUBSET (block.roles[entity] \ cfg.roles[entity]),
             cfg' = Combine(cfg, RolesPart(block, moved))
      PROVE  PartMerged
  BY <1>1, <1>2, RolesArePart DEF PartMerged
<1>3. CASE block.roles[entity] \cap cfg.roles[entity] = {} /\ Merged
  BY <1>1, <1>3
<1>4. ASSUME NEW moved \in SUBSET (block.roles[entity] \ cfg.roles[entity]),
             NEW r \in block.roles[entity] \cap cfg.roles[entity],
             cfg' = Combine(cfg, RolesPart(block, moved)),
             Fail(TRUE, {<<"duplicate role", r>>} \cup {<<"error merging">>})
      PROVE  \E errors : Failed(errors)
  <2>1. /\ <<"duplicate role", r>> \in Messages
        /\ <<"duplicate role", r>> # <<"syntax error">>
    BY <1>1, MessageTypes, MessagesDiffer
  <2> QED
    BY <1>1, <1>2, <1>4, <2>1, DuplicateFails
<1>5. ASSUME NEW moved \in SUBSET (block.roles[entity] \ cfg.roles[entity]),
             cfg' = Combine(cfg, RolesPart(block, moved)), NoMemory(TRUE)
      PROVE  \E errors : Failed(errors)
  BY <1>2, <1>5, NoMemoryFails
<1>6. ASSUME NEW top \in BOOLEAN, NoMemory(top), UNCHANGED cfg
      PROVE  \E errors : Failed(errors)
  BY <1>6, NothingMerged, NoMemoryFails
<1>7. CASE NoMemory(FALSE) /\ UNCHANGED cfg
  BY <1>6, <1>7
<1>8. CASE entity \in cfg.entities
             /\ MergeNames(block.roles[entity], cfg.roles[entity], RolesPart,
                           LAMBDA r : <<"duplicate role", r>>, {<<"error merging">>})
  BY <1>3, <1>4, <1>5, <1>8 DEF MergeNames, Merged
<1>9. CASE entity \notin cfg.entities /\ (Merged \/ (NoMemory(TRUE) /\ UNCHANGED cfg))
  BY <1>1, <1>6, <1>9
<1> QED
  BY <1>7, <1>8, <1>9 DEF CloseRoles, MergeEntity, MergeNames, Merged

-----------------------------------------------------------------------------
(* Whatever part of the block is merged, and whatever is read, the config  *)
(* has what was said, each role whole.                                     *)
LEMMA PartKeepsConfig ==
  ASSUME ParseInv, Reading, NEW x, MergePart(x), cfg' = Combine(cfg, x), pos' # "start"
  PROVE  /\ cfg' \in Ast
         /\ CfgInv'
         /\ \A e \in Entities :
              /\ e \in cfg'.declared => <<"entity", e>> \in read'
              /\ e \in cfg'.entities => Said(e)'
              /\ \A v \in cfg'.verbs[e] : <<"verb", e, v>> \in read'
              /\ \A r \in cfg'.roles[e] : SaidRole(e, r)'
         /\ ~repeated' => RolesExact(cfg)'
<1>1. cfg \in Ast /\ block \in Ast /\ x \in Ast
  BY DEF ParseInv, TypeOK, MergePart
<1>2. /\ cfg' \in Ast
      /\ cfg'.entities = cfg.entities \cup x.entities
      /\ cfg'.declared = cfg.declared \cup x.declared
      /\ \A e \in Entities :
           /\ cfg'.verbs[e] = cfg.verbs[e] \cup x.verbs[e]
           /\ cfg'.roles[e] = cfg.roles[e] \cup x.roles[e]
           /\ \A r \in Roles :
                /\ r \in x.roles[e] =>
                     cfg'.extends[e][r] = x.extends[e][r] /\ cfg'.own[e][r] = x.own[e][r]
                /\ r \notin x.roles[e] =>
                     cfg'.extends[e][r] = cfg.extends[e][r] /\ cfg'.own[e][r] = cfg.own[e][r]
  BY <1>1, CombineFields
<1>3. /\ x.entities \subseteq block.entities /\ x.declared \subseteq block.declared
      /\ \A e \in Entities :
           /\ x.verbs[e] \subseteq block.verbs[e]
           /\ x.roles[e] \subseteq block.roles[e] \ cfg.roles[e]
           /\ x.verbs[e] \cup x.roles[e] # {} => e \in x.entities
           /\ \A r \in x.roles[e] :
                x.extends[e][r] = block.extends[e][r] /\ x.own[e][r] = block.own[e][r]
  BY DEF MergePart
<1>4. CfgInv'
  <2>1. ASSUME NEW e \in Entities
        PROVE  /\ e \notin cfg'.entities => cfg'.verbs[e] = {} /\ cfg'.roles[e] = {}
               /\ \A r \in Roles \ cfg'.roles[e] : cfg'.extends[e][r] = NULL /\ cfg'.own[e][r] = {}
    BY <1>2, <1>3 DEF ParseInv, CfgInv
  <2> QED
    BY <2>1 DEF CfgInv
<1>5. ASSUME NEW e \in Entities
      PROVE  /\ e \in cfg'.declared => <<"entity", e>> \in read'
             /\ e \in cfg'.entities => Said(e)'
             /\ \A v \in cfg'.verbs[e] : <<"verb", e, v>> \in read'
             /\ \A r \in cfg'.roles[e] : SaidRole(e, r)'
  <2>1. /\ e \in cfg.declared \cup block.declared => <<"entity", e>> \in read
        /\ e \in cfg.entities \cup block.entities => Said(e)
        /\ \A v \in cfg.verbs[e] \cup block.verbs[e] : <<"verb", e, v>> \in read
        /\ \A r \in cfg.roles[e] \cup block.roles[e] : SaidRole(e, r)
    BY DEF ParseInv, SoundInv
  <2>2. (Said(e) => Said(e)') /\ \A r \in Roles : SaidRole(e, r) => SaidRole(e, r)'
    BY DEF Said, SaidRole, Reading
  <2>3. cfg'.roles[e] \subseteq Roles
    BY <1>2, AstFields
  <2> QED
    BY <1>2, <1>3, <2>1, <2>2, <2>3 DEF Reading
<1>6. ASSUME ~repeated', NEW e \in Entities, NEW r \in cfg'.roles[e]
      PROVE  /\ BaseSaidNext(e, r, cfg'.extends[e][r])
             /\ \A v \in Verbs : v \in cfg'.own[e][r] <=> <<"role_verb", e, r, v>> \in read'
  <2>1. ~repeated /\ RolesExact(cfg) /\ RolesExact(block)
    BY <1>6 DEF ParseInv, RolesInv, Reading
  <2>2. r \in Roles /\ r \in cfg.roles[e] \cup block.roles[e]
    BY <1>2, <1>3, AstFields
  <2>3. \A v \in Verbs : <<"role_verb", e, r, v>> \in read' <=> <<"role_verb", e, r, v>> \in read
    BY <1>6, <2>2 DEF Reading
  <2>4. CASE r \in x.roles[e]
    BY <1>2, <1>3, <2>1, <2>2, <2>3, <2>4 DEF RolesExact, BaseSaid, BaseSaidNext, Reading
  <2>5. CASE r \notin x.roles[e]
    BY <1>2, <1>3, <2>1, <2>2, <2>3, <2>5 DEF RolesExact, BaseSaid, BaseSaidNext, Reading
  <2> QED
    BY <2>4, <2>5
<1> QED
  BY <1>2, <1>4, <1>5, <1>6 DEF RolesExact, BaseSaid, BaseSaidNext

(* Nothing is left of a block that is closed or lost. *)
LEMMA DropEmpties ==
  ASSUME Drop
  PROVE  /\ entity' = NULL /\ role' = NULL /\ role_extends' = NULL /\ role_verbs' = {}
         /\ block' \in Ast /\ block'.entities = {} /\ block'.declared = {}
         /\ \A e \in Entities : block'.verbs[e] = {} /\ block'.roles[e] = {}
  BY EmptyFields DEF Drop

(* A failure keeps the invariant. *)
LEMMA FailedKeeps ==
  ASSUME ParseInv, pos \notin {"start", "done"}, Reading, NEW errors, Failed(errors)
  PROVE  ParseInv'
<1>1. PICK x : MergePart(x) /\ cfg' = Combine(cfg, x)
  BY DEF Failed, PartMerged
<1>2. pos' = "done" /\ Drop /\ retval' = retval /\ messages' = messages \cup errors
  BY DEF Failed
<1>3. /\ cfg' \in Ast
      /\ CfgInv'
      /\ \A e \in Entities :
           /\ e \in cfg'.declared => <<"entity", e>> \in read'
           /\ e \in cfg'.entities => Said(e)'
           /\ \A v \in cfg'.verbs[e] : <<"verb", e, v>> \in read'
           /\ \A r \in cfg'.roles[e] : SaidRole(e, r)'
      /\ ~repeated' => RolesExact(cfg)'
  BY <1>1, <1>2, PartKeepsConfig
<1>4. /\ entity' = NULL /\ role' = NULL /\ role_extends' = NULL /\ role_verbs' = {}
      /\ block' \in Ast /\ block'.entities = {} /\ block'.declared = {}
      /\ \A e \in Entities : block'.verbs[e] = {} /\ block'.roles[e] = {}
  BY <1>2, DropEmpties
<1>5. messages = {} /\ retval = 0 /\ reference_count = 2
  BY DEF ParseInv, MessagesInv, CountInv, Silent
<1>6. ~Silent'
  BY <1>2 DEF Failed, Silent
<1>7. TypeOK'
  <2>0. reference_count' \in {1, 2}
    <3>1. reference_count' \in {reference_count - 1, reference_count}
      BY DEF Failed
    <3> QED
      BY <1>5, <3>1
  <2>a. errors \subseteq Messages
    BY DEF Failed
  <2>1. reference_count' \in 0 .. 2 /\ messages' \in SUBSET Messages /\ retval' \in {0, 1}
    BY <1>2, <1>5, <2>0, <2>a
  <2>2. /\ read' \in SUBSET Declarations /\ repeated' \in BOOLEAN
        /\ forgotten' \subseteq Entities \X Roles
    BY DEF Reading
  <2> QED
    BY <1>2, <1>3, <1>4, <2>1, <2>2 DEF TypeOK
<1>8. BlockInv'
  BY <1>4 DEF BlockInv
<1>9. SoundInv'
  BY <1>3, <1>4 DEF SoundInv
<1>10. RolesInv'
  BY <1>2, <1>3, <1>4 DEF RolesInv, RolesExact
<1>11. MessagesInv'
  BY <1>2, <1>5 DEF MessagesInv, Failed
<1>12. CompleteInv' /\ ClashInv' /\ CountInv'
  BY <1>2, <1>6 DEF CompleteInv, ClashInv, CountInv
<1> QED
  BY <1>3, <1>7, <1>8, <1>9, <1>10, <1>11, <1>12 DEF ParseInv, Reading

-----------------------------------------------------------------------------
(* Blocks are opened and filled.  The config does not change, and still    *)
(* has what was said.                                                      *)
LEMMA ConfigKept ==
  ASSUME ParseInv, Reading, UNCHANGED cfg, pos' # "start"
  PROVE  /\ CfgInv'
         /\ \A e \in Entities :
              /\ e \in cfg.declared => <<"entity", e>> \in read'
              /\ e \in cfg.entities => Said(e)'
              /\ \A v \in cfg.verbs[e] : <<"verb", e, v>> \in read'
              /\ \A r \in cfg.roles[e] : SaidRole(e, r)'
         /\ ~repeated' => RolesExact(cfg)'
<1>1. PICK x : MergePart(x) /\ cfg' = Combine(cfg, x)
  BY NothingMerged DEF PartMerged
<1> QED
  BY <1>1, PartKeepsConfig

(* No error so far, in which case what was read is in the trees. *)
LEMMA SilentNow ==
  ASSUME ParseInv, pos # "done"
  PROVE  /\ Silent
         /\ repeated <=> Clash
         /\ repeated \in BOOLEAN
         /\ cfg \in Ast /\ block \in Ast
         /\ \A e \in Entities :
              /\ <<"entity", e>> \in read => e \in cfg.declared \cup block.declared
              /\ Said(e) => e \in cfg.entities \cup block.entities
              /\ \A v \in Verbs : <<"verb", e, v>> \in read => v \in cfg.verbs[e] \cup block.verbs[e]
              /\ \A r \in Roles : SaidRole(e, r) =>
                   r \in cfg.roles[e] \cup block.roles[e] \/ (pos = "role" /\ e = entity /\ r = role)
  BY DEF ParseInv, MessagesInv, ClashInv, CompleteInv, TypeOK

(* Between blocks the block is empty. *)
LEMMA NoBlock ==
  ASSUME ParseInv, pos \in {"start", "top", "done"}
  PROVE  /\ block.entities = {} /\ block.declared = {}
         /\ \A e \in Entities : block.verbs[e] = {} /\ block.roles[e] = {}
  BY DEF ParseInv, BlockInv, TypeOK

(* An `entities' block is opened, *)
LEMMA OpenEntitiesKeeps ==
  ASSUME ParseInv, pos = "top", pos' = "entities",
         entity' = NULL, block' = EmptyAst, UNCHANGED <<role, role_extends, role_verbs>>,
         Reduced, UNCHANGED cfg, UNCHANGED history
  PROVE  ParseInv'
<1>1. /\ read' = read /\ repeated' = repeated /\ forgotten' = forgotten
      /\ reference_count' = reference_count /\ messages' = messages /\ retval' = retval
  BY DEF history, Reduced
<1>2. /\ block' \in Ast /\ block'.entities = {} /\ block'.declared = {}
      /\ \A e \in Entities : block'.verbs[e] = {} /\ block'.roles[e] = {}
  BY EmptyFields
<1>3. /\ block.entities = {} /\ block.declared = {}
      /\ \A e \in Entities : block.verbs[e] = {} /\ block.roles[e] = {}
  BY NoBlock
<1>4. Reading
  BY ReadingUnchanged
<1>5. /\ CfgInv'
      /\ ~repeated' => RolesExact(cfg)'
  BY <1>4, ConfigKept
<1>6. TypeOK'
  BY <1>1, <1>2 DEF ParseInv, TypeOK
<1>7. SoundInv' /\ CompleteInv'
  BY <1>1, <1>2, <1>3 DEF ParseInv, SoundInv, CompleteInv, Silent, Said, SaidRole
<1>8. RolesInv'
  BY <1>2, <1>5 DEF RolesInv, RolesExact
<1>9. ClashInv'
  BY <1>1, <1>2, SilentNow DEF ClashInv, Clash
<1>10. BlockInv' /\ MessagesInv' /\ CountInv'
  BY <1>1, <1>2 DEF ParseInv, BlockInv, MessagesInv, CountInv, Silent
<1> QED
  BY <1>4, <1>5, <1>6, <1>7, <1>8, <1>9, <1>10 DEF ParseInv, Reading

(* or a block for an entity, *)
LEMMA OpenBlockKeeps ==
  ASSUME ParseInv, pos = "top", NEW kind \in {"verbs", "roles"}, NEW e \in Entities,
         pos' = kind, entity' = e, block' = [EmptyAst EXCEPT !.entities = {e}],
         UNCHANGED <<role, role_extends, role_verbs>>,
         Reduced, UNCHANGED cfg, Read(<<"for", e>>)
  PROVE  ParseInv'
<1>1. reference_count' = reference_count /\ messages' = messages /\ retval' = retval
  BY DEF Reduced
<1>2. /\ block' \in Ast /\ block'.entities = {e} /\ block'.declared = {}
      /\ \A f \in Entities : block'.verbs[f] = {} /\ block'.roles[f] = {}
  BY EmptyFields DEF EmptyAst, Ast
<1>3. /\ block.entities = {} /\ block.declared = {}
      /\ \A f \in Entities : block.verbs[f] = {} /\ block.roles[f] = {}
  BY NoBlock
<1>4. Reading
  BY ReadingFor
<1>5. /\ CfgInv'
      /\ \A f \in Entities :
           /\ f \in cfg.declared => <<"entity", f>> \in read'
           /\ f \in cfg.entities => Said(f)'
           /\ \A v \in cfg.verbs[f] : <<"verb", f, v>> \in read'
           /\ \A r \in cfg.roles[f] : SaidRole(f, r)'
      /\ ~repeated' => RolesExact(cfg)'
  BY <1>4, ConfigKept
<1>6. /\ \A f \in Entities : <<"entity", f>> \in read' <=> <<"entity", f>> \in read
      /\ \A f \in Entities : <<"for", f>> \in read' <=> <<"for", f>> \in read \/ f = e
      /\ \A f \in Entities, w \in Verbs : <<"verb", f, w>> \in read' <=> <<"verb", f, w>> \in read
      /\ \A f \in Entities, s \in Roles, c \in RoleNames :
           <<"role", f, s, c>> \in read' <=> <<"role", f, s, c>> \in read
  BY ReadsFor DEF ParseInv
<1>7. repeated' <=> repeated
  BY ReadsFor DEF ParseInv
<1>8. TypeOK'
  BY <1>1, <1>2, <1>4 DEF ParseInv, TypeOK, Reading
<1>9. SoundInv'
  <2>1. Said(e)'
    BY <1>6 DEF Said
  <2> QED
    BY <1>2, <1>5, <2>1 DEF SoundInv
<1>10. CompleteInv'
  <2>1. ASSUME NEW f \in Entities
        PROVE  /\ <<"entity", f>> \in read' => f \in cfg.declared
               /\ Said(f)' => f \in cfg.entities \cup {e}
               /\ \A v \in Verbs : <<"verb", f, v>> \in read' => v \in cfg.verbs[f]
               /\ \A r \in Roles : SaidRole(f, r)' => r \in cfg.roles[f]
    BY <1>3, <1>6, SilentNow DEF Said, SaidRole
  <2> QED
    BY <1>2, <2>1 DEF CompleteInv
<1>11. RolesInv'
  BY <1>2, <1>5 DEF RolesInv, RolesExact
<1>12. ClashInv'
  BY <1>2, <1>7, SilentNow DEF ClashInv, Clash
<1>13. BlockInv' /\ MessagesInv' /\ CountInv'
  BY <1>1, <1>2, <1>7 DEF ParseInv, BlockInv, MessagesInv, CountInv, Silent
<1> QED
  BY <1>4, <1>5, <1>8, <1>9, <1>10, <1>11, <1>12, <1>13 DEF ParseInv, Reading

(* an entity is declared, *)
LEMMA AddEntityKeeps ==
  ASSUME ParseInv, pos = "entities", UNCHANGED pos, NEW e \in Entities, e \notin block.entities,
         block' = [block EXCEPT !.entities = @ \cup {e}, !.declared = @ \cup {e}],
         UNCHANGED <<entity, role, role_extends, role_verbs>>,
         Reduced, UNCHANGED cfg, Read(<<"entity", e>>)
  PROVE  ParseInv'
<1>1. reference_count' = reference_count /\ messages' = messages /\ retval' = retval
  BY DEF Reduced
<1>2. block \in Ast /\ block.declared = block.entities
  BY DEF ParseInv, TypeOK
<1>3. \A f \in Entities : block.verbs[f] = {} /\ block.roles[f] = {}
  BY DEF ParseInv, BlockInv
<1>a. /\ block' \in Ast
      /\ block'.entities = block.entities \cup {e} /\ block'.declared = block.entities \cup {e}
      /\ \A f \in Entities : block'.verbs[f] = {} /\ block'.roles[f] = {}
  BY <1>2, <1>3 DEF Ast
<1>4. Reading
  BY ReadingEntity
<1>5. /\ CfgInv'
      /\ \A f \in Entities :
           /\ f \in cfg.declared => <<"entity", f>> \in read'
           /\ f \in cfg.entities => Said(f)'
           /\ \A v \in cfg.verbs[f] : <<"verb", f, v>> \in read'
           /\ \A r \in cfg.roles[f] : SaidRole(f, r)'
      /\ ~repeated' => RolesExact(cfg)'
  BY <1>4, ConfigKept
<1>6. /\ \A f \in Entities : <<"entity", f>> \in read' <=> <<"entity", f>> \in read \/ f = e
      /\ \A f \in Entities : <<"for", f>> \in read' <=> <<"for", f>> \in read
      /\ \A f \in Entities, w \in Verbs : <<"verb", f, w>> \in read' <=> <<"verb", f, w>> \in read
      /\ \A f \in Entities, s \in Roles, c \in RoleNames :
           <<"role", f, s, c>> \in read' <=> <<"role", f, s, c>> \in read
  BY ReadsEntity DEF ParseInv
<1>7. repeated' <=> repeated \/ Said(e)
  BY ReadsEntity DEF ParseInv
<1>8. TypeOK'
  BY <1>1, <1>a, <1>4 DEF ParseInv, TypeOK, Reading
<1>9. SoundInv'
  <2>1. ASSUME NEW f \in block.entities \cup {e}
        PROVE  <<"entity", f>> \in read' /\ Said(f)'
    <3>1. f \in Entities
      BY <1>2, AstFields
    <3> QED
      BY <1>2, <1>6, <2>1, <3>1 DEF Said, ParseInv, SoundInv
  <2> QED
    BY <1>a, <1>5, <2>1 DEF SoundInv
<1>10. CompleteInv'
  <2>1. ASSUME NEW f \in Entities
        PROVE  /\ <<"entity", f>> \in read' => f \in cfg.declared \cup block.entities \cup {e}
               /\ Said(f)' => f \in cfg.entities \cup block.entities \cup {e}
               /\ \A v \in Verbs : <<"verb", f, v>> \in read' => v \in cfg.verbs[f]
               /\ \A r \in Roles : SaidRole(f, r)' => r \in cfg.roles[f]
    BY <1>2, <1>3, <1>6, SilentNow DEF Said, SaidRole
  <2> QED
    BY <1>a, <2>1 DEF CompleteInv
<1>11. RolesInv'
  BY <1>a, <1>5 DEF RolesInv, RolesExact
<1>12. ClashInv'
  <2>1. repeated <=> block.entities \cap cfg.entities # {}
    BY SilentNow DEF Clash
  <2>2. Said(e) <=> e \in cfg.entities
    BY SilentNow DEF ParseInv, SoundInv
  <2>3. Clash' <=> (block.entities \cup {e}) \cap cfg.entities # {}
    BY <1>a DEF Clash
  <2> QED
    BY <1>7, <2>1, <2>2, <2>3 DEF ClashInv
<1>13. BlockInv' /\ MessagesInv' /\ CountInv'
  BY <1>1, <1>a, <1>7 DEF ParseInv, BlockInv, MessagesInv, CountInv, Silent
<1> QED
  BY <1>4, <1>5, <1>8, <1>9, <1>10, <1>11, <1>12, <1>13 DEF ParseInv, Reading

(* a verb, which the block does not have yet, *)
LEMMA AddVerbKeeps ==
  ASSUME ParseInv, pos = "verbs", UNCHANGED pos, NEW v \in Verbs, v \notin block.verbs[entity],
         block' = [block EXCEPT !.verbs[entity] = @ \cup {v}],
         UNCHANGED <<entity, role, role_extends, role_verbs>>,
         Reduced, UNCHANGED cfg, Read(<<"verb", entity, v>>)
  PROVE  ParseInv'
<1>1. reference_count' = reference_count /\ messages' = messages /\ retval' = retval
  BY DEF Reduced
<1>2. block \in Ast /\ entity \in Entities /\ block.entities = {entity} /\ block.declared = {}
  BY DEF ParseInv, TypeOK
<1>3. \A f \in Entities : (f # entity => block.verbs[f] = {}) /\ block.roles[f] = {}
  BY DEF ParseInv, BlockInv
<1>a. /\ block' \in Ast
      /\ block'.entities = block.entities /\ block'.declared = block.declared
      /\ block'.verbs[entity] = block.verbs[entity] \cup {v}
      /\ \A f \in Entities : (f # entity => block'.verbs[f] = {}) /\ block'.roles[f] = {}
  BY <1>2, <1>3 DEF Ast
<1>4. Reading
  BY <1>2, ReadingVerb
<1>5. /\ CfgInv'
      /\ \A f \in Entities :
           /\ f \in cfg.declared => <<"entity", f>> \in read'
           /\ f \in cfg.entities => Said(f)'
           /\ \A w \in cfg.verbs[f] : <<"verb", f, w>> \in read'
           /\ \A r \in cfg.roles[f] : SaidRole(f, r)'
      /\ ~repeated' => RolesExact(cfg)'
  BY <1>4, ConfigKept
<1>t. TypeOK
  BY DEF ParseInv
<1>6. /\ \A f \in Entities : <<"entity", f>> \in read' <=> <<"entity", f>> \in read
      /\ \A f \in Entities : <<"for", f>> \in read' <=> <<"for", f>> \in read
      /\ \A f \in Entities, w \in Verbs :
           <<"verb", f, w>> \in read' <=> <<"verb", f, w>> \in read \/ (f = entity /\ w = v)
      /\ \A f \in Entities, s \in Roles, c \in RoleNames :
           <<"role", f, s, c>> \in read' <=> <<"role", f, s, c>> \in read
  BY <1>2, <1>t, ReadsVerb
<1>7. repeated' <=> repeated \/ <<"verb", entity, v>> \in read
  BY <1>2, <1>t, ReadsVerb
<1>8. TypeOK'
  BY <1>1, <1>2, <1>a, <1>4, <1>t DEF TypeOK, Reading
<1>9. SoundInv'
  <2>1. ASSUME NEW w \in block.verbs[entity] \cup {v}
        PROVE  <<"verb", entity, w>> \in read'
    BY <1>2, <1>6, <2>1, AstFields DEF ParseInv, SoundInv
  <2>2. Said(entity)'
    BY <1>2, <1>4 DEF Said, ParseInv, SoundInv, Reading
  <2> QED
    BY <1>2, <1>a, <1>5, <2>1, <2>2 DEF SoundInv
<1>10. CompleteInv'
  <2>1. ASSUME NEW f \in Entities
        PROVE  /\ <<"entity", f>> \in read' => f \in cfg.declared
               /\ Said(f)' => f \in cfg.entities \cup block.entities
               /\ \A w \in Verbs : <<"verb", f, w>> \in read' =>
                    w \in cfg.verbs[f] \cup block.verbs[f] \/ (f = entity /\ w = v)
               /\ \A r \in Roles : SaidRole(f, r)' => r \in cfg.roles[f]
    BY <1>2, <1>3, <1>6, SilentNow DEF Said, SaidRole
  <2> QED
    BY <1>2, <1>3, <1>a, <2>1 DEF CompleteInv
<1>11. RolesInv'
  BY <1>a, <1>5 DEF RolesInv, RolesExact
<1>12. ClashInv'
  <2>1. repeated <=> block.verbs[entity] \cap cfg.verbs[entity] # {}
    BY SilentNow DEF Clash
  <2>2. <<"verb", entity, v>> \in read <=> v \in cfg.verbs[entity]
    BY <1>2, SilentNow DEF ParseInv, SoundInv
  <2>3. Clash' <=> (block.verbs[entity] \cup {v}) \cap cfg.verbs[entity] # {}
    BY <1>a DEF Clash
  <2> QED
    BY <1>7, <2>1, <2>2, <2>3 DEF ClashInv
<1>13. BlockInv' /\ MessagesInv' /\ CountInv'
  BY <1>1, <1>a, <1>7 DEF ParseInv, BlockInv, MessagesInv, CountInv, Silent
<1> QED
  BY <1>4, <1>5, <1>8, <1>9, <1>10, <1>11, <1>12, <1>13 DEF ParseInv, Reading

(* a role is opened, *)
LEMMA OpenRoleKeeps ==
  ASSUME ParseInv, pos = "roles", pos' = "role", NEW r \in Roles, NEW b \in RoleNames,
         role' = r, role_extends' = b, role_verbs' = {}, UNCHANGED <<entity, block>>,
         Reduced, UNCHANGED cfg, Read(<<"role", entity, r, b>>)
  PROVE  ParseInv'
<1>1. reference_count' = reference_count /\ messages' = messages /\ retval' = retval
  BY DEF Reduced
<1>2. block \in Ast /\ entity \in Entities /\ block.entities = {entity} /\ block.declared = {}
  BY DEF ParseInv, TypeOK
<1>3. block' = block /\ entity' = entity
  OBVIOUS
<1>4. Reading
  BY <1>2, ReadingRole
<1>5. /\ CfgInv'
      /\ ~repeated' => RolesExact(cfg)'
  BY <1>4, ConfigKept
<1>t. TypeOK
  BY DEF ParseInv
<1>6. /\ \A f \in Entities : <<"entity", f>> \in read' <=> <<"entity", f>> \in read
      /\ \A f \in Entities : <<"for", f>> \in read' <=> <<"for", f>> \in read
      /\ \A f \in Entities, w \in Verbs : <<"verb", f, w>> \in read' <=> <<"verb", f, w>> \in read
      /\ \A f \in Entities, s \in Roles, c \in RoleNames :
           <<"role", f, s, c>> \in read'
             <=> <<"role", f, s, c>> \in read \/ (f = entity /\ s = r /\ c = b)
      /\ \A f \in Entities, s \in Roles, w \in Verbs :
           <<"role_verb", f, s, w>> \in read' <=> <<"role_verb", f, s, w>> \in read
  <2>1. /\ \A f \in Entities : <<"entity", f>> \in read' <=> <<"entity", f>> \in read
        /\ \A f \in Entities : <<"for", f>> \in read' <=> <<"for", f>> \in read
        /\ \A f \in Entities, w \in Verbs : <<"verb", f, w>> \in read' <=> <<"verb", f, w>> \in read
    BY <1>2, <1>t, ReadsRole
  <2>2. \A f \in Entities, s \in Roles, c \in RoleNames :
           <<"role", f, s, c>> \in read'
             <=> <<"role", f, s, c>> \in read \/ (f = entity /\ s = r /\ c = b)
    BY DEF Read
  <2>3. \A f \in Entities, s \in Roles, w \in Verbs :
           <<"role_verb", f, s, w>> \in read' <=> <<"role_verb", f, s, w>> \in read
    BY <1>2, <1>t, ReadsRole
  <2> QED
    BY <2>1, <2>2, <2>3
<1>7. repeated' <=> repeated \/ SaidRole(entity, r)
  BY <1>2, <1>t, ReadsRole
<1>8. TypeOK'
  BY <1>1, <1>2, <1>3, <1>4, <1>t DEF TypeOK, Reading, RoleNames
<1>9. SoundInv'
  BY <1>3, <1>4 DEF ParseInv, SoundInv, Said, SaidRole, Reading
<1>10. CompleteInv'
  <2>1. ASSUME NEW f \in Entities
        PROVE  /\ <<"entity", f>> \in read' => f \in cfg.declared \cup block.declared
               /\ Said(f)' => f \in cfg.entities \cup block.entities
               /\ \A w \in Verbs : <<"verb", f, w>> \in read' => w \in cfg.verbs[f] \cup block.verbs[f]
    BY <1>6, SilentNow DEF Said
  <2>2. ASSUME NEW f \in Entities, NEW s \in Roles, SaidRole(f, s)'
        PROVE  s \in cfg.roles[f] \cup block.roles[f] \/ (f = entity /\ s = r)
    <3>1. SaidRole(f, s) \/ (f = entity /\ s = r)
      BY <1>6, <2>2 DEF SaidRole
    <3> QED
      BY <3>1, SilentNow
  <2> QED
    BY <1>3, <2>1, <2>2 DEF CompleteInv
<1>11. RolesInv'
  <2>1. ~repeated' => RolesExact(block)'
    <3>1. ASSUME ~repeated' PROVE RolesExact(block)
      BY <3>1, <1>4 DEF ParseInv, RolesInv, Reading
    <3>2. ASSUME NEW f \in Entities, NEW s \in block.roles[f], RolesExact(block)
          PROVE  /\ BaseSaidNext(f, s, block.extends[f][s])
                 /\ \A w \in Verbs : w \in block.own[f][s] <=> <<"role_verb", f, s, w>> \in read'
      BY <1>2, <1>4, <1>6, <3>2, AstFields DEF RolesExact, BaseSaid, BaseSaidNext, Reading
    <3> QED
      BY <1>3, <3>1, <3>2 DEF RolesExact, BaseSaid, BaseSaidNext
  <2>2. <<"role", entity, r, b>> \in read'
    BY <1>2, <1>6
  <2>3. ASSUME ~repeated', NEW w \in Verbs
        PROVE  <<"role_verb", entity, r, w>> \notin read'
    BY <1>2, <1>6, <1>7, <2>3 DEF ParseInv, ReadInv
  <2> QED
    BY <1>3, <1>5, <2>1, <2>2, <2>3 DEF RolesInv
<1>12. ClashInv'
  <2>1. repeated <=> block.roles[entity] \cap cfg.roles[entity] # {}
    BY SilentNow DEF Clash
  <2>2. SaidRole(entity, r) <=> r \in cfg.roles[entity] \cup block.roles[entity]
    BY <1>2, SilentNow DEF ParseInv, SoundInv
  <2>3. Clash' <=> \/ block.roles[entity] \cap cfg.roles[entity] # {}
                   \/ r \in cfg.roles[entity] \cup block.roles[entity]
    BY <1>3 DEF Clash
  <2> QED
    BY <1>7, <2>1, <2>2, <2>3 DEF ClashInv
<1>13. BlockInv' /\ MessagesInv' /\ CountInv'
  BY <1>1, <1>3, <1>7 DEF ParseInv, BlockInv, MessagesInv, CountInv, Silent
<1> QED
  BY <1>4, <1>5, <1>8, <1>9, <1>10, <1>11, <1>12, <1>13 DEF ParseInv, Reading

(* a verb of the role, which it does not have yet, *)
LEMMA AddRoleVerbKeeps ==
  ASSUME ParseInv, pos = "role", UNCHANGED pos, NEW v \in Verbs, v \notin role_verbs,
         role_verbs' = role_verbs \cup {v},
         UNCHANGED <<entity, block, role, role_extends>>,
         Reduced, UNCHANGED cfg, Read(<<"role_verb", entity, role, v>>)
  PROVE  ParseInv'
<1>1. reference_count' = reference_count /\ messages' = messages /\ retval' = retval
  BY DEF Reduced
<1>2. /\ block \in Ast /\ entity \in Entities /\ block.entities = {entity} /\ block.declared = {}
      /\ role \in Roles /\ role_extends \in RoleNames /\ role_verbs \subseteq Verbs
  BY DEF ParseInv, TypeOK, RoleNames
<1>3. block' = block /\ entity' = entity /\ role' = role /\ role_extends' = role_extends
  OBVIOUS
<1>4. Reading
  BY ReadingRoleVerb
<1>5. /\ CfgInv'
      /\ ~repeated' => RolesExact(cfg)'
  BY <1>4, ConfigKept
<1>t. TypeOK
  BY DEF ParseInv
<1>6. /\ \A f \in Entities : <<"entity", f>> \in read' <=> <<"entity", f>> \in read
      /\ \A f \in Entities : <<"for", f>> \in read' <=> <<"for", f>> \in read
      /\ \A f \in Entities, w \in Verbs : <<"verb", f, w>> \in read' <=> <<"verb", f, w>> \in read
      /\ \A f \in Entities, s \in Roles, c \in RoleNames :
           <<"role", f, s, c>> \in read' <=> <<"role", f, s, c>> \in read
      /\ \A w \in Verbs : <<"role_verb", entity, role, w>> \in read'
           <=> <<"role_verb", entity, role, w>> \in read \/ w = v
  <2>1. /\ \A f \in Entities : <<"entity", f>> \in read' <=> <<"entity", f>> \in read
        /\ \A f \in Entities : <<"for", f>> \in read' <=> <<"for", f>> \in read
        /\ \A f \in Entities, w \in Verbs : <<"verb", f, w>> \in read' <=> <<"verb", f, w>> \in read
    BY <1>2, <1>t, ReadsRoleVerb
  <2>2. \A f \in Entities, s \in Roles, c \in RoleNames :
           <<"role", f, s, c>> \in read' <=> <<"role", f, s, c>> \in read
    BY <1>2, <1>t, ReadsRoleVerb
  <2>3. \A w \in Verbs : <<"role_verb", entity, role, w>> \in read'
           <=> <<"role_verb", entity, role, w>> \in read \/ w = v
    BY DEF Read
  <2> QED
    BY <2>1, <2>2, <2>3
<1>7. repeated' <=> repeated \/ <<"role_verb", entity, role, v>> \in read
  BY <1>2, <1>t, ReadsRoleVerb
<1>8. TypeOK'
  BY <1>1, <1>2, <1>3, <1>4, <1>t DEF TypeOK, Reading, RoleNames
<1>9. SoundInv'
  BY <1>3, <1>4 DEF ParseInv, SoundInv, Said, SaidRole, Reading
<1>10. CompleteInv'
  <2>1. ASSUME NEW f \in Entities
        PROVE  /\ <<"entity", f>> \in read' => f \in cfg.declared \cup block.declared
               /\ Said(f)' => f \in cfg.entities \cup block.entities
               /\ \A w \in Verbs : <<"verb", f, w>> \in read' => w \in cfg.verbs[f] \cup block.verbs[f]
               /\ \A s \in Roles : SaidRole(f, s)' =>
                    s \in cfg.roles[f] \cup block.roles[f] \/ (f = entity /\ s = role)
    BY <1>6, SilentNow DEF Said, SaidRole
  <2> QED
    BY <1>3, <2>1 DEF CompleteInv
<1>r. ~repeated' => /\ ~repeated
                    /\ <<"role_verb", entity, role, v>> \notin read
  BY <1>7
<1>11. RolesInv'
  <2>1. ~repeated' => RolesExact(block)'
    <3>1. ASSUME ~repeated' PROVE RolesExact(block)
      BY <3>1, <1>r DEF ParseInv, RolesInv
    <3>2. ASSUME ~repeated', NEW f \in Entities, NEW s \in block.roles[f]
          PROVE  /\ BaseSaidNext(f, s, block.extends[f][s])
                 /\ \A w \in Verbs : w \in block.own[f][s] <=> <<"role_verb", f, s, w>> \in read'
      BY <1>2, <1>4, <3>1, <3>2, AstFields DEF RolesExact, BaseSaid, BaseSaidNext, Reading
    <3> QED
      BY <1>3, <3>2 DEF RolesExact, BaseSaid, BaseSaidNext
  <2>2. <<"role", entity, role, role_extends>> \in read'
    BY <1>2, <1>6 DEF ParseInv, RolesInv
  <2>3. \A w \in role_verbs \cup {v} : <<"role_verb", entity, role, w>> \in read'
    BY <1>2, <1>6 DEF ParseInv, RolesInv
  <2>4. ASSUME ~repeated', NEW w \in Verbs, <<"role_verb", entity, role, w>> \in read'
        PROVE  w \in role_verbs \cup {v}
    BY <1>6, <1>r, <2>4 DEF ParseInv, RolesInv
  <2> QED
    BY <1>3, <1>5, <2>1, <2>2, <2>3, <2>4 DEF RolesInv
<1>12. ClashInv'
  <2>1. repeated <=> Clash
    BY SilentNow
  <2>2. Clash' <=> Clash
    BY <1>3 DEF Clash
  <2>3. ~repeated => <<"role_verb", entity, role, v>> \notin read
    BY DEF ParseInv, RolesInv
  <2> QED
    BY <1>7, <2>1, <2>2, <2>3 DEF ClashInv
<1>13. BlockInv' /\ MessagesInv' /\ CountInv'
  BY <1>1, <1>3, <1>7 DEF ParseInv, BlockInv, MessagesInv, CountInv, Silent
<1> QED
  BY <1>4, <1>5, <1>8, <1>9, <1>10, <1>11, <1>12, <1>13 DEF ParseInv, Reading

(* and the role is added to the block, which does not have it yet. *)
LEMMA AddRoleKeeps ==
  ASSUME ParseInv, pos = "role", pos' = "roles", role \notin block.roles[entity],
         NEW base \in {role_extends, NULL},
         block' = [block EXCEPT !.roles[entity] = @ \cup {role},
                                !.extends[entity][role] = base,
                                !.own[entity][role] = role_verbs],
         role' = NULL, role_extends' = NULL, role_verbs' = {}, UNCHANGED entity,
         Reduced, UNCHANGED <<cfg, read, repeated>>,
         forgotten' = forgotten \cup (IF base = role_extends THEN {} ELSE {<<entity, role>>})
  PROVE  ParseInv'
<1>1. /\ read' = read /\ repeated' = repeated /\ cfg' = cfg
      /\ reference_count' = reference_count /\ messages' = messages /\ retval' = retval
  BY DEF Reduced
<1>2. /\ block \in Ast /\ entity \in Entities /\ block.entities = {entity} /\ block.declared = {}
      /\ base \in RoleNames /\ forgotten \subseteq Entities \X Roles
      /\ role \in Roles /\ role_extends \in RoleNames /\ role_verbs \in SUBSET Verbs
  BY DEF ParseInv, TypeOK, RoleNames
<1>3. \A f \in Entities : block.verbs[f] = {} /\ (f # entity => block.roles[f] = {})
  BY DEF ParseInv, BlockInv
<1>a. /\ block' \in Ast /\ block'.entities = block.entities /\ block'.declared = block.declared
      /\ \A f \in Entities : block'.verbs[f] = block.verbs[f]
      /\ block'.roles[entity] = block.roles[entity] \cup {role}
      /\ \A f \in Entities \ {entity} : block'.roles[f] = block.roles[f]
      /\ block'.extends[entity][role] = base /\ block'.own[entity][role] = role_verbs
      /\ \A f \in Entities, s \in Roles : f # entity \/ s # role =>
           block'.extends[f][s] = block.extends[f][s] /\ block'.own[f][s] = block.own[f][s]
  BY <1>2 DEF Ast, RoleNames
<1>b. forgotten \subseteq forgotten' /\ forgotten' \subseteq Entities \X Roles
  BY <1>2
<1>4. Reading
  BY <1>1, <1>b, ReadingNothing
<1>5. /\ CfgInv'
      /\ ~repeated' => RolesExact(cfg)'
  BY <1>1, <1>4, ConfigKept
<1>t. TypeOK
  BY DEF ParseInv
<1>8. TypeOK'
  BY <1>1, <1>2, <1>a, <1>b, <1>t DEF TypeOK
<1>s. SaidRole(entity, role)
  BY <1>2 DEF ParseInv, RolesInv, SaidRole
<1>9. SoundInv'
  BY <1>1, <1>2, <1>a, <1>s DEF ParseInv, SoundInv, Said, SaidRole
<1>10. CompleteInv'
  <2>1. ASSUME NEW f \in Entities
        PROVE  /\ <<"entity", f>> \in read => f \in cfg.declared \cup block.declared
               /\ Said(f) => f \in cfg.entities \cup block.entities
               /\ \A w \in Verbs : <<"verb", f, w>> \in read => w \in cfg.verbs[f] \cup block.verbs[f]
               /\ \A s \in Roles : SaidRole(f, s) =>
                    s \in cfg.roles[f] \cup block.roles[f] \/ (f = entity /\ s = role)
    BY SilentNow
  <2>2. \A f \in Entities : /\ Said(f)' <=> Said(f)
                           /\ \A s \in Roles : SaidRole(f, s)' <=> SaidRole(f, s)
    BY <1>1 DEF Said, SaidRole
  <2>3. ASSUME NEW f \in Entities
        PROVE  /\ (<<"entity", f>> \in read)' => f \in cfg'.declared \cup block'.declared
               /\ Said(f)' => f \in cfg'.entities \cup block'.entities
               /\ \A w \in Verbs : (<<"verb", f, w>> \in read)' => w \in cfg'.verbs[f] \cup block'.verbs[f]
               /\ \A s \in Roles : SaidRole(f, s)' => s \in cfg'.roles[f] \cup block'.roles[f]
    <3>1. \A s \in Roles : SaidRole(f, s)' => s \in cfg'.roles[f] \cup block'.roles[f]
      BY <1>2, <1>a, <2>1, <2>2
    <3> QED
      BY <1>1, <1>a, <2>1, <2>2, <3>1
  <2> QED
    BY <2>3 DEF CompleteInv
<1>11. RolesInv'
  <2>1. ASSUME ~repeated', NEW f \in Entities, NEW s \in block'.roles[f]
        PROVE  /\ BaseSaidNext(f, s, block'.extends[f][s])
               /\ \A w \in Verbs : w \in block'.own[f][s] <=> <<"role_verb", f, s, w>> \in read'
    <3>0. ~repeated
      BY <1>1, <2>1
    <3>1. CASE f = entity /\ s = role
      <4>1. BaseSaidNext(entity, role, base)
        <5>1. CASE base = role_extends
          BY <1>1, <5>1 DEF ParseInv, RolesInv, BaseSaidNext
        <5>2. CASE base # role_extends
          BY <1>2, <5>2 DEF BaseSaidNext
        <5> QED
          BY <5>1, <5>2
      <4> QED
        BY <1>1, <1>a, <3>0, <3>1, <4>1 DEF ParseInv, RolesInv
    <3>2. CASE ~(f = entity /\ s = role)
      <4>1. s \in block.roles[f] /\ s \in Roles
        BY <1>2, <1>a, <2>1, <3>2, AstFields
      <4>2. block'.extends[f][s] = block.extends[f][s] /\ block'.own[f][s] = block.own[f][s]
        BY <1>a, <3>2, <4>1
      <4>3. RolesExact(block)
        BY <3>0 DEF ParseInv, RolesInv
      <4> QED
        BY <1>1, <1>b, <4>1, <4>2, <4>3 DEF RolesExact, BaseSaid, BaseSaidNext
    <3> QED
      BY <3>1, <3>2
  <2>2. ~repeated' => RolesExact(block)'
    BY <2>1 DEF RolesExact, BaseSaid, BaseSaidNext
  <2> QED
    BY <1>5, <2>2 DEF RolesInv
<1>12. ClashInv'
  <2>1. repeated <=> \/ block.roles[entity] \cap cfg.roles[entity] # {}
                     \/ role \in cfg.roles[entity]
    BY SilentNow DEF Clash
  <2>2. Clash' <=> (block.roles[entity] \cup {role}) \cap cfg.roles[entity] # {}
    BY <1>a DEF Clash
  <2> QED
    BY <1>1, <2>1, <2>2 DEF ClashInv
<1>13. BlockInv' /\ MessagesInv' /\ CountInv'
  BY <1>1, <1>2, <1>3, <1>a DEF ParseInv, BlockInv, MessagesInv, CountInv, Silent
<1> QED
  BY <1>4, <1>5, <1>8, <1>9, <1>10, <1>11, <1>12, <1>13 DEF ParseInv, Reading

-----------------------------------------------------------------------------
(* A block that is merged is in the config, all of it. *)
LEMMA MergedKeeps ==
  ASSUME ParseInv, pos \in {"entities", "verbs", "roles"}, ~Clash, Merged, UNCHANGED history
  PROVE  ParseInv'
<1>1. /\ read' = read /\ repeated' = repeated /\ forgotten' = forgotten /\ pos' = "top" /\ cfg' = Combine(cfg, block)
      /\ reference_count' = reference_count /\ messages' = messages /\ retval' = retval
  BY DEF history, Merged, Reduced
<1>2. Silent /\ ~repeated /\ cfg \in Ast /\ block \in Ast
  BY SilentNow
<1>3. /\ entity' = NULL /\ role' = NULL /\ role_extends' = NULL /\ role_verbs' = {}
      /\ block' \in Ast /\ block'.entities = {} /\ block'.declared = {}
      /\ \A e \in Entities : block'.verbs[e] = {} /\ block'.roles[e] = {}
  BY DropEmpties DEF Merged
<1>4. Reading
  BY ReadingUnchanged
<1>5. /\ cfg' \in Ast
      /\ CfgInv'
      /\ \A e \in Entities :
           /\ e \in cfg'.declared => <<"entity", e>> \in read'
           /\ e \in cfg'.entities => Said(e)'
           /\ \A v \in cfg'.verbs[e] : <<"verb", e, v>> \in read'
           /\ \A r \in cfg'.roles[e] : SaidRole(e, r)'
      /\ ~repeated' => RolesExact(cfg)'
  BY <1>1, <1>4, BlockIsPart, PartKeepsConfig
<1>6. /\ cfg'.entities = cfg.entities \cup block.entities
      /\ cfg'.declared = cfg.declared \cup block.declared
      /\ \A e \in Entities :
           /\ cfg'.verbs[e] = cfg.verbs[e] \cup block.verbs[e]
           /\ cfg'.roles[e] = cfg.roles[e] \cup block.roles[e]
  BY <1>1, <1>2, CombineFields
<1>7. TypeOK'
  BY <1>1, <1>3, <1>5 DEF ParseInv, TypeOK
<1>8. SoundInv'
  BY <1>3, <1>5 DEF SoundInv
<1>9. CompleteInv'
  <2>1. \A e \in Entities : /\ Said(e)' <=> Said(e)
                            /\ \A r \in Roles : SaidRole(e, r)' <=> SaidRole(e, r)
    BY <1>1 DEF Said, SaidRole
  <2> QED
    BY <1>1, <1>6, <2>1, SilentNow DEF CompleteInv
<1>10. RolesInv'
  BY <1>1, <1>3, <1>5 DEF RolesInv, RolesExact
<1>11. ClashInv'
  BY <1>1, <1>2 DEF ClashInv, Clash
<1>12. BlockInv' /\ MessagesInv' /\ CountInv'
  BY <1>1, <1>3 DEF ParseInv, BlockInv, MessagesInv, CountInv, Silent
<1> QED
  BY <1>4, <1>5, <1>7, <1>8, <1>9, <1>10, <1>11, <1>12 DEF ParseInv, Reading

(* At first there is nothing, *)
LEMMA ParseInit ==
  ASSUME Init
  PROVE  ParseInv
<1>1. TypeOK
  <2>1. reference_count \in 0 .. 2 /\ messages \in SUBSET Messages /\ read \in SUBSET Declarations
    BY DEF Init
  <2>2. block \in Ast /\ cfg \in Ast /\ block.declared = {} /\ pos = "start"
    BY EmptyFields DEF Init
  <2> QED
    BY <2>1, <2>2 DEF Init, TypeOK
<1>2. BlockInv /\ CfgInv /\ SoundInv
  BY EmptyFields DEF Init, BlockInv, CfgInv, SoundInv
<1>3. CompleteInv /\ RolesInv /\ ClashInv
  BY EmptyFields
     DEF Init, CompleteInv, RolesInv, RolesExact, ClashInv, Clash, Said, SaidRole
<1>4. ReadInv /\ MessagesInv /\ CountInv
  BY FS_EmptySet DEF Init, ReadInv, MessagesInv, CountInv, Silent
<1> QED
  BY <1>1, <1>2, <1>3, <1>4 DEF ParseInv

(* and then a config with nothing in it, or no memory for one, or no       *)
(* scanner.                                                                *)
Started ==
  /\ pos = "start" /\ UNCHANGED <<values, cfg, history>>
  /\ \/ pos' = "top" /\ reference_count' = 2 /\ UNCHANGED <<messages, retval>>
     \/ /\ pos' = "done" /\ UNCHANGED reference_count
        /\ \/ messages' = messages \cup {<<"out of memory">>} /\ UNCHANGED retval
           \/ UNCHANGED messages /\ retval' = 1

(* Either way the config is what the file says so far: nothing. *)
LEMMA StartKeeps ==
  ASSUME ParseInv, Started
  PROVE  ParseInv'
<1>1. /\ read' = read /\ repeated' = repeated /\ forgotten' = forgotten /\ cfg' = cfg /\ block' = block
      /\ entity' = entity /\ role' = role
      /\ role_extends' = role_extends /\ role_verbs' = role_verbs
      /\ pos' \in {"top", "done"}
  BY DEF Started, history, values
<1>2. /\ cfg = EmptyAst /\ read = {} /\ ~repeated
      /\ messages = {} /\ retval = 0 /\ reference_count = 0
  BY DEF Started, ParseInv, CfgInv, MessagesInv, CountInv, Silent
<1>3. /\ block.entities = {} /\ block.declared = {}
      /\ \A e \in Entities : block.verbs[e] = {} /\ block.roles[e] = {}
  BY NoBlock DEF Started
<1>4. messages' \subseteq {<<"out of memory">>} /\ IsFiniteSet(messages')
  <2>1. messages' \in {{}, {<<"out of memory">>}}
    BY <1>2 DEF Started
  <2>2. IsFiniteSet({}) /\ IsFiniteSet({<<"out of memory">>})
    BY FS_EmptySet, FS_Singleton
  <2> QED
    BY <2>1, <2>2
<1>5. TypeOK'
  <2>0. reference_count' = 0 \/ reference_count' = 2
    BY <1>2 DEF Started
  <2>1. reference_count' \in 0 .. 2
    BY <2>0
  <2>3. retval' \in {0, 1}
    BY <1>2 DEF Started
  <2>2. messages' \in SUBSET Messages
    BY <1>4, MessageTypes
  <2> QED
    BY <1>1, <1>3, <2>1, <2>2, <2>3 DEF ParseInv, TypeOK
<1>6. CfgInv'
  <2>1. cfg' = EmptyAst
    BY <1>1, <1>2
  <2>2. ASSUME NEW e \in Entities
        PROVE  /\ cfg'.verbs[e] = {} /\ cfg'.roles[e] = {}
               /\ \A r \in Roles : cfg'.extends[e][r] = NULL /\ cfg'.own[e][r] = {}
    <3>1. /\ EmptyAst.verbs[e] = {} /\ EmptyAst.roles[e] = {}
          /\ \A r \in Roles : EmptyAst.extends[e][r] = NULL /\ EmptyAst.own[e][r] = {}
      BY EmptyFields
    <3> QED
      BY <2>1, <3>1
  <2> QED
    BY <1>1, <2>2 DEF CfgInv
<1>7. BlockInv' /\ SoundInv'
  BY <1>1, <1>2, <1>3, EmptyFields DEF BlockInv, SoundInv
<1>8. CompleteInv' /\ ClashInv' /\ RolesInv'
  BY <1>1, <1>2, <1>3, EmptyFields
     DEF Started, CompleteInv, RolesInv, RolesExact, ClashInv, Clash, Said, SaidRole
<1>9. ReadInv' /\ MessagesInv' /\ CountInv'
  BY <1>1, <1>2, <1>4 DEF Started, ReadInv, MessagesInv, CountInv, Silent
<1> QED
  BY <1>5, <1>6, <1>7, <1>8, <1>9 DEF ParseInv

(* At the end of the input nothing is left of the last block, *)
LEMMA EndOfInputKeeps ==
  ASSUME ParseInv, EndOfInput
  PROVE  ParseInv'
<1>1. /\ pos = "top" /\ pos' = "done" /\ reference_count' = reference_count - 1
      /\ read' = read /\ repeated' = repeated /\ forgotten' = forgotten /\ cfg' = cfg /\ block' = block
      /\ entity' = entity /\ role' = role
      /\ role_extends' = role_extends /\ role_verbs' = role_verbs
      /\ messages' = messages /\ retval' = retval
  BY DEF EndOfInput, Accept, history, values
<1>2. TypeOK'
  <2>1. reference_count' \in 0 .. 2
    BY <1>1 DEF ParseInv, CountInv
  <2> QED
    BY <1>1, <2>1 DEF ParseInv, TypeOK
<1>3. Reading
  BY ReadingUnchanged DEF EndOfInput
<1>4. BlockInv' /\ CfgInv' /\ SoundInv'
  BY <1>1, NoBlock DEF ParseInv, BlockInv, CfgInv, SoundInv, Said, SaidRole
<1>5. CompleteInv' /\ RolesInv'
  BY <1>1 DEF ParseInv, CompleteInv, RolesInv, RolesExact, BaseSaid, Silent, Said, SaidRole
<1>6. ClashInv' /\ MessagesInv' /\ CountInv'
  BY <1>1 DEF ParseInv, ClashInv, Clash, MessagesInv, CountInv, Silent
<1> QED
  BY <1>2, <1>3, <1>4, <1>5, <1>6 DEF ParseInv, Reading

(* and a token that the grammar does not allow says nothing more.          *)
LEMMA SyntaxErrorKeeps ==
  ASSUME ParseInv, SyntaxError
  PROVE  ParseInv'
<1>1. /\ pos' = "done" /\ pos \notin {"start", "done"}
      /\ reference_count' = reference_count - 1 /\ retval' = 1
      /\ messages' = messages \cup {<<"syntax error">>}
      /\ read' = read /\ repeated' = repeated /\ forgotten' = forgotten /\ cfg' = cfg
  BY DEF SyntaxError, history
<1>2. /\ entity' = NULL /\ role' = NULL /\ role_extends' = NULL /\ role_verbs' = {}
      /\ block' \in Ast /\ block'.entities = {} /\ block'.declared = {}
      /\ \A e \in Entities : block'.verbs[e] = {} /\ block'.roles[e] = {}
  BY DropEmpties DEF SyntaxError
<1>3. Reading
  BY ReadingUnchanged DEF SyntaxError
<1>4. /\ CfgInv'
      /\ \A e \in Entities :
           /\ e \in cfg.declared => <<"entity", e>> \in read'
           /\ e \in cfg.entities => Said(e)'
           /\ \A v \in cfg.verbs[e] : <<"verb", e, v>> \in read'
           /\ \A r \in cfg.roles[e] : SaidRole(e, r)'
      /\ ~repeated' => RolesExact(cfg)'
  BY <1>1, <1>3, ConfigKept
<1>5. messages = {}
  BY <1>1 DEF ParseInv, MessagesInv, Silent
<1>6. TypeOK'
  <2>0. reference_count = 2
    BY <1>1 DEF ParseInv, CountInv
  <2>a. reference_count' = reference_count - 1
    BY <1>1
  <2>1. reference_count' \in 0 .. 2
    BY <2>0, <2>a
  <2>2. messages' \in SUBSET Messages
    BY <1>1, <1>5, MessageTypes
  <2> QED
    BY <1>1, <1>2, <2>1, <2>2 DEF ParseInv, TypeOK
<1>7. SoundInv' /\ BlockInv'
  BY <1>1, <1>2, <1>4 DEF SoundInv, BlockInv
<1>8. RolesInv'
  BY <1>1, <1>2, <1>4 DEF RolesInv, RolesExact
<1>9. CompleteInv' /\ ClashInv' /\ CountInv'
  BY <1>1 DEF CompleteInv, ClashInv, CountInv, Silent
<1>10. MessagesInv'
  <2>1. messages' = {<<"syntax error">>}
    BY <1>1, <1>5
  <2>2. IsFiniteSet({<<"syntax error">>})
    BY FS_Singleton
  <2> QED
    BY <1>1, <2>1, <2>2 DEF MessagesInv
<1> QED
  BY <1>3, <1>4, <1>6, <1>7, <1>8, <1>9, <1>10 DEF ParseInv, Reading

-----------------------------------------------------------------------------
(* Each step of the parser. *)

(* A want of memory keeps the invariant, wherever it is met outside a      *)
(* merge,                                                                  *)
LEMMA NoMemoryKeeps ==
  ASSUME ParseInv, pos \notin {"start", "done"}, Reading, UNCHANGED cfg,
         NEW top \in BOOLEAN, NoMemory(top)
  PROVE  ParseInv'
<1>1. Failed({<<"out of memory">>})
  BY NothingMerged, NoMemoryFails
<1> QED
  BY <1>1, FailedKeeps

(* and so does a duplicate.                                                *)
LEMMA DuplicateKeeps ==
  ASSUME ParseInv, pos \notin {"start", "done"}, Reading, UNCHANGED cfg, repeated',
         NEW m \in Messages, m # <<"syntax error">>, Fail(FALSE, {m})
  PROVE  ParseInv'
<1>1. {m} \cup {} = {m}
  OBVIOUS
<1>2. Failed({m} \cup {})
  BY <1>1, NothingMerged, DuplicateFails
<1> QED
  BY <1>2, FailedKeeps

(* A block is opened. *)
LEMMA OpenKeeps ==
  ASSUME ParseInv, OpenEntities \/ \E e \in Entities : OpenVerbs(e) \/ OpenRoles(e)
  PROVE  ParseInv'
<1>1. CASE OpenEntities
  <2>1. pos = "top" /\ UNCHANGED cfg /\ UNCHANGED history
    BY <1>1 DEF OpenEntities, Open
  <2>2. CASE NoMemory(FALSE)
    BY <2>1, <2>2, ReadingUnchanged, NoMemoryKeeps
  <2>3. CASE ~NoMemory(FALSE)
    <3>1. /\ pos' = "entities" /\ entity' = NULL /\ block' = EmptyAst
          /\ UNCHANGED <<role, role_extends, role_verbs>> /\ Reduced
      BY <1>1, <2>3 DEF OpenEntities, Open
    <3> QED
      BY <2>1, <3>1, OpenEntitiesKeeps
  <2> QED
    BY <2>2, <2>3
<1>2. ASSUME NEW e \in Entities, NEW kind \in {"verbs", "roles"},
             Open(kind, e, [EmptyAst EXCEPT !.entities = {e}]), Read(<<"for", e>>)
      PROVE  ParseInv'
  <2>1. pos = "top" /\ UNCHANGED cfg
    BY <1>2 DEF Open
  <2>2. CASE NoMemory(FALSE)
    BY <1>2, <2>1, <2>2, ReadingFor, NoMemoryKeeps
  <2>3. CASE ~NoMemory(FALSE)
    <3>1. /\ pos' = kind /\ entity' = e /\ block' = [EmptyAst EXCEPT !.entities = {e}]
          /\ UNCHANGED <<role, role_extends, role_verbs>> /\ Reduced
      BY <1>2, <2>3 DEF Open
    <3> QED
      BY <1>2, <2>1, <3>1, OpenBlockKeeps
  <2> QED
    BY <2>2, <2>3
<1>3. ASSUME NEW e \in Entities, OpenVerbs(e)
      PROVE  ParseInv'
  BY <1>2, <1>3 DEF OpenVerbs
<1>4. ASSUME NEW e \in Entities, OpenRoles(e)
      PROVE  ParseInv'
  BY <1>2, <1>4 DEF OpenRoles
<1> QED
  BY <1>1, <1>3, <1>4

(* An entity is declared. *)
LEMMA EntityKeeps ==
  ASSUME ParseInv, NEW e \in Entities, AddEntity(e)
  PROVE  ParseInv'
<1>1. pos = "entities" /\ Read(<<"entity", e>>) /\ UNCHANGED cfg
  BY DEF AddEntity
<1>2. CASE NoMemory(FALSE)
  BY <1>1, <1>2, ReadingEntity, NoMemoryKeeps
<1>3. CASE ~NoMemory(FALSE)
  <2>1. /\ e \notin block.entities /\ UNCHANGED pos
        /\ block' = [block EXCEPT !.entities = @ \cup {e}, !.declared = @ \cup {e}]
        /\ UNCHANGED <<entity, role, role_extends, role_verbs>> /\ Reduced
    BY <1>3 DEF AddEntity
  <2> QED
    BY <1>1, <2>1, AddEntityKeeps
<1> QED
  BY <1>2, <1>3

(* A verb is declared. *)
LEMMA VerbKeeps ==
  ASSUME ParseInv, NEW v \in Verbs, AddVerb(v)
  PROVE  ParseInv'
<1>1. /\ pos = "verbs" /\ Read(<<"verb", entity, v>>) /\ UNCHANGED cfg
      /\ entity \in Entities /\ TypeOK
  BY DEF AddVerb, ParseInv, TypeOK
<1>2. Reading
  BY <1>1, ReadingVerb
<1>3. CASE NoMemory(FALSE)
  BY <1>1, <1>2, <1>3, NoMemoryKeeps
<1>4. CASE v \in block.verbs[entity] /\ Fail(FALSE, {<<"duplicate verb", v>>})
  <2>1. repeated'
    <3>1. <<"verb", entity, v>> \in read
      BY <1>1, <1>4 DEF ParseInv, SoundInv
    <3> QED
      BY <1>1, <3>1, ReadsVerb
  <2>2. <<"duplicate verb", v>> \in Messages /\ <<"duplicate verb", v>> # <<"syntax error">>
    BY MessageTypes, MessagesDiffer
  <2> QED
    BY <1>1, <1>2, <1>4, <2>1, <2>2, DuplicateKeeps
<1>5. CASE /\ v \notin block.verbs[entity] /\ UNCHANGED pos
           /\ block' = [block EXCEPT !.verbs[entity] = @ \cup {v}]
           /\ UNCHANGED <<entity, role, role_extends, role_verbs>> /\ Reduced
  BY <1>1, <1>5, AddVerbKeeps
<1> QED
  BY <1>3, <1>4, <1>5 DEF AddVerb

(* A role is read. *)
LEMMA RoleKeeps ==
  ASSUME ParseInv, NEW r \in Roles, NEW b \in RoleNames, OpenRole(r, b)
  PROVE  ParseInv'
<1>1. /\ pos = "roles" /\ Read(<<"role", entity, r, b>>) /\ UNCHANGED cfg
      /\ entity \in Entities
  BY DEF OpenRole, ParseInv, TypeOK
<1>2. Reading
  BY <1>1, ReadingRole
<1>3. CASE NoMemory(FALSE)
  BY <1>1, <1>2, <1>3, NoMemoryKeeps
<1>4. CASE /\ pos' = "role" /\ role' = r /\ role_extends' = b /\ role_verbs' = {}
           /\ UNCHANGED <<entity, block>> /\ Reduced
  BY <1>1, <1>4, OpenRoleKeeps
<1> QED
  BY <1>3, <1>4 DEF OpenRole

(* A verb of a role is read. *)
LEMMA RoleVerbKeeps ==
  ASSUME ParseInv, NEW v \in Verbs, AddRoleVerb(v)
  PROVE  ParseInv'
<1>1. /\ pos = "role" /\ Read(<<"role_verb", entity, role, v>>) /\ UNCHANGED cfg
      /\ entity \in Entities /\ role \in Roles /\ TypeOK
  BY DEF AddRoleVerb, ParseInv, TypeOK
<1>2. Reading
  BY <1>1, ReadingRoleVerb
<1>3. CASE NoMemory(FALSE)
  BY <1>1, <1>2, <1>3, NoMemoryKeeps
<1>4. CASE v \in role_verbs /\ Fail(FALSE, {<<"duplicate verb", v>>})
  <2>1. repeated'
    <3>1. <<"role_verb", entity, role, v>> \in read
      BY <1>1, <1>4 DEF ParseInv, RolesInv
    <3> QED
      BY <1>1, <3>1, ReadsRoleVerb
  <2>2. <<"duplicate verb", v>> \in Messages /\ <<"duplicate verb", v>> # <<"syntax error">>
    BY MessageTypes, MessagesDiffer
  <2> QED
    BY <1>1, <1>2, <1>4, <2>1, <2>2, DuplicateKeeps
<1>5. CASE /\ v \notin role_verbs /\ UNCHANGED pos /\ role_verbs' = role_verbs \cup {v}
           /\ UNCHANGED <<entity, block, role, role_extends>> /\ Reduced
  BY <1>1, <1>5, AddRoleVerbKeeps
<1> QED
  BY <1>3, <1>4, <1>5 DEF AddRoleVerb

(* A role is added to its block. *)
LEMMA RoleIsAdded ==
  ASSUME ParseInv, AddRole
  PROVE  ParseInv'
<1>1. /\ pos = "role" /\ cfg' = cfg /\ read' = read /\ repeated' = repeated
      /\ entity \in Entities /\ role \in Roles /\ forgotten \subseteq Entities \X Roles
  BY DEF AddRole, ParseInv, TypeOK
<1>2. ASSUME UNCHANGED forgotten
      PROVE  Reading
  BY <1>1, <1>2, ReadingNothing
<1>3. CASE NoMemory(FALSE) /\ UNCHANGED forgotten
  BY <1>1, <1>2, <1>3, NoMemoryKeeps
<1>4. CASE /\ role \in block.roles[entity] /\ Fail(FALSE, {<<"duplicate role", role>>})
           /\ UNCHANGED forgotten
  <2>1. repeated'
    BY <1>1, <1>4, SilentNow DEF Clash
  <2>2. <<"duplicate role", role>> \in Messages /\ <<"duplicate role", role>> # <<"syntax error">>
    BY <1>1, MessageTypes, MessagesDiffer
  <2> QED
    BY <1>1, <1>2, <1>4, <2>1, <2>2, DuplicateKeeps
<1>5. ASSUME NEW base \in {role_extends, NULL},
             /\ role \notin block.roles[entity] /\ pos' = "roles"
             /\ block' = [block EXCEPT !.roles[entity] = @ \cup {role},
                                       !.extends[entity][role] = base,
                                       !.own[entity][role] = role_verbs]
             /\ forgotten' = forgotten \cup (IF base = role_extends THEN {} ELSE {<<entity, role>>})
             /\ role' = NULL /\ role_extends' = NULL /\ role_verbs' = {}
             /\ UNCHANGED entity /\ Reduced
      PROVE  ParseInv'
  BY <1>1, <1>5, AddRoleKeeps
<1> QED
  BY <1>3, <1>4, <1>5 DEF AddRole

(* A block is closed. *)
LEMMA CloseKeeps ==
  ASSUME ParseInv, CloseEntities \/ CloseVerbs \/ CloseRoles
  PROVE  ParseInv'
<1>1. UNCHANGED history /\ pos \in {"entities", "verbs", "roles"}
  BY DEF CloseEntities, CloseVerbs, CloseRoles
<1>2. (~Clash /\ Merged) \/ \E errors : Failed(errors)
  BY CloseEntitiesMerges, CloseVerbsMerges, CloseRolesMerges
<1>3. Reading
  BY <1>1, ReadingUnchanged
<1> QED
  BY <1>1, <1>2, <1>3, MergedKeeps, FailedKeeps

(* Every step of the parser keeps the invariant. *)
LEMMA ParseNextKeeps ==
  ASSUME ParseInv, ParseNext
  PROVE  ParseInv'
<1>1. CASE NewConfig
  <2>1. Started
    BY <1>1 DEF NewConfig, Started
  <2> QED
    BY <2>1, StartKeeps
<1>2. CASE EndOfInput \/ SyntaxError
  BY <1>2, EndOfInputKeeps, SyntaxErrorKeeps
<1>3. CASE OpenEntities \/ \E e \in Entities : OpenVerbs(e) \/ OpenRoles(e)
  BY <1>3, OpenKeeps
<1>4. CASE CloseEntities \/ CloseVerbs \/ CloseRoles
  BY <1>4, CloseKeeps
<1>5. CASE AddRole
  BY <1>5, RoleIsAdded
<1>6. CASE \E e \in Entities : AddEntity(e)
  BY <1>6, EntityKeeps
<1>7. CASE \E r \in Roles, b \in Roles \cup {NULL} : OpenRole(r, b)
  BY <1>7, RoleKeeps DEF RoleNames
<1>8. CASE \E v \in Verbs : AddVerb(v) \/ AddRoleVerb(v)
  BY <1>8, VerbKeeps, RoleVerbKeeps
<1> QED
  BY <1>1, <1>2, <1>3, <1>4, <1>5, <1>6, <1>7, <1>8 DEF ParseNext

(* What a step of the parser does to the messages and to the count: as     *)
(* long as it goes on there are no messages, and if it ends without one,   *)
(* or with that about the syntax, the stack's reference is given back.     *)
LEMMA ParseNextCounts ==
  ASSUME ParseInv, ParseNext, ParseInv'
  PROVE  /\ pos # "done" /\ pos' # "start"
         /\ messages = {}
         /\ pos = "start" =>
              \/ pos' = "top" /\ reference_count' = 2
              \/ /\ pos' = "done" /\ reference_count' = 0
                 /\ ~(messages' \subseteq {<<"syntax error">>})
         /\ pos # "start" =>
              /\ reference_count' \in {1, 2}
              /\ messages' \subseteq {<<"syntax error">>} /\ pos' = "done" => reference_count' = 1
<1>1. (pos # "done" => messages = {}) /\ (pos = "start" => reference_count = 0)
      /\ (pos \notin {"start", "done"} => reference_count = 2)
  BY DEF ParseInv, MessagesInv, CountInv, Silent
<1>2. pos' \notin {"start", "done"} => reference_count' = 2
  BY DEF ParseInv, CountInv
<1>3. CASE NewConfig
  <2>1. /\ pos = "start"
        /\ \/ pos' = "top" /\ reference_count' = 2
           \/ /\ pos' = "done" /\ messages' = messages \cup {<<"out of memory">>}
              /\ reference_count' = reference_count
    BY <1>3 DEF NewConfig
  <2>2. CASE pos' = "top"
    BY <1>1, <2>1, <2>2
  <2>3. CASE pos' = "done"
    <3>1. messages' = messages \cup {<<"out of memory">>} /\ reference_count' = reference_count
      BY <2>1, <2>3
    <3>2. ~(messages' \subseteq {<<"syntax error">>})
      BY <3>1, MessagesDiffer
    <3> QED
      BY <1>1, <2>1, <2>3, <3>1, <3>2
  <2> QED
    BY <2>1, <2>2, <2>3
<1>4. CASE EndOfInput \/ SyntaxError
  <2>1. pos' = "done" /\ pos \notin {"start", "done"} /\ reference_count' = reference_count - 1
    BY <1>4 DEF EndOfInput, SyntaxError, Accept
  <2>2. reference_count' = 1
    BY <1>1, <2>1
  <2> QED
    BY <1>1, <2>1, <2>2
<1>5. ASSUME pos \notin {"start", "done"}, pos' \notin {"start", "done"}
      PROVE  /\ messages = {}
             /\ reference_count' \in {1, 2}
  BY <1>1, <1>2, <1>5
<1>6. ASSUME pos \notin {"start", "done"}, pos' = "done", NEW m \in messages', m # <<"syntax error">>,
             \/ reference_count' = reference_count - 1
             \/ reference_count' = reference_count
      PROVE  /\ messages = {} /\ pos' # "start" /\ reference_count' \in {1, 2}
             /\ ~(messages' \subseteq {<<"syntax error">>})
  <2>1. reference_count = 2 /\ messages = {}
    BY <1>1, <1>6
  <2>2. reference_count' \in {1, 2}
    <3>1. reference_count' = reference_count - 1 => reference_count' = 1
      BY <2>1
    <3>2. reference_count' = reference_count => reference_count' = 2
      BY <2>1
    <3> QED
      BY <1>6, <3>1, <3>2
  <2> QED
    BY <1>6, <2>1, <2>2
<1>7. ASSUME NEW top \in BOOLEAN, NEW errors, Fail(top, errors), NEW m \in errors,
             m # <<"syntax error">>
      PROVE  /\ pos' = "done" /\ m \in messages'
             /\ \/ reference_count' = reference_count - 1
                \/ reference_count' = reference_count
  BY <1>7 DEF Fail, Accept
<1>8. ASSUME NEW top \in BOOLEAN, NoMemory(top)
      PROVE  /\ pos' = "done" /\ <<"out of memory">> \in messages'
             /\ \/ reference_count' = reference_count - 1
                \/ reference_count' = reference_count
  BY <1>7, <1>8, MessagesDiffer DEF NoMemory
<1> DEFINE Ended == /\ pos' = "done"
                    /\ \E m \in messages' : m # <<"syntax error">>
                    /\ \/ reference_count' = reference_count - 1
                       \/ reference_count' = reference_count
<1>9. ASSUME NEW top \in BOOLEAN, NoMemory(top)
      PROVE  Ended
  BY <1>8, <1>9, MessagesDiffer
<1>10. CASE OpenEntities \/ \E e \in Entities : OpenVerbs(e) \/ OpenRoles(e)
  <2>1. pos = "top" /\ (pos' \in {"entities", "verbs", "roles"} \/ NoMemory(FALSE))
    BY <1>10 DEF OpenEntities, OpenVerbs, OpenRoles, Open
  <2> QED
    BY <1>5, <1>6, <1>9, <2>1
<1>11. CASE \E e \in Entities : AddEntity(e)
  <2>1. pos = "entities" /\ (pos' = pos \/ NoMemory(FALSE))
    BY <1>11 DEF AddEntity
  <2> QED
    BY <1>5, <1>6, <1>9, <2>1
<1>12. CASE \E v \in Verbs : AddVerb(v) \/ AddRoleVerb(v)
  <2>1. PICK v \in Verbs : AddVerb(v) \/ AddRoleVerb(v)
    BY <1>12
  <2>2. /\ pos \in {"verbs", "role"}
        /\ \/ pos' = pos
           \/ NoMemory(FALSE)
           \/ Fail(FALSE, {<<"duplicate verb", v>>})
    BY <2>1 DEF AddVerb, AddRoleVerb
  <2>3. CASE Fail(FALSE, {<<"duplicate verb", v>>})
    BY <1>6, <1>7, <2>2, <2>3, MessagesDiffer
  <2> QED
    BY <1>5, <1>6, <1>9, <2>2, <2>3
<1>13. CASE \E r \in Roles, b \in Roles \cup {NULL} : OpenRole(r, b)
  <2>1. pos = "roles" /\ (pos' = "role" \/ NoMemory(FALSE))
    BY <1>13 DEF OpenRole
  <2> QED
    BY <1>5, <1>6, <1>9, <2>1
<1>14. CASE AddRole
  <2>1. /\ pos = "role"
        /\ \/ pos' = "roles"
           \/ NoMemory(FALSE)
           \/ Fail(FALSE, {<<"duplicate role", role>>})
    BY <1>14 DEF AddRole
  <2>2. role \in Roles
    BY <2>1 DEF ParseInv, TypeOK
  <2>3. CASE Fail(FALSE, {<<"duplicate role", role>>})
    BY <1>6, <1>7, <2>1, <2>2, <2>3, MessagesDiffer
  <2> QED
    BY <1>5, <1>6, <1>9, <2>1, <2>3
<1>15. CASE CloseEntities \/ CloseVerbs \/ CloseRoles
  <2>1. pos \in {"entities", "verbs", "roles"}
    BY <1>15 DEF CloseEntities, CloseVerbs, CloseRoles
  <2>2. (~Clash /\ Merged) \/ \E errors : Failed(errors)
    BY <1>15, CloseEntitiesMerges, CloseVerbsMerges, CloseRolesMerges
  <2>3. CASE Merged
    BY <1>5, <2>1, <2>3 DEF Merged
  <2>4. ASSUME NEW errors, Failed(errors)
        PROVE  Ended
    BY <2>4 DEF Failed
  <2> QED
    BY <1>6, <2>1, <2>2, <2>3, <2>4
<1> QED
  BY <1>3, <1>4, <1>10, <1>11, <1>12, <1>13, <1>14, <1>15 DEF ParseNext

(* No step of the parser changes what is in the config. *)
LEMMA ParseNextStays ==
  ASSUME ParseInv, ParseNext
  PROVE  Stays
<1>1. CASE CloseEntities \/ CloseVerbs \/ CloseRoles
  <2>1. pos \in {"entities", "verbs", "roles"}
    BY <1>1 DEF CloseEntities, CloseVerbs, CloseRoles
  <2>2. (~Clash /\ Merged) \/ \E errors : Failed(errors)
    BY <1>1, CloseEntitiesMerges, CloseVerbsMerges, CloseRolesMerges
  <2>3. PartMerged
    BY <2>1, <2>2, BlockIsPart DEF Failed, Merged, PartMerged
  <2> QED
    BY <2>3, PartMergedStays DEF PartMerged, ParseInv, TypeOK
<1>2. CASE ~(CloseEntities \/ CloseVerbs \/ CloseRoles)
  <2>1. UNCHANGED cfg
    BY <1>2 DEF ParseNext, NewConfig, EndOfInput, SyntaxError, OpenEntities, OpenVerbs,
                OpenRoles, Open, AddEntity, AddVerb, OpenRole, AddRoleVerb, AddRole
  <2> QED
    BY <2>1, AstFields DEF Stays, ParseInv, TypeOK
<1> QED
  BY <1>1, <1>2

-----------------------------------------------------------------------------
(* The context. *)

(* The order that a set of messages is put in. *)
LEMMA SetAsSequence ==
  ASSUME NEW S, IsFiniteSet(S)
  PROVE  SetToSeq(S) \in Seq(S)
<1> DEFINE n == Cardinality(S)
<1>1. n \in Nat /\ ExistsBijection(1 .. n, S)
  BY FS_CardinalityType
<1>2. \E f \in [1 .. n -> S] : IsInjective(f)
  BY <1>1 DEF ExistsBijection, Bijection, Injection
<1>3. SetToSeq(S) \in [1 .. n -> S]
  BY <1>2 DEF SetToSeq
<1> QED
  BY <1>1, <1>3

(* The list that new messages are appended to has only messages. *)
LEMMA SetErrorAppends ==
  ASSUME NEW new, IsFiniteSet(new), NEW S, NEW T, new \subseteq T, S \subseteq T,
         error_list \in Seq(S), SetError(new)
  PROVE  error_list' \in Seq(T)
<1>1. PICK kept \in SUBSET new : error_list' = error_list \o MessageNodes(kept)
  BY DEF SetError
<1> DEFINE general == kept \cap {<<"error merging">>}
<1>2. IsFiniteSet(kept \ general) /\ IsFiniteSet(general)
  BY FS_Subset
<1>3. SetToSeq(kept \ general) \in Seq(kept \ general) /\ SetToSeq(general) \in Seq(general)
  BY <1>2, SetAsSequence
<1>4. kept \ general \subseteq T /\ general \subseteq T
  OBVIOUS
<1> HIDE DEF general
<1>5. ASSUME NEW U, U \subseteq T, NEW s \in Seq(U)
      PROVE  s \in Seq(T)
  BY <1>5
<1>6. /\ SetToSeq(kept \ general) \in Seq(T) /\ SetToSeq(general) \in Seq(T)
      /\ error_list \in Seq(T)
  BY <1>3, <1>4, <1>5
<1>7. MessageNodes(kept) = SetToSeq(kept \ general) \o SetToSeq(general)
  BY DEF MessageNodes, general
<1> QED
  BY <1>1, <1>6, <1>7

(* The config's count changes when the context is released, and nothing    *)
(* else of the parse.                                                      *)
LEMMA CountKeeps ==
  ASSUME ParseInv, UNCHANGED <<pos, values, cfg, messages, retval, history>>,
         reference_count' \in 0 .. 2,
         reference_count' = reference_count \/ pos = "done"
  PROVE  ParseInv'
<1>1. /\ pos' = pos /\ cfg' = cfg /\ messages' = messages /\ retval' = retval
      /\ entity' = entity /\ block' = block /\ role' = role
      /\ role_extends' = role_extends /\ role_verbs' = role_verbs
      /\ read' = read /\ repeated' = repeated /\ forgotten' = forgotten
  BY DEF values, history
<1>2. TypeOK'
  BY <1>1 DEF ParseInv, TypeOK
<1>3. ReadInv' /\ BlockInv' /\ CfgInv' /\ SoundInv'
  BY <1>1 DEF ParseInv, ReadInv, BlockInv, CfgInv, SoundInv, Said, SaidRole
<1>4. CompleteInv' /\ RolesInv'
  BY <1>1 DEF ParseInv, CompleteInv, RolesInv, RolesExact, BaseSaid, Silent, Said, SaidRole
<1>5. ClashInv' /\ MessagesInv'
  BY <1>1 DEF ParseInv, ClashInv, Clash, MessagesInv, Silent
<1>6. CountInv'
  BY <1>1 DEF ParseInv, CountInv
<1> QED
  BY <1>2, <1>3, <1>4, <1>5, <1>6 DEF ParseInv

(* The count is never more than two. *)
LEMMA CountValues ==
  ASSUME ParseInv
  PROVE  /\ reference_count = 0 \/ reference_count = 1 \/ reference_count = 2
         /\ pos = "start" => reference_count = 0
         /\ pos \notin {"start", "done"} => reference_count = 2
<1>1. reference_count \in 0 .. 2
  BY DEF ParseInv, TypeOK
<1>2. reference_count = 0 \/ reference_count = 1 \/ reference_count = 2
  BY <1>1
<1> QED
  BY <1>2 DEF ParseInv, CountInv

(* At first there is no context. *)
LEMMA CtxInitial ==
  ASSUME CtxInit
  PROVE  ParseInv /\ CtxInv
<1>1. ParseInv
  BY ParseInit DEF CtxInit
<1>2. pos = "start" /\ reference_count = 0
  BY DEF CtxInit, Init
<1>3. /\ ctx_pc = "create user" /\ live = {} /\ hooked = FALSE /\ root = FALSE
      /\ error_list = << >>
  BY DEF CtxInit
<1>4. LiveInv
  BY <1>3 DEF LiveInv, Steps, Whole
<1>5. ListInv
  <2>0. << >> \in Seq(messages)
    OBVIOUS
  <2>1. error_list \in Seq(messages)
    BY <1>3, <2>0
  <2> QED
    BY <1>2, <1>3, <2>1 DEF ListInv, Whole
<1>6. RootInv
  BY <1>2, <1>3 DEF RootInv, Whole
<1> QED
  BY <1>1, <1>4, <1>5, <1>6 DEF CtxInv

(* The creation of the context, which is undone when it fails. *)
LEMMA CreateKeeps ==
  ASSUME ParseInv, CtxInv, CreateUser \/ CreateList \/ CreateContext
  PROVE  ParseInv' /\ CtxInv'
<1>1. ctx_pc \in {"create user", "create list", "create context"}
  BY DEF CreateUser, CreateList, CreateContext, Create
<1>2. pos = "start" /\ error_list = << >> /\ reference_count = 0 /\ root = FALSE
  <2>1. pos = "start" /\ error_list = << >>
    BY <1>1 DEF CtxInv, ListInv, Whole
  <2>2. reference_count = 0
    BY <2>1, CountValues
  <2> QED
    BY <1>1, <2>1, <2>2 DEF CtxInv, RootInv
<1>3. /\ ctx_pc = "create user" => live = {}
      /\ ctx_pc = "create list" => live = {"user"}
      /\ ctx_pc = "create context" => live = {"user", "list"}
      /\ hooked = FALSE
  BY <1>1 DEF CtxInv, LiveInv, Whole
<1>4. /\ UNCHANGED <<pos, values, cfg, messages, retval, history>>
      /\ reference_count' = 0 /\ root' = FALSE /\ error_list' = << >>
  <2>1. /\ UNCHANGED <<pos, values, cfg, messages, retval, history>>
        /\ reference_count' = reference_count /\ root' = root /\ error_list' = << >>
    BY <1>2 DEF CreateUser, CreateList, CreateContext, Create, ReleaseUser, vars
  <2> QED
    BY <1>2, <2>1
<1>5. \/ ctx_pc' = "create list" /\ live' = {"user"} /\ hooked' = FALSE
      \/ ctx_pc' = "create context" /\ live' = {"user", "list"} /\ hooked' = FALSE
      \/ ctx_pc' = "parse" /\ live' = {"user", "list", "context"} /\ hooked' = TRUE
      \/ ctx_pc' = "done" /\ live' = {} /\ hooked' = FALSE
  BY <1>1, <1>3 DEF CreateUser, CreateList, CreateContext, Create, ReleaseUser
<1>6. ParseInv'
  <2>1. reference_count' \in 0 .. 2 /\ reference_count' = reference_count
    BY <1>2, <1>4
  <2> QED
    BY <1>4, <2>1, CountKeeps
<1>7. LiveInv'
  BY <1>5 DEF LiveInv, Steps, Whole
<1>8. ListInv'
  <2>1. error_list' \in Seq(messages')
    BY <1>4
  <2> QED
    BY <1>2, <1>4, <1>5, <2>1 DEF ListInv, Whole
<1>9. RootInv'
  <2>1. reference_count' = 0 /\ reference_count' # 2
    BY <1>4
  <2>2. root' = FALSE /\ root' \in BOOLEAN
    BY <1>4
  <2> QED
    BY <2>1, <2>2 DEF RootInv
<1> QED
  BY <1>6, <1>7, <1>8, <1>9 DEF CtxInv

(* A step of the parse. *)
LEMMA ParseKeeps ==
  ASSUME ParseInv, CtxInv, Parse
  PROVE  ParseInv' /\ CtxInv'
<1>1. /\ ctx_pc = "parse" /\ ParseNext /\ SetError(messages' \ messages)
      /\ root' = (root \/ (pos = "start" /\ pos' = "top"))
      /\ ctx_pc' = ctx_pc /\ live' = live /\ hooked' = hooked
  BY DEF Parse
<1>2. ParseInv'
  BY <1>1, ParseNextKeeps
<1>3. /\ pos # "done" /\ pos' # "start"
      /\ messages = {}
      /\ pos = "start" =>
           \/ pos' = "top" /\ reference_count' = 2
           \/ /\ pos' = "done" /\ reference_count' = 0
              /\ ~(messages' \subseteq {<<"syntax error">>})
      /\ pos # "start" =>
           /\ reference_count' \in {1, 2}
           /\ messages' \subseteq {<<"syntax error">>} /\ pos' = "done" => reference_count' = 1
  BY <1>1, <1>2, ParseNextCounts
<1>4. error_list' \in Seq(messages')
  <2>1. IsFiniteSet(messages' \ messages)
    BY <1>2, FS_Subset DEF ParseInv, MessagesInv
  <2>2. error_list \in Seq(messages)
    BY DEF CtxInv, ListInv
  <2> QED
    BY <1>1, <1>3, <2>1, <2>2, SetErrorAppends
<1>5. /\ root' \in BOOLEAN /\ (root' <=> reference_count' # 0)
      /\ messages' \subseteq {<<"syntax error">>} /\ pos' = "done" => reference_count' # 2
  <2>1. root \in BOOLEAN /\ (root <=> reference_count # 0)
    BY <1>1 DEF CtxInv, RootInv
  <2>2. CASE pos = "start"
    <3>1. root = FALSE
      BY <2>1, <2>2, CountValues
    <3>2. root' = (pos' = "top")
      BY <1>1, <2>2, <3>1
    <3>3. CASE pos' = "top" /\ reference_count' = 2
      <4>1. reference_count' # 0
        BY <3>3
      <4>2. root' = TRUE
        BY <3>2, <3>3
      <4>3. pos' # "done"
        BY <3>3
      <4> QED
        BY <4>1, <4>2, <4>3
    <3>4. CASE /\ pos' = "done" /\ reference_count' = 0
               /\ ~(messages' \subseteq {<<"syntax error">>})
      BY <3>2, <3>4
    <3> QED
      BY <1>3, <2>2, <3>3, <3>4
  <2>3. CASE pos # "start"
    <3>1. root = TRUE
      <4>1. reference_count = 2
        BY <1>3, <2>3, CountValues
      <4>2. reference_count # 0
        BY <4>1
      <4> QED
        BY <2>1, <4>2
    <3>2. root' = TRUE
      BY <1>1, <3>1
    <3>a. /\ reference_count' \in {1, 2}
          /\ messages' \subseteq {<<"syntax error">>} /\ pos' = "done" => reference_count' = 1
      BY <1>3, <2>3
    <3>3. /\ reference_count' # 0
          /\ messages' \subseteq {<<"syntax error">>} /\ pos' = "done" => reference_count' # 2
      <4>1. reference_count' = 1 => reference_count' # 2
        OBVIOUS
      <4>a. (reference_count' = 1 => reference_count' # 0) /\ (reference_count' = 2 => reference_count' # 0)
        OBVIOUS
      <4>2. reference_count' # 0
        BY <3>a, <4>a
      <4> QED
        BY <3>a, <4>1, <4>2
    <3> QED
      BY <3>2, <3>3
  <2> QED
    BY <2>2, <2>3
<1>6. LiveInv'
  BY <1>1 DEF CtxInv, LiveInv
<1>7. ListInv'
  BY <1>1, <1>4 DEF ListInv, Whole
<1>8. RootInv'
  BY <1>1, <1>5 DEF RootInv
<1> QED
  BY <1>2, <1>6, <1>7, <1>8 DEF CtxInv

(* A parse that gets no scanner, and the root that is asked for after one. *)
LEMMA AfterParseKeeps ==
  ASSUME ParseInv, CtxInv, NoScanner \/ NoName \/ GetRoot
  PROVE  ParseInv' /\ CtxInv'
<1>1. CASE NoScanner
  <2>1. Started
    BY <1>1 DEF NoScanner, Started
  <2>2. ParseInv'
    BY <2>1, StartKeeps
  <2>3. /\ ctx_pc = "parse" /\ pos = "start" /\ pos' = "done"
        /\ reference_count' = reference_count /\ messages' = messages
        /\ ctx_pc' = ctx_pc /\ live' = live /\ hooked' = hooked /\ root' = root
        /\ error_list' = error_list
    BY <1>1 DEF NoScanner
  <2>4. reference_count = 0
    BY <2>3, CountValues
  <2>5. LiveInv'
    BY <2>3 DEF CtxInv, LiveInv
  <2>6. ListInv'
    BY <2>3 DEF CtxInv, ListInv
  <2>7. RootInv'
    BY <2>3, <2>4 DEF CtxInv, RootInv
  <2> QED
    BY <2>2, <2>5, <2>6, <2>7 DEF CtxInv
<1>2. CASE GetRoot
  <2>1. /\ ctx_pc = "parse" /\ pos = "done" /\ ctx_pc' \in {"crashed", "release user"}
        /\ vars' = vars /\ live' = live /\ hooked' = hooked /\ root' = root
        /\ error_list' = error_list
    BY <1>2 DEF GetRoot, Done
  <2>2. /\ UNCHANGED <<pos, values, cfg, messages, retval, history>>
        /\ reference_count' = reference_count
    BY <2>1 DEF vars
  <2>3. ParseInv'
    BY <2>2, CountKeeps DEF ParseInv, TypeOK
  <2>4. LiveInv'
    BY <2>1 DEF CtxInv, LiveInv, Whole, Steps
  <2>5. ListInv'
    BY <2>1, <2>2 DEF CtxInv, ListInv, Whole
  <2>6. RootInv'
    BY <2>1, <2>2 DEF CtxInv, RootInv, Whole
  <2> QED
    BY <2>3, <2>4, <2>5, <2>6 DEF CtxInv
<1>3. CASE NoName
  <2>1. /\ ctx_pc = "parse" /\ pos # "done" /\ ctx_pc' = "crashed"
        /\ vars' = vars /\ live' = live /\ hooked' = hooked /\ root' = root
        /\ error_list' = error_list
    BY <1>3 DEF NoName
  <2>2. /\ UNCHANGED <<pos, values, cfg, messages, retval, history>>
        /\ reference_count' = reference_count
    BY <2>1 DEF vars
  <2>3. ParseInv'
    BY <2>2, CountKeeps DEF ParseInv, TypeOK
  <2>4. LiveInv'
    BY <2>1 DEF CtxInv, LiveInv, Whole, Steps
  <2>5. ListInv'
    BY <2>1, <2>2 DEF CtxInv, ListInv, Whole
  <2>6. RootInv'
    BY <2>1, <2>2 DEF CtxInv, RootInv, Whole
  <2> QED
    BY <2>3, <2>4, <2>5, <2>6 DEF CtxInv
<1> QED
  BY <1>1, <1>2, <1>3

(* The release of the context. *)
LEMMA ReleaseKeeps ==
  ASSUME ParseInv, CtxInv, ReleaseWrapped \/ ReleaseContext
  PROVE  ParseInv' /\ CtxInv'
<1>1. CASE ReleaseWrapped
  <2>1. /\ ctx_pc = "release user" /\ ctx_pc' = "release context" /\ hooked' = FALSE
        /\ root' = root /\ hooked /\ ReleaseUser
    BY <1>1 DEF ReleaseWrapped, CtxInv, LiveInv, Whole
  <2>2. /\ UNCHANGED <<pos, values, cfg, messages, retval, history>>
        /\ live' = live \ {"list", "user"} /\ error_list' = << >>
        /\ reference_count' = IF root THEN reference_count - 1 ELSE reference_count
    BY <2>1 DEF ReleaseUser
  <2>3. /\ pos = "done" /\ root \in BOOLEAN
        /\ (root <=> reference_count # 0)
        /\ messages \subseteq {<<"syntax error">>} => reference_count # 2
    BY <2>1 DEF CtxInv, ListInv, RootInv, Whole
  <2>4. \/ reference_count = 0 /\ reference_count' = 0
        \/ reference_count = 1 /\ reference_count' = 0
        \/ reference_count = 2 /\ reference_count' = 1
    <3>1. CASE reference_count = 0
      <4>1. ~root
        BY <2>3, <3>1
      <4> QED
        BY <2>2, <3>1, <4>1
    <3>2. CASE reference_count = 1
      <4>1. root
        BY <2>3, <3>2
      <4>2. reference_count' = 1 - 1
        BY <2>2, <3>2, <4>1
      <4> QED
        BY <3>2, <4>2
    <3>3. CASE reference_count = 2
      <4>1. root
        <5>1. reference_count # 0
          BY <3>3
        <5> QED
          BY <2>3, <5>1
      <4>2. reference_count' = 2 - 1
        BY <2>2, <3>3, <4>1
      <4> QED
        BY <3>3, <4>2
    <3> QED
      BY <3>1, <3>2, <3>3, CountValues
  <2>5. ParseInv'
    <3>1. reference_count' \in 0 .. 2
      BY <2>4
    <3> QED
      BY <2>2, <2>3, <3>1, CountKeeps
  <2>6. live' = {"context"}
    BY <2>1, <2>2 DEF CtxInv, LiveInv, Whole
  <2>7. LiveInv'
    BY <2>1, <2>6 DEF LiveInv, Whole, Steps
  <2>8. ListInv'
    <3>1. error_list' \in Seq(messages')
      BY <2>2
    <3> QED
      BY <2>1, <2>2, <3>1 DEF ListInv, Whole
  <2>9. RootInv'
    <3>1. /\ reference_count' # 2
          /\ messages' \subseteq {<<"syntax error">>} => reference_count' = 0
      <4>1. reference_count' = 0 \/ reference_count' = 1
        BY <2>4
      <4>2. reference_count' # 2
        BY <4>1
      <4>3. reference_count # 2 => reference_count' = 0
        BY <2>4
      <4> QED
        BY <2>2, <2>3, <4>2, <4>3
    <3>2. root' \in BOOLEAN
      BY <2>1, <2>3
    <3> QED
      BY <2>1, <3>1, <3>2 DEF RootInv, Whole
  <2> QED
    BY <2>5, <2>7, <2>8, <2>9 DEF CtxInv
<1>2. CASE ReleaseContext
  <2>1. /\ ctx_pc = "release context" /\ ctx_pc' = "done" /\ live' = live \ {"context"}
        /\ vars' = vars /\ hooked' = hooked /\ root' = root /\ error_list' = error_list
    BY <1>2 DEF ReleaseContext
  <2>2. /\ UNCHANGED <<pos, values, cfg, messages, retval, history>>
        /\ reference_count' = reference_count
    BY <2>1 DEF vars
  <2>3. ParseInv'
    BY <2>2, CountKeeps DEF ParseInv, TypeOK
  <2>4. LiveInv'
    BY <2>1 DEF CtxInv, LiveInv, Whole, Steps
  <2>5. ListInv'
    BY <2>1, <2>2 DEF CtxInv, ListInv, Whole
  <2>6. RootInv'
    BY <2>1, <2>2 DEF CtxInv, RootInv, Whole
  <2> QED
    BY <2>3, <2>4, <2>5, <2>6 DEF CtxInv
<1> QED
  BY <1>1, <1>2

(* When nothing happens nothing changes. *)
LEMMA StutterKeeps ==
  ASSUME ParseInv, CtxInv, UNCHANGED ctxVars
  PROVE  ParseInv' /\ CtxInv'
<1>1. /\ UNCHANGED <<pos, values, cfg, messages, retval, history>>
      /\ reference_count' = reference_count
  BY DEF ctxVars, vars
<1>2. UNCHANGED <<ctx_pc, live, hooked, root, error_list>>
  BY DEF ctxVars
<1>3. ParseInv'
  BY <1>1, CountKeeps DEF ParseInv, TypeOK
<1>4. CtxInv'
  BY <1>1, <1>2 DEF CtxInv, LiveInv, ListInv, RootInv
<1> QED
  BY <1>3, <1>4

(* The context and the parser keep their invariant. *)
LEMMA CtxNextKeeps ==
  ASSUME ParseInv, CtxInv, [CtxNext]_ctxVars
  PROVE  ParseInv' /\ CtxInv'
<1>1. CASE CtxNext
  BY <1>1, CreateKeeps, ParseKeeps, AfterParseKeeps, ReleaseKeeps, StutterKeeps DEF CtxNext, Over
<1>2. CASE UNCHANGED ctxVars
  BY <1>2, StutterKeeps
<1> QED
  BY <1>1, <1>2

-----------------------------------------------------------------------------
(* What the file says is a syntax tree. *)
LEMMA MeaningFields ==
  ASSUME NEW R
  PROVE  LET M == Meaning(R)
         IN  /\ M.entities = {e \in Entities : <<"entity", e>> \in R \/ <<"for", e>> \in R}
             /\ M.declared = {e \in Entities : <<"entity", e>> \in R}
             /\ \A e \in Entities :
                  /\ M.verbs[e] = {v \in Verbs : <<"verb", e, v>> \in R}
                  /\ M.roles[e] = {r \in Roles : \E b \in RoleNames : <<"role", e, r, b>> \in R}
                  /\ \A r \in Roles :
                       M.own[e][r] = {v \in Verbs : <<"role_verb", e, r, v>> \in R}
  BY DEF Meaning, RoleNames

(* A role's base is the one that is said of it, if there is just one.      *)
LEMMA MeaningBase ==
  ASSUME NEW R, NEW e \in Entities, NEW r \in Roles
  PROVE  /\ (\A b \in RoleNames : <<"role", e, r, b>> \notin R) => Meaning(R).extends[e][r] = NULL
         /\ \A b \in RoleNames :
              <<"role", e, r, b>> \in R /\ (\A c \in RoleNames : <<"role", e, r, c>> \in R => c = b)
                => Meaning(R).extends[e][r] = b
<1> DEFINE Base == {b \in Roles \cup {NULL} : <<"role", e, r, b>> \in R}
<1>1. Meaning(R).extends[e][r] = IF Base # {} THEN CHOOSE b \in Base : TRUE ELSE NULL
  BY DEF Meaning
<1>2. ASSUME \A b \in RoleNames : <<"role", e, r, b>> \notin R
      PROVE  Base = {}
  BY <1>2 DEF RoleNames
<1>3. ASSUME NEW b \in RoleNames, <<"role", e, r, b>> \in R,
             \A c \in RoleNames : <<"role", e, r, c>> \in R => c = b
      PROVE  Base = {b}
  BY <1>3 DEF RoleNames
<1> HIDE DEF Base
<1>4. ASSUME NEW b \in RoleNames, Base = {b}
      PROVE  (CHOOSE c \in Base : TRUE) = b
  BY <1>4
<1> QED
  BY <1>1, <1>2, <1>3, <1>4

(* A base is found for each role, or NULL. *)
LEMMA MeaningIsTree ==
  ASSUME NEW R
  PROVE  Meaning(R) \in Ast
<1> DEFINE Base(e, r) == {b \in Roles \cup {NULL} : <<"role", e, r, b>> \in R}
           Extended(e, r) == IF Base(e, r) # {} THEN CHOOSE b \in Base(e, r) : TRUE ELSE NULL
<1>1. ASSUME NEW e \in Entities, NEW r \in Roles
      PROVE  Extended(e, r) \in Roles \cup {NULL}
  OBVIOUS
<1> HIDE DEF Extended
<1>2. [e \in Entities |-> [r \in Roles |-> Extended(e, r)]]
        \in [Entities -> [Roles -> Roles \cup {NULL}]]
  BY <1>1
<1>3. Meaning(R).extends = [e \in Entities |-> [r \in Roles |-> Extended(e, r)]]
  BY DEF Meaning, Extended
<1>4. Meaning(R).extends \in [Entities -> [Roles -> Roles \cup {NULL}]]
  BY <1>2, <1>3
<1>5. /\ Meaning(R).entities \in SUBSET Entities /\ Meaning(R).declared \in SUBSET Entities
      /\ Meaning(R).verbs \in [Entities -> SUBSET Verbs]
      /\ Meaning(R).roles \in [Entities -> SUBSET Roles]
      /\ Meaning(R).own \in [Entities -> [Roles -> SUBSET Verbs]]
  BY DEF Meaning
<1> QED
  BY <1>4, <1>5 DEF Meaning, Ast

-----------------------------------------------------------------------------
(* What the invariant says at the end. *)

(* A role of the config is what was said of it, unless a name is repeated. *)
LEMMA RolesAsRead ==
  ASSUME ParseInv, ~repeated, NEW e \in Entities, NEW r \in cfg.roles[e]
  PROVE  /\ ExtendsAsRead(e, r)
         /\ cfg.own[e][r] = Meaning(read).own[e][r]
<1>1. cfg \in Ast /\ r \in Roles
  BY AstFields DEF ParseInv, TypeOK
<1>2. cfg.extends[e][r] \in RoleNames /\ cfg.own[e][r] \subseteq Verbs
  BY <1>1, AstFields
<1>3. /\ BaseSaid(e, r, cfg.extends[e][r])
      /\ \A v \in Verbs : v \in cfg.own[e][r] <=> <<"role_verb", e, r, v>> \in read
  BY DEF ParseInv, RolesInv, RolesExact
<1>5. ExtendsAsRead(e, r)
  <2>1. CASE <<"role", e, r, cfg.extends[e][r]>> \in read
    <3>1. \A c \in RoleNames : <<"role", e, r, c>> \in read => c = cfg.extends[e][r]
      BY <1>1, <1>2, <2>1 DEF ParseInv, ReadInv
    <3>2. cfg.extends[e][r] = Meaning(read).extends[e][r]
      BY <1>1, <1>2, <2>1, <3>1, MeaningBase
    <3> QED
      BY <3>2 DEF ExtendsAsRead
  <2>2. CASE cfg.extends[e][r] = NULL /\ <<e, r>> \in forgotten
    BY <2>2 DEF ExtendsAsRead
  <2> QED
    BY <1>3, <2>1, <2>2 DEF BaseSaid
<1>6. Meaning(read).own[e][r] = {v \in Verbs : <<"role_verb", e, r, v>> \in read}
  BY <1>1, MeaningFields
<1>7. cfg.own[e][r] = Meaning(read).own[e][r]
  BY <1>2, <1>3, <1>6
<1> QED
  BY <1>5, <1>7

(* A parse that ends without an error has all that the file says. *)
LEMMA SilentIsExact ==
  ASSUME ParseInv
  PROVE  SilentParseExact
<1>1. messages \subseteq {<<"syntax error">>, <<"out of memory">>} \/ repeated
  BY DEF ParseInv, MessagesInv
<1>2. ASSUME Done, retval = 0, messages = {}
      PROVE  /\ ~repeated
             /\ cfg = [Meaning(read) EXCEPT !.extends = cfg.extends]
             /\ \A e \in Entities, r \in Roles : ExtendsAsRead(e, r)
  <2>1. Silent /\ ~repeated
    BY <1>2 DEF Done, Silent, ParseInv, ClashInv, Clash
  <2>2. cfg \in Ast /\ Meaning(read) \in Ast
    BY MeaningIsTree DEF ParseInv, TypeOK
  <2>3. /\ block.entities = {} /\ block.declared = {}
        /\ \A e \in Entities : block.verbs[e] = {} /\ block.roles[e] = {}
    BY <1>2, NoBlock DEF Done
  <2>4. ASSUME NEW e \in Entities
        PROVE  /\ <<"entity", e>> \in read <=> e \in cfg.declared
               /\ Said(e) <=> e \in cfg.entities
               /\ \A v \in Verbs : <<"verb", e, v>> \in read <=> v \in cfg.verbs[e]
               /\ \A r \in Roles : SaidRole(e, r) <=> r \in cfg.roles[e]
    BY <1>2, <2>1, <2>3 DEF Done, ParseInv, SoundInv, CompleteInv
  <2> DEFINE M == Meaning(read)
  <2>5. /\ M.entities = {e \in Entities : <<"entity", e>> \in read \/ <<"for", e>> \in read}
        /\ M.declared = {e \in Entities : <<"entity", e>> \in read}
        /\ \A e \in Entities :
             /\ M.verbs[e] = {v \in Verbs : <<"verb", e, v>> \in read}
             /\ M.roles[e] = {r \in Roles : \E b \in RoleNames : <<"role", e, r, b>> \in read}
             /\ \A r \in Roles : M.own[e][r] = {v \in Verbs : <<"role_verb", e, r, v>> \in read}
    BY MeaningFields
  <2>6. cfg.entities = M.entities /\ cfg.declared = M.declared
    BY <2>2, <2>4, <2>5, AstFields DEF Said
  <2>7. ASSUME NEW e \in Entities
        PROVE  cfg.verbs[e] = M.verbs[e] /\ cfg.roles[e] = M.roles[e]
    <3>1. cfg.verbs[e] \subseteq Verbs /\ cfg.roles[e] \subseteq Roles
      BY <2>2, AstFields
    <3>2. cfg.verbs[e] = M.verbs[e]
      BY <2>4, <2>5, <3>1
    <3>3. cfg.roles[e] = M.roles[e]
      BY <2>4, <2>5, <3>1 DEF SaidRole
    <3> QED
      BY <3>2, <3>3
  <2>8. ASSUME NEW e \in Entities, NEW r \in Roles
        PROVE  ExtendsAsRead(e, r) /\ cfg.own[e][r] = M.own[e][r]
    <3>1. CASE r \in cfg.roles[e]
      BY <2>1, <3>1, RolesAsRead
    <3>2. CASE r \notin cfg.roles[e]
      <4>1. cfg.extends[e][r] = NULL /\ cfg.own[e][r] = {}
        BY <3>2 DEF ParseInv, CfgInv
      <4>2. ~SaidRole(e, r)
        BY <2>4, <3>2
      <4>3. M.extends[e][r] = NULL
        BY <4>2, MeaningBase DEF SaidRole
      <4>4. \A v \in Verbs : <<"role_verb", e, r, v>> \notin read
        BY <4>2 DEF ParseInv, ReadInv
      <4>5. M.own[e][r] = {}
        <5>1. M.own[e][r] = {v \in Verbs : <<"role_verb", e, r, v>> \in read}
          BY <2>5
        <5> HIDE DEF M
        <5> QED
          BY <4>4, <5>1
      <4> QED
        BY <4>1, <4>3, <4>5 DEF ExtendsAsRead
    <3> QED
      BY <3>1, <3>2
  <2> HIDE DEF M
  <2> DEFINE N == [M EXCEPT !.extends = cfg.extends]
  <2>9. M \in Ast
    BY <2>2 DEF M
  <2>10. /\ N.entities = M.entities /\ N.declared = M.declared /\ N.verbs = M.verbs
         /\ N.roles = M.roles /\ N.own = M.own /\ N.extends = cfg.extends /\ N \in Ast
    BY <2>2, <2>9 DEF Ast
  <2>11. cfg = N
    <3> HIDE DEF N
    <3> QED
      BY <2>2, <2>6, <2>7, <2>8, <2>10, AstExtensional
  <2> QED
    BY <2>1, <2>8, <2>11 DEF M
<1> QED
  BY <1>1, <1>2 DEF SilentParseExact

(* The config has nothing else, however the parse goes. *)
LEMMA NothingElse ==
  ASSUME ParseInv
  PROVE  OnlyWhatWasRead
<1> DEFINE M == Meaning(read)
<1>1. cfg \in Ast
  BY DEF ParseInv, TypeOK
<1>2. /\ M.entities = {e \in Entities : <<"entity", e>> \in read \/ <<"for", e>> \in read}
      /\ M.declared = {e \in Entities : <<"entity", e>> \in read}
      /\ \A e \in Entities :
           /\ M.verbs[e] = {v \in Verbs : <<"verb", e, v>> \in read}
           /\ M.roles[e] = {r \in Roles : \E b \in RoleNames : <<"role", e, r, b>> \in read}
  BY MeaningFields
<1>3. \A e \in Entities :
        /\ e \in cfg.declared => <<"entity", e>> \in read
        /\ e \in cfg.entities => Said(e)
        /\ \A v \in cfg.verbs[e] : <<"verb", e, v>> \in read
        /\ \A r \in cfg.roles[e] : SaidRole(e, r)
  BY DEF ParseInv, SoundInv
<1>4. cfg.entities \subseteq M.entities /\ cfg.declared \subseteq M.declared
  BY <1>1, <1>2, <1>3, AstFields DEF Said
<1>5. ASSUME NEW e \in Entities
      PROVE  cfg.verbs[e] \subseteq M.verbs[e] /\ cfg.roles[e] \subseteq M.roles[e]
  <2>1. cfg.verbs[e] \subseteq Verbs /\ cfg.roles[e] \subseteq Roles
    BY <1>1, AstFields
  <2> QED
    BY <1>2, <1>3, <2>1 DEF SaidRole
<1>6. ASSUME ~repeated, NEW e \in Entities, NEW r \in cfg.roles[e]
      PROVE  ExtendsAsRead(e, r) /\ cfg.own[e][r] = M.own[e][r]
  BY <1>6, RolesAsRead
<1> QED
  BY <1>4, <1>5, <1>6 DEF OnlyWhatWasRead

(* What is allocated is given back. *)
LEMMA GivenBack ==
  ASSUME ParseInv, CtxInv
  PROVE  ContextGivenBack
<1>1. ctx_pc = "done" => live = {} /\ ~hooked
  BY DEF CtxInv, LiveInv, Whole
<1>2. ASSUME root, "user" \in live
      PROVE  reference_count > 0
  <2>1. ctx_pc \notin {"release context", "done"}
    <3>1. ctx_pc = "release context" => live = {"context"}
      BY DEF CtxInv, LiveInv
    <3>2. ctx_pc = "done" => live = {}
      BY DEF CtxInv, LiveInv
    <3>3. ctx_pc = "release context" => "user" \notin live
      <4>1. "user" \notin {"context"}
        OBVIOUS
      <4> QED
        BY <3>1, <4>1
    <3>4. ctx_pc = "done" => "user" \notin live
      BY <3>2
    <3> QED
      BY <1>2, <3>3, <3>4
  <2>2. reference_count # 0
    BY <1>2, <2>1 DEF CtxInv, RootInv
  <2>3. reference_count \in 0 .. 2
    BY DEF ParseInv, TypeOK
  <2> QED
    BY <2>2, <2>3
<1>3. ctx_pc = "done" /\ messages \subseteq {<<"syntax error">>} => reference_count = 0
  BY DEF CtxInv, RootInv
<1> QED
  BY <1>1, <1>2, <1>3 DEF ContextGivenBack

(* The list has only messages that were set. *)
LEMMA ContextTypes ==
  ASSUME ParseInv, CtxInv
  PROVE  ContextTypeOK
<1>1. ctx_pc \in Steps /\ hooked \in BOOLEAN /\ live \subseteq {"user", "list", "context"}
  BY DEF CtxInv, LiveInv, Whole, Steps
<1>2. ToSet(error_list) \subseteq messages
  <2>1. error_list \in Seq(messages)
    BY DEF CtxInv, ListInv
  <2>2. \A i \in DOMAIN error_list : error_list[i] \in messages
    BY <2>1
  <2> QED
    BY <2>2 DEF ToSet
<1>3. error_list # << >> => "list" \in live
  BY DEF CtxInv, ListInv, LiveInv
<1> QED
  BY <1>1, <1>2, <1>3 DEF ContextTypeOK, ParseInv, CtxInv, RootInv

(* What the lookup returns when it finds no message is not one. *)
LEMMA NotMessages ==
  <<"out of bounds">> \notin Messages /\ <<"undefined">> \notin Messages
<1>1. ASSUME NEW s \in {"out of bounds", "undefined"}
      PROVE  <<s>> \notin Messages
  <2>1. s \notin {"syntax error", "out of memory", "error merging"}
    BY <1>1
  <2>2. <<s>> \notin {"duplicate entity"} \X Entities /\ <<s>> \notin {"duplicate verb"} \X Verbs
        /\ <<s>> \notin {"duplicate role"} \X Roles
    OBVIOUS
  <2> QED
    BY <2>1, <2>2 DEF Messages
<1> QED
  BY <1>1

(* The walk finds no message for any index, but stays within the list for  *)
(* the indices that it has.                                                *)
LEMMA LookupIsSafe ==
  ASSUME ParseInv, CtxInv
  PROVE  LookupSafe
<1>1. Len(error_list) \in Nat
  <2>1. error_list \in Seq(messages)
    BY DEF CtxInv, ListInv
  <2> QED
    BY <2>1
<1> DEFINE count == Len(error_list)
<1>2. ASSUME NEW index \in 0 .. count + 2
      PROVE  /\ GetErrorMessage(index) \in {<<"out of bounds">>, <<"undefined">>}
             /\ GetErrorMessage(index) = <<"undefined">> => index > count
  <2>1. CASE index \in 0 .. count
    <3>1. Walk(index).index = -1
      BY <2>1 DEF Walk
    <3>2. Walk(index).index # 0
      BY <3>1
    <3>3. GetErrorMessage(index) = <<"out of bounds">>
      BY <3>2 DEF GetErrorMessage
    <3>4. <<"out of bounds">> # <<"undefined">>
      OBVIOUS
    <3> QED
      BY <3>3, <3>4
  <2>2. CASE index \notin 0 .. count
    <3>1. index > count
      BY <1>1, <1>2, <2>2
    <3>2. Walk(index).node = count + 1
      BY <2>2 DEF Walk
    <3>3. Walk(index).node > Len(error_list)
      BY <1>1, <3>2
    <3>4. GetErrorMessage(index) \in {<<"out of bounds">>, <<"undefined">>}
      BY <3>3 DEF GetErrorMessage
    <3> QED
      BY <3>1, <3>4
  <2> QED
    BY <2>1, <2>2
<1>3. ASSUME NEW index \in 0 .. Len(error_list) + 2
      PROVE  /\ GetErrorMessage(index) \notin Messages
             /\ GetErrorMessage(index) = <<"undefined">> => index > Len(error_list)
  BY <1>2, <1>3, NotMessages
<1> QED
  BY <1>3 DEF LookupSafe

-----------------------------------------------------------------------------
(* At every step the parser's two trees hold between them what was read,   *)
(* and the context counts what it holds.                                   *)
THEOREM ParseInvariant == CtxSpec => [](ParseInv /\ CtxInv)
<1>1. CtxInit => ParseInv /\ CtxInv
  BY CtxInitial
<1>2. (ParseInv /\ CtxInv) /\ [CtxNext]_ctxVars => (ParseInv /\ CtxInv)'
  BY CtxNextKeeps
<1> QED
  BY <1>1, <1>2, PTL DEF CtxSpec

(* The parser and the context keep to their types: the stack never holds   *)
(* more than the one config, and the list has only messages that were set. *)
THEOREM ContextTypeCorrect == CtxSpec => []ContextTypeOK
<1>1. ParseInv /\ CtxInv => ContextTypeOK
  BY ContextTypes
<1> QED
  BY <1>1, ParseInvariant, PTL

(* A parse that returns 0 and sets no message has read nothing twice, and  *)
(* the config is what the whole file says, but for extends clauses that    *)
(* were lost for want of memory; a message about a duplicate has its cause *)
(* in the file.                                                            *)
THEOREM SilentParseIsExact == CtxSpec => []SilentParseExact
<1>1. ParseInv /\ CtxInv => SilentParseExact
  BY SilentIsExact
<1> QED
  BY <1>1, ParseInvariant, PTL

(* However the parse goes, the config has only what the file says, and     *)
(* each of its roles whole, but for an extends clause that was lost for    *)
(* want of memory.                                                         *)
THEOREM NothingElseIsInConfig == CtxSpec => []OnlyWhatWasRead
<1>1. ParseInv /\ CtxInv => OnlyWhatWasRead
  BY NothingElse
<1> QED
  BY <1>1, ParseInvariant, PTL

(* Whichever allocation failed and wherever the parse ended, the context   *)
(* and its messages are given back, and the config is alive for as long as *)
(* the context has it; it is given back too unless a rule failed.          *)
THEOREM ContextIsGivenBack == CtxSpec => []ContextGivenBack
<1>1. ParseInv /\ CtxInv => ContextGivenBack
  BY GivenBack
<1> QED
  BY <1>1, ParseInvariant, PTL

(* The lookup of a message never gives another one than that at the index, *)
(* and reads nothing past the list for an index up to its length.          *)
THEOREM LookupsAreSafe == CtxSpec => []LookupSafe
<1>1. ParseInv /\ CtxInv => LookupSafe
  BY LookupIsSafe
<1> QED
  BY <1>1, ParseInvariant, PTL

(* What was merged into the config is never lost or changed by a later     *)
(* block, not even by a merge that fails halfway.                          *)
THEOREM MergedIsNeverLost == CtxSpec => MergedStays
<1>1. ASSUME ParseInv, CtxInv, [CtxNext]_ctxVars
      PROVE  [Stays]_vars
  <2>1. CASE Parse
    <3>1. Stays
      BY <1>1, <2>1, ParseNextStays DEF Parse
    <3> QED
      BY <3>1
  <2>2. CASE ~Parse
    <3>1. UNCHANGED cfg
      BY <1>1, <2>2 DEF CtxNext, CreateUser, CreateList, CreateContext, Create, ReleaseUser,
                        NoName, NoScanner, GetRoot, ReleaseWrapped, ReleaseContext, Over, ctxVars, vars
    <3> QED
      BY <3>1, AstFields DEF Stays, ParseInv, TypeOK
  <2> QED
    BY <2>1, <2>2
<1>2. CtxSpec => [][Stays]_vars
  BY <1>1, ParseInvariant, PTL DEF CtxSpec
<1> QED
  BY <1>2 DEF Stays, MergedStays
=============================================================================
