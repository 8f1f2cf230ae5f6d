-------------------------- MODULE MCEndorseConfigs --------------------------
(***************************************************************************)
(* Small endorse configs for the models of the analyzer.                   *)
(***************************************************************************)
EXTENDS EndorseAst

MCEntities == {1, 2}
MCRoles == 1 .. 4
MCVerbs == {1, 2}

NoExtends == [r \in MCRoles |-> NULL]
NoOwn == [r \in MCRoles |-> {}]

(* A function on MCRoles that is f on R and d elsewhere. *)
Widen(f, R, d) == [r \in MCRoles |-> IF r \in R THEN f[r] ELSE d]

OneEntity(extends, own) ==
  {[entities |-> {1}, declared |-> {1},
    verbs    |-> [e \in MCEntities |-> {1}],
    roles    |-> [e \in MCEntities |-> IF e = 1 THEN 1 .. 3 ELSE {}],
    extends  |-> [e \in MCEntities |-> IF e = 1 THEN Widen(ext, 1 .. 3, NULL) ELSE NoExtends],
    own      |-> [e \in MCEntities |-> IF e = 1 THEN Widen(o, 1 .. 3, {}) ELSE NoOwn]] :
     ext \in extends, o \in own}

(* The roles of one entity of a two-entity config: none, or two. *)
SmallRoles ==
  {[roles |-> {}, extends |-> NoExtends, own |-> NoOwn]} \cup
  {[roles |-> {1, 2}, extends |-> Widen(ext, {1}, NULL), own |-> Widen(own, {1, 2}, {})] :
     ext \in [{1} -> {1, 2, NULL}],
     own \in [{1, 2} -> {{}, {1}}]}

TwoEntities ==
  {[entities |-> MCEntities, declared |-> decl,
    verbs    |-> [e \in MCEntities |-> IF e = 1 THEN {1} ELSE {}],
    roles    |-> [e \in MCEntities |-> s[e].roles],
    extends  |-> [e \in MCEntities |-> s[e].extends],
    own      |-> [e \in MCEntities |-> s[e].own]] :
     decl \in {{1}, {1, 2}},
     s \in [MCEntities -> SmallRoles]}

Empty ==
  [entities |-> {}, declared |-> {}, verbs |-> [e \in MCEntities |-> {}],
   roles |-> [e \in MCEntities |-> {}], extends |-> [e \in MCEntities |-> NoExtends],
   own |-> [e \in MCEntities |-> NoOwn]]
=============================================================================
