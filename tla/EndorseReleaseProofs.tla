------------------------ MODULE EndorseReleaseProofs ------------------------
(***************************************************************************)
(* That the release of a config reclaims each of its objects exactly once, *)
(* for every set of names and every config: the reference count of an      *)
(* object is the number of pointers to it, wherever they are.              *)
(***************************************************************************)
EXTENDS EndorseRelease, EndorseAnalyzeProofs, FiniteSetTheorems, SequenceTheorems

(* The objects that an object points to. *)
Targets(p) == Holds(p)[1] \cup Holds(p)[2]

(* The pointers to x: of the config itself, of the objects that are not    *)
(* freed, and of the trees that are being taken apart.                     *)
IsEntity(x) == x \in {EntityObj(e) : e \in ast.entities}

Root(x) == IF ~releasing /\ IsEntity(x) THEN 1 ELSE 0

Users(x) == {p \in Allocated(ast) \ freed : x \in Targets(p)}

At(fs, x) == {i \in 1 .. Len(fs) : x \in fs[i]}

Waits(x) == At(frames, x)

Counted ==
  \A x \in Allocated(ast) :
    refs[x] = Root(x) + Cardinality(Users(x)) + Cardinality(Waits(x))

(* An object is freed when the last pointer to it is gone. *)
FreedInv ==
  /\ frames \in Seq((SUBSET Allocated(ast)) \ {{}})
  /\ ~releasing => frames = <<>> /\ freed = {}
  /\ releasing => Done /\ freed = {x \in Allocated(ast) : refs[x] = 0}

(* What the pointers between a config's objects look like: only complete   *)
(* roles point to their bases, which are complete, and only their own      *)
(* role_verbs are linked; a role holds its own role_verbs.                 *)
PointersInv ==
  /\ IsFiniteSet(Allocated(ast))
  /\ \A e \in Entities : \A r \in Roles :
       LET base == extends_role[<<e, r>>]
       IN  base # NULL => /\ Complete(e, r) /\ Complete(e, base)
                          /\ base \in ast.roles[e]
  /\ \A e \in Entities : \A r \in Roles : \A v \in Verbs :
       /\ <<e, r, v>> \in linked =>
            Complete(e, r) /\ v \in ast.own[e][r] /\ v \in ast.verbs[e]
       /\ v \in ast.own[e][r] => role_verbs[<<e, r>>][v] = r

(* No set of roles keeps itself alive by extending each other. *)
NoRoleCycle ==
  \A e \in Entities : \A S \in SUBSET ast.roles[e] :
    (\A r \in S : \E s \in S : extends_role[<<e, s>>] = r) => S = {}

RelInv == IInv /\ PointersInv /\ NoRoleCycle /\ FreedInv /\ Counted

-----------------------------------------------------------------------------
(* The stack: where an object waits is a finite set of frames.             *)
LEMMA AtFinite ==
  ASSUME NEW S, NEW fs \in Seq(S), NEW x
  PROVE  /\ IsFiniteSet(At(fs, x)) /\ Cardinality(At(fs, x)) \in Nat
         /\ Cardinality(At(fs, x)) = 0 <=> At(fs, x) = {}
<1>1. IsFiniteSet(1 .. Len(fs))
  BY LenProperties, FS_Interval
<1>2. At(fs, x) \in SUBSET (1 .. Len(fs))
  BY DEF At
<1> QED
  BY <1>1, <1>2, FS_Subset, FS_CardinalityType, FS_EmptySet

(* A tree that is pushed adds one place to each object it holds. *)
LEMMA PushAt ==
  ASSUME NEW S, NEW fs \in Seq(S), NEW tree \in (S \cup {{}})
  PROVE  /\ Push(fs, tree) \in Seq(S)
         /\ \A x : x \in tree => Cardinality(At(Push(fs, tree), x)) = Cardinality(At(fs, x)) + 1
         /\ \A x : x \notin tree => At(Push(fs, tree), x) = At(fs, x)
<1>1. Len(fs) \in Nat
  BY LenProperties
<1>2. CASE tree = {}
  BY <1>2 DEF Push
<1>3. CASE tree # {}
  <2>1. /\ Push(fs, tree) = Append(fs, tree)
        /\ Append(fs, tree) \in Seq(S)
        /\ Len(Append(fs, tree)) = Len(fs) + 1
        /\ \A i \in 1 .. Len(fs) : Append(fs, tree)[i] = fs[i]
        /\ Append(fs, tree)[Len(fs) + 1] = tree
    BY <1>3, AppendProperties DEF Push
  <2>2. ASSUME NEW x, x \in tree
        PROVE  Cardinality(At(Push(fs, tree), x)) = Cardinality(At(fs, x)) + 1
    <3>1. At(Push(fs, tree), x) = At(fs, x) \cup {Len(fs) + 1}
      BY <1>1, <2>1, <2>2 DEF At
    <3>2. Len(fs) + 1 \notin At(fs, x)
      BY <1>1 DEF At
    <3> QED
      BY <3>1, <3>2, AtFinite, FS_AddElement
  <2>3. ASSUME NEW x, x \notin tree
        PROVE  At(Push(fs, tree), x) = At(fs, x)
    BY <1>1, <2>1, <2>3 DEF At
  <2> QED
    BY <2>1, <2>2, <2>3
<1> QED
  BY <1>2, <1>3

(* An object taken from the innermost tree gives up one place, no other.   *)
LEMMA PopAt ==
  ASSUME NEW T, NEW fs \in Seq((SUBSET T) \ {{}}), fs # <<>>, NEW o \in fs[Len(fs)]
  PROVE  /\ o \in T
         /\ Pop(fs, o) \in Seq((SUBSET T) \ {{}})
         /\ At(fs, o) # {}
         /\ Cardinality(At(Pop(fs, o), o)) = Cardinality(At(fs, o)) - 1
         /\ \A x : x # o => Cardinality(At(Pop(fs, o), x)) = Cardinality(At(fs, x))
<1> DEFINE n == Len(fs)
           outer == SubSeq(fs, 1, n - 1)
           rest == fs[n] \ {o}
<1>1. n \in Nat /\ n > 0 /\ n - 1 \in Int
  BY LenProperties, EmptySeq
<1>2. \A i \in 1 .. n : fs[i] \in (SUBSET T) \ {{}}
  BY ElementOfSeq
<1>3. n \in 1 .. n /\ o \in T /\ rest \in SUBSET T
  BY <1>1, <1>2
<1>4. /\ outer \in Seq((SUBSET T) \ {{}}) /\ Len(outer) = n - 1
      /\ \A i \in 1 .. n - 1 : outer[i] = fs[i]
  <2>1. \A i \in 1 .. n - 1 : fs[i] \in (SUBSET T) \ {{}}
    BY <1>1, <1>2
  <2>2. /\ outer \in Seq((SUBSET T) \ {{}})
        /\ Len(outer) = IF 1 <= n - 1 THEN n - 1 - 1 + 1 ELSE 0
        /\ \A i \in 1 .. n - 1 - 1 + 1 : outer[i] = fs[1 + i - 1]
    BY <1>1, <2>1, SubSeqProperties
  <2> HIDE DEF n, outer
  <2>3. n - 1 - 1 + 1 = n - 1 /\ \A i \in 1 .. n - 1 : 1 + i - 1 = i
    BY <1>1
  <2>4. Len(outer) = n - 1
    BY <1>1, <2>2
  <2>5. \A i \in 1 .. n - 1 : outer[i] = fs[i]
    BY <2>2, <2>3
  <2> QED
    BY <2>2, <2>4, <2>5
<1> HIDE DEF outer
<1>5. \A x : At(outer, x) = At(fs, x) \ {n}
  BY <1>1, <1>4 DEF At
<1>6. \A x : n \in At(fs, x) <=> x \in fs[n]
  BY <1>3 DEF At
<1>7. Pop(fs, o) = Push(outer, rest)
  BY DEF Pop, outer
<1>8. o \in fs[n]
  OBVIOUS
<1>9. \A x : x \in rest <=> x # o /\ n \in At(fs, x)
  BY <1>6
<1> HIDE DEF n, rest
<1>10. outer \in Seq((SUBSET T) \ {{}}) /\ rest \in ((SUBSET T) \ {{}}) \cup {{}}
  BY <1>3, <1>4
<1>11. Pop(fs, o) \in Seq((SUBSET T) \ {{}})
  <2>1. Push(outer, rest) \in Seq((SUBSET T) \ {{}})
    BY <1>10, PushAt
  <2> QED
    BY <1>7, <2>1
<1>12. \A x : x \in rest => Cardinality(At(Pop(fs, o), x)) = Cardinality(At(outer, x)) + 1
  <2>1. \A x : x \in rest =>
          Cardinality(At(Push(outer, rest), x)) = Cardinality(At(outer, x)) + 1
    BY <1>10, PushAt
  <2> QED
    BY <1>7, <2>1
<1>13. \A x : x \notin rest => At(Pop(fs, o), x) = At(outer, x)
  <2>1. \A x : x \notin rest => At(Push(outer, rest), x) = At(outer, x)
    BY <1>10, PushAt
  <2> QED
    BY <1>7, <2>1
<1>14. ASSUME NEW x, n \in At(fs, x)
       PROVE  Cardinality(At(outer, x)) = Cardinality(At(fs, x)) - 1
  BY <1>5, <1>14, AtFinite, FS_RemoveElement
<1>15. Cardinality(At(Pop(fs, o), o)) = Cardinality(At(fs, o)) - 1
  BY <1>6, <1>8, <1>9, <1>13, <1>14
<1>16. ASSUME NEW x, x # o
       PROVE  Cardinality(At(Pop(fs, o), x)) = Cardinality(At(fs, x))
  <2>1. CASE n \in At(fs, x)
    <3>1. /\ Cardinality(At(Pop(fs, o), x)) = Cardinality(At(outer, x)) + 1
          /\ Cardinality(At(outer, x)) = Cardinality(At(fs, x)) - 1
          /\ Cardinality(At(fs, x)) \in Nat
      BY <1>9, <1>12, <1>14, <1>16, <2>1, AtFinite
    <3> QED
      BY <3>1
  <2>2. CASE n \notin At(fs, x)
    <3>1. At(fs, x) \ {n} = At(fs, x)
      BY <2>2
    <3> QED
      BY <1>5, <1>9, <1>13, <2>2, <3>1
  <2> QED
    BY <2>1, <2>2
<1>17. At(fs, o) # {}
  BY <1>6, <1>8
<1> QED
  BY <1>3, <1>11, <1>15, <1>16, <1>17

-----------------------------------------------------------------------------
(* The objects of a config, by kind.                                       *)
LEMMA Kinds ==
  ASSUME ast \in Ast
  PROVE  /\ \A o \in Allocated(ast) :
              \/ \E e \in ast.entities : o = EntityObj(e)
              \/ \E e \in ast.entities : \E v \in ast.verbs[e] : o = VerbObj(e, v)
              \/ \E e \in ast.entities : \E r \in ast.roles[e] : o = RoleObj(e, r)
              \/ \E e \in ast.entities : \E r \in ast.roles[e] : \E v \in ast.own[e][r] :
                   o = RoleVerbObj(e, r, v)
         /\ \A e \in ast.entities :
              /\ EntityObj(e) \in Allocated(ast)
              /\ \A v \in ast.verbs[e] : VerbObj(e, v) \in Allocated(ast)
              /\ \A r \in ast.roles[e] : RoleObj(e, r) \in Allocated(ast)
              /\ \A r \in ast.roles[e] : \A v \in ast.own[e][r] :
                   RoleVerbObj(e, r, v) \in Allocated(ast)
<1>1. ASSUME NEW o \in Allocated(ast)
      PROVE  \/ \E e \in ast.entities : o = EntityObj(e)
             \/ \E e \in ast.entities : \E v \in ast.verbs[e] : o = VerbObj(e, v)
             \/ \E e \in ast.entities : \E r \in ast.roles[e] : o = RoleObj(e, r)
             \/ \E e \in ast.entities : \E r \in ast.roles[e] : \E v \in ast.own[e][r] :
                  o = RoleVerbObj(e, r, v)
  BY <1>1 DEF Allocated, EntityObj, VerbObj, RoleObj, RoleVerbObj
<1>2. ASSUME NEW e \in ast.entities
      PROVE  /\ EntityObj(e) \in Allocated(ast)
             /\ \A v \in ast.verbs[e] : VerbObj(e, v) \in Allocated(ast)
             /\ \A r \in ast.roles[e] : RoleObj(e, r) \in Allocated(ast)
             /\ \A r \in ast.roles[e] : \A v \in ast.own[e][r] :
                  RoleVerbObj(e, r, v) \in Allocated(ast)
  <2>1. /\ e \in Entities /\ ast.verbs[e] \subseteq Verbs /\ ast.roles[e] \subseteq Roles
        /\ \A r \in Roles : ast.own[e][r] \subseteq Verbs
    BY <1>2, AstTypes
  <2>2. EntityObj(e) \in Allocated(ast)
    BY DEF Allocated
  <2>3. ASSUME NEW v \in ast.verbs[e] PROVE VerbObj(e, v) \in Allocated(ast)
    BY <2>1, <2>3 DEF Allocated, VerbObj
  <2>4. ASSUME NEW r \in ast.roles[e] PROVE RoleObj(e, r) \in Allocated(ast)
    BY <2>1, <2>4 DEF Allocated, RoleObj
  <2>5. ASSUME NEW r \in ast.roles[e], NEW v \in ast.own[e][r]
        PROVE  RoleVerbObj(e, r, v) \in Allocated(ast)
    BY <2>1, <2>5 DEF Allocated, RoleVerbObj
  <2> QED
    BY <2>2, <2>3, <2>4, <2>5
<1> QED
  BY <1>1, <1>2

(* What is allocated are objects of the config.                             *)
LEMMA AllocatedObjects ==
  ASSUME ast \in Ast
  PROVE  Allocated(ast) \subseteq Objects
<1>1. /\ ast.entities \subseteq Entities
      /\ \A e \in Entities : ast.roles[e] \subseteq Roles /\ ast.verbs[e] \subseteq Verbs
      /\ \A e \in Entities : \A r \in Roles : ast.own[e][r] \subseteq Verbs
  BY AstTypes
<1> SUFFICES ASSUME NEW x \in Allocated(ast) PROVE x \in Objects
  OBVIOUS
<1>2. \/ \E e \in Entities : x = EntityObj(e)
      \/ \E e \in Entities, v \in Verbs : x = VerbObj(e, v)
      \/ \E e \in Entities, r \in Roles : x = RoleObj(e, r)
      \/ \E e \in Entities, r \in Roles, v \in Verbs : x = RoleVerbObj(e, r, v)
  BY <1>1, Kinds
<1> QED
  BY <1>2 DEF Objects

(* What an object of each kind points to.                                  *)
LEMMA HoldsOf ==
  /\ \A e : Holds(EntityObj(e)) = EntityHolds(e)
  /\ \A e, v : Holds(VerbObj(e, v)) = <<{}, {}>>
  /\ \A e, r : Holds(RoleObj(e, r)) = RoleHolds(e, r)
  /\ \A e, r, v : Holds(RoleVerbObj(e, r, v)) = RoleVerbHolds(e, r, v)
  BY DEF Holds, EntityObj, VerbObj, RoleObj, RoleVerbObj

(* The same, pointer by pointer.                                           *)
LEMMA TargetsOf ==
  ASSUME NEW e \in Entities, NEW x
  PROVE  /\ x \in Targets(EntityObj(e)) <=>
              \/ \E v \in ast.verbs[e] : x = VerbObj(e, v)
              \/ \E r \in ast.roles[e] : x = RoleObj(e, r)
         /\ \A v : x \notin Targets(VerbObj(e, v))
         /\ \A r \in Roles : x \in Targets(RoleObj(e, r)) <=>
              \/ \E v \in Verbs : /\ role_verbs[<<e, r>>][v] # NULL
                                  /\ x = RoleVerbObj(e, role_verbs[<<e, r>>][v], v)
              \/ /\ extends_role[<<e, r>>] # NULL
                 /\ x = RoleObj(e, extends_role[<<e, r>>])
         /\ \A r \in Roles : \A v \in Verbs : x \in Targets(RoleVerbObj(e, r, v)) <=>
              <<e, r, v>> \in linked /\ x = VerbObj(e, v)
<1>1. Targets(EntityObj(e)) =
        {VerbObj(e, v) : v \in ast.verbs[e]} \cup {RoleObj(e, r) : r \in ast.roles[e]}
  BY HoldsOf DEF Targets, EntityHolds
<1>2. \A v : Targets(VerbObj(e, v)) = {}
  BY HoldsOf DEF Targets
<1>3. ASSUME NEW r \in Roles
      PROVE  x \in Targets(RoleObj(e, r)) <=>
               \/ \E v \in Verbs : /\ role_verbs[<<e, r>>][v] # NULL
                                   /\ x = RoleVerbObj(e, role_verbs[<<e, r>>][v], v)
               \/ /\ extends_role[<<e, r>>] # NULL
                  /\ x = RoleObj(e, extends_role[<<e, r>>])
  <2>1. Targets(RoleObj(e, r)) =
               {RoleVerbObj(e, role_verbs[<<e, r>>][v], v) : v \in Held(e, r)}
          \cup {RoleObj(e, s) : s \in {extends_role[<<e, r>>]} \ {NULL}}
    <3>1. Holds(RoleObj(e, r)) = RoleHolds(e, r)
      BY HoldsOf
    <3> QED
      BY <3>1 DEF Targets, RoleHolds
  <2>2. Held(e, r) = {v \in Verbs : role_verbs[<<e, r>>][v] # NULL}
    BY DEF Held
  <2> QED
    BY <2>1, <2>2
<1>4. ASSUME NEW r \in Roles, NEW v \in Verbs
      PROVE  x \in Targets(RoleVerbObj(e, r, v)) <=>
               <<e, r, v>> \in linked /\ x = VerbObj(e, v)
  <2>1. Targets(RoleVerbObj(e, r, v)) =
          {VerbObj(e, w) : w \in {y \in {v} : <<e, r, y>> \in linked}}
    <3>1. Holds(RoleVerbObj(e, r, v)) = RoleVerbHolds(e, r, v)
      BY HoldsOf
    <3> QED
      BY <3>1 DEF Targets, RoleVerbHolds
  <2> QED
    BY <2>1
<1> QED
  BY <1>1, <1>2, <1>3, <1>4

(* Two objects are the same only when they are of one kind and name.       *)
LEMMA Distinct ==
  /\ \A e, f : EntityObj(e) = EntityObj(f) => e = f
  /\ \A e, f, v, w : VerbObj(e, v) = VerbObj(f, w) => e = f /\ v = w
  /\ \A e, f, r, s : RoleObj(e, r) = RoleObj(f, s) => e = f /\ r = s
  /\ \A e, f, r, s, v, w :
       RoleVerbObj(e, r, v) = RoleVerbObj(f, s, w) => e = f /\ r = s /\ v = w
  /\ \A e, f, w : EntityObj(e) # VerbObj(f, w)
  /\ \A e, f, s : EntityObj(e) # RoleObj(f, s)
  /\ \A e, f, s, w : EntityObj(e) # RoleVerbObj(f, s, w)
  /\ \A e, v, f, s : VerbObj(e, v) # RoleObj(f, s)
  /\ \A e, v, f, s, w : VerbObj(e, v) # RoleVerbObj(f, s, w)
  /\ \A e, r, f, s, w : RoleObj(e, r) # RoleVerbObj(f, s, w)
  BY DEF EntityObj, VerbObj, RoleObj, RoleVerbObj

(* The creator of a role_verb in a role's tree is a role of the entity     *)
(* that lists the verb.                                                    *)
LEMMA CreatorOf ==
  ASSUME IInv, NEW e \in ast.entities, NEW r \in ast.roles[e], NEW v \in Verbs,
         role_verbs[<<e, r>>][v] # NULL
  PROVE  /\ role_verbs[<<e, r>>][v] \in ast.roles[e]
         /\ v \in ast.own[e][role_verbs[<<e, r>>][v]]
<1>1. ast \in Ast /\ e \in Entities /\ r \in Roles
  BY AstTypes DEF IInv, TypeOK
<1>2. CASE Complete(e, r)
  <2>1. /\ v \in VerbsOf(ast, e, r)
        /\ role_verbs[<<e, r>>][v] \in Lineage(ast, e, r)
        /\ v \in ast.own[e][role_verbs[<<e, r>>][v]]
    BY <1>1, <1>2 DEF IInv, HeapInv, CompletedRoles
  <2>2. Lineage(ast, e, r) \subseteq ast.roles[e]
    BY DEF Lineage
  <2> QED
    BY <2>1, <2>2
<1>3. CASE ~Complete(e, r)
  <2>1. role_verbs[<<e, r>>][v] = IF v \in ast.own[e][r] THEN r ELSE NULL
    BY <1>1, <1>3 DEF IInv, HeapInv, IncompleteRoles
  <2> QED
    BY <2>1
<1> QED
  BY <1>2, <1>3

(* Pointers lead to objects of the config, and the two trees of an object  *)
(* share none.                                                             *)
LEMMA TargetsAllocated ==
  ASSUME IInv, PointersInv, NEW p \in Allocated(ast)
  PROVE  /\ Holds(p)[1] \in SUBSET Allocated(ast)
         /\ Holds(p)[2] \in SUBSET Allocated(ast)
         /\ Holds(p)[1] \cap Holds(p)[2] = {}
<1>1. ast \in Ast
  BY DEF IInv, TypeOK
<1>2. \A e \in ast.entities : e \in Entities /\ ast.verbs[e] \subseteq Verbs /\ ast.roles[e] \subseteq Roles
        /\ \A r \in Roles : ast.own[e][r] \subseteq Verbs
  BY <1>1, AstTypes
<1>3. ASSUME NEW e \in ast.entities, p = EntityObj(e)
      PROVE  /\ Holds(p)[1] \in SUBSET Allocated(ast)
             /\ Holds(p)[2] \in SUBSET Allocated(ast)
             /\ Holds(p)[1] \cap Holds(p)[2] = {}
  <2>1. /\ Holds(p)[1] = {VerbObj(e, v) : v \in ast.verbs[e]}
        /\ Holds(p)[2] = {RoleObj(e, r) : r \in ast.roles[e]}
    BY <1>3, HoldsOf DEF EntityHolds
  <2>2. /\ \A v \in ast.verbs[e] : VerbObj(e, v) \in Allocated(ast)
        /\ \A r \in ast.roles[e] : RoleObj(e, r) \in Allocated(ast)
    BY <1>1, Kinds
  <2>3. \A v, r : VerbObj(e, v) # RoleObj(e, r)
    BY Distinct
  <2> QED
    BY <2>1, <2>2, <2>3
<1>4. ASSUME NEW e \in ast.entities, NEW v \in ast.verbs[e], p = VerbObj(e, v)
      PROVE  /\ Holds(p)[1] \in SUBSET Allocated(ast)
             /\ Holds(p)[2] \in SUBSET Allocated(ast)
             /\ Holds(p)[1] \cap Holds(p)[2] = {}
  BY <1>4, HoldsOf
<1>5. ASSUME NEW e \in ast.entities, NEW r \in ast.roles[e], p = RoleObj(e, r)
      PROVE  /\ Holds(p)[1] \in SUBSET Allocated(ast)
             /\ Holds(p)[2] \in SUBSET Allocated(ast)
             /\ Holds(p)[1] \cap Holds(p)[2] = {}
  <2>1. /\ Holds(p)[1] = {RoleVerbObj(e, role_verbs[<<e, r>>][v], v) : v \in Held(e, r)}
        /\ Holds(p)[2] = {RoleObj(e, s) : s \in {extends_role[<<e, r>>]} \ {NULL}}
    BY <1>5, HoldsOf DEF RoleHolds
  <2>2. Held(e, r) = {v \in Verbs : role_verbs[<<e, r>>][v] # NULL}
    BY DEF Held
  <2>3. Holds(p)[1] \in SUBSET Allocated(ast)
    <3>1. ASSUME NEW v \in Held(e, r)
          PROVE  RoleVerbObj(e, role_verbs[<<e, r>>][v], v) \in Allocated(ast)
      BY <1>1, <2>2, <3>1, CreatorOf, Kinds
    <3> QED
      BY <2>1, <3>1
  <2>4. Holds(p)[2] \in SUBSET Allocated(ast)
    <3>1. extends_role[<<e, r>>] # NULL => extends_role[<<e, r>>] \in ast.roles[e]
      BY <1>2 DEF PointersInv
    <3>2. extends_role[<<e, r>>] # NULL => RoleObj(e, extends_role[<<e, r>>]) \in Allocated(ast)
      BY <1>1, <3>1, Kinds
    <3> QED
      BY <2>1, <3>2
  <2>5. Holds(p)[1] \cap Holds(p)[2] = {}
    BY <2>1, Distinct
  <2> QED
    BY <2>3, <2>4, <2>5
<1>6. ASSUME NEW e \in ast.entities, NEW r \in ast.roles[e], NEW v \in ast.own[e][r],
             p = RoleVerbObj(e, r, v)
      PROVE  /\ Holds(p)[1] \in SUBSET Allocated(ast)
             /\ Holds(p)[2] \in SUBSET Allocated(ast)
             /\ Holds(p)[1] \cap Holds(p)[2] = {}
  <2>1. /\ Holds(p)[1] = {VerbObj(e, w) : w \in {x \in {v} : <<e, r, x>> \in linked}}
        /\ Holds(p)[2] = {}
    <3>1. Holds(p) = RoleVerbHolds(e, r, v)
      BY <1>6, HoldsOf
    <3> QED
      BY <3>1 DEF RoleVerbHolds
  <2>2. e \in Entities /\ r \in Roles /\ v \in Verbs
    BY <1>2
  <2>3. <<e, r, v>> \in linked => v \in ast.verbs[e]
    BY <2>2 DEF PointersInv
  <2>4. <<e, r, v>> \in linked => VerbObj(e, v) \in Allocated(ast)
    BY <1>1, <2>3, Kinds
  <2> QED
    BY <2>1, <2>4
<1> QED
  BY <1>1, <1>3, <1>4, <1>5, <1>6, Kinds

(* Which objects of entity e an object p points to, kind by kind.          *)
PointsTo(p, e) ==
  /\ EntityObj(e) \notin Targets(p)
  /\ \A v \in ast.verbs[e] : VerbObj(e, v) \in Targets(p) <=>
       \/ p = EntityObj(e)
       \/ \E r \in ast.roles[e] : /\ v \in ast.own[e][r]
                                  /\ p = RoleVerbObj(e, r, v)
                                  /\ <<e, r, v>> \in linked
  /\ \A r \in ast.roles[e] : RoleObj(e, r) \in Targets(p) <=>
       \/ p = EntityObj(e)
       \/ \E s \in ast.roles[e] : p = RoleObj(e, s) /\ extends_role[<<e, s>>] = r
  /\ \A r \in ast.roles[e] : \A v \in ast.own[e][r] : RoleVerbObj(e, r, v) \in Targets(p) <=>
       \E s \in ast.roles[e] : p = RoleObj(e, s) /\ role_verbs[<<e, s>>][v] = r

(* What the fields of an object point to, object by object.                 *)
LEMMA Pointers ==
  ASSUME ast \in Ast, NEW e \in ast.entities, NEW p \in Allocated(ast)
  PROVE  PointsTo(p, e)
<1>1. /\ e \in Entities /\ ast.verbs[e] \subseteq Verbs /\ ast.roles[e] \subseteq Roles
      /\ \A r \in Roles : ast.own[e][r] \subseteq Verbs
      /\ ast.entities \subseteq Entities
  BY AstTypes
<1>2. ASSUME NEW f \in ast.entities, p = EntityObj(f) PROVE PointsTo(p, e)
  <2>1. \A x : x \in Targets(p) <=>
          \/ \E v \in ast.verbs[f] : x = VerbObj(f, v)
          \/ \E r \in ast.roles[f] : x = RoleObj(f, r)
    BY <1>1, <1>2, TargetsOf
  <2>2. EntityObj(e) \notin Targets(p)
    BY <2>1, Distinct
  <2>3. ASSUME NEW v \in ast.verbs[e]
        PROVE  VerbObj(e, v) \in Targets(p) <=>
                \/ p = EntityObj(e)
                \/ \E r \in ast.roles[e] : /\ v \in ast.own[e][r]
                                           /\ p = RoleVerbObj(e, r, v)
                                           /\ <<e, r, v>> \in linked
    <3>1. \A r : p # RoleVerbObj(e, r, v)
      BY <1>2, Distinct
    <3>2. VerbObj(e, v) \in Targets(p) <=> e = f
      BY <2>1, <2>3, Distinct
    <3>3. p = EntityObj(e) <=> e = f
      BY <1>2, Distinct
    <3> QED
      BY <3>1, <3>2, <3>3
  <2>4. ASSUME NEW r \in ast.roles[e]
        PROVE  RoleObj(e, r) \in Targets(p) <=>
                \/ p = EntityObj(e)
                \/ \E s \in ast.roles[e] : p = RoleObj(e, s) /\ extends_role[<<e, s>>] = r
    <3>1. \A s : p # RoleObj(e, s)
      BY <1>2, Distinct
    <3>2. RoleObj(e, r) \in Targets(p) <=> e = f
      BY <2>1, <2>4, Distinct
    <3>3. p = EntityObj(e) <=> e = f
      BY <1>2, Distinct
    <3> QED
      BY <3>1, <3>2, <3>3
  <2>5. ASSUME NEW r \in ast.roles[e], NEW v \in ast.own[e][r]
        PROVE  RoleVerbObj(e, r, v) \in Targets(p) <=>
                \E s \in ast.roles[e] : p = RoleObj(e, s) /\ role_verbs[<<e, s>>][v] = r
    <3>1. \A s : p # RoleObj(e, s)
      BY <1>2, Distinct
    <3>2. RoleVerbObj(e, r, v) \notin Targets(p)
      BY <2>1, Distinct
    <3> QED
      BY <3>1, <3>2
  <2> QED
    BY <2>2, <2>3, <2>4, <2>5 DEF PointsTo
<1>3. ASSUME NEW f \in ast.entities, NEW w \in ast.verbs[f], p = VerbObj(f, w) PROVE PointsTo(p, e)
  <2>1. \A x : x \notin Targets(p)
    BY <1>1, <1>3, TargetsOf
  <2>2. EntityObj(e) \notin Targets(p)
    BY <2>1, Distinct
  <2>3. ASSUME NEW v \in ast.verbs[e]
        PROVE  VerbObj(e, v) \in Targets(p) <=>
                \/ p = EntityObj(e)
                \/ \E r \in ast.roles[e] : /\ v \in ast.own[e][r]
                                           /\ p = RoleVerbObj(e, r, v)
                                           /\ <<e, r, v>> \in linked
    <3>1. \A r : p # RoleVerbObj(e, r, v)
      BY <1>3, Distinct
    <3>2. p # EntityObj(e)
      BY <1>3, Distinct
    <3>3. VerbObj(e, v) \notin Targets(p)
      BY <2>1
    <3> QED
      BY <3>1, <3>2, <3>3
  <2>4. ASSUME NEW r \in ast.roles[e]
        PROVE  RoleObj(e, r) \in Targets(p) <=>
                \/ p = EntityObj(e)
                \/ \E s \in ast.roles[e] : p = RoleObj(e, s) /\ extends_role[<<e, s>>] = r
    <3>1. \A s : p # RoleObj(e, s)
      BY <1>3, Distinct
    <3>2. p # EntityObj(e)
      BY <1>3, Distinct
    <3>3. RoleObj(e, r) \notin Targets(p)
      BY <2>1
    <3> QED
      BY <3>1, <3>2, <3>3
  <2>5. ASSUME NEW r \in ast.roles[e], NEW v \in ast.own[e][r]
        PROVE  RoleVerbObj(e, r, v) \in Targets(p) <=>
                \E s \in ast.roles[e] : p = RoleObj(e, s) /\ role_verbs[<<e, s>>][v] = r
    <3>1. \A s : p # RoleObj(e, s)
      BY <1>3, Distinct
    <3>2. RoleVerbObj(e, r, v) \notin Targets(p)
      BY <2>1
    <3> QED
      BY <3>1, <3>2
  <2> QED
    BY <2>2, <2>3, <2>4, <2>5 DEF PointsTo
<1>4. ASSUME NEW f \in ast.entities, NEW q \in ast.roles[f], p = RoleObj(f, q) PROVE PointsTo(p, e)
  <2>0. f \in Entities /\ q \in Roles
    BY AstTypes
  <2>1. \A x : x \in Targets(p) <=>
          \/ \E v \in Verbs : /\ role_verbs[<<f, q>>][v] # NULL
                              /\ x = RoleVerbObj(f, role_verbs[<<f, q>>][v], v)
          \/ extends_role[<<f, q>>] # NULL /\ x = RoleObj(f, extends_role[<<f, q>>])
    BY <1>4, <2>0, TargetsOf
  <2>2. EntityObj(e) \notin Targets(p)
    BY <2>1, Distinct
  <2>3. ASSUME NEW v \in ast.verbs[e]
        PROVE  VerbObj(e, v) \in Targets(p) <=>
                \/ p = EntityObj(e)
                \/ \E r \in ast.roles[e] : /\ v \in ast.own[e][r]
                                           /\ p = RoleVerbObj(e, r, v)
                                           /\ <<e, r, v>> \in linked
    <3>1. \A r : p # RoleVerbObj(e, r, v)
      BY <1>4, Distinct
    <3>2. p # EntityObj(e)
      BY <1>4, Distinct
    <3>3. VerbObj(e, v) \notin Targets(p)
      BY <2>1, Distinct
    <3> QED
      BY <3>1, <3>2, <3>3
  <2>4. ASSUME NEW r \in ast.roles[e]
        PROVE  RoleObj(e, r) \in Targets(p) <=>
                \/ p = EntityObj(e)
                \/ \E s \in ast.roles[e] : p = RoleObj(e, s) /\ extends_role[<<e, s>>] = r
    <3>1. RoleObj(e, r) \in Targets(p) <=> e = f /\ extends_role[<<f, q>>] = r
      BY <1>1, <2>1, <2>4, Distinct, NullAssumption
    <3>2. p # EntityObj(e)
      BY <1>4, Distinct
    <3>3. \A s : p = RoleObj(e, s) <=> e = f /\ s = q
      BY <1>4, Distinct
    <3>4. q \in ast.roles[f]
      OBVIOUS
    <3> QED
      BY <3>1, <3>2, <3>3, <3>4
  <2>5. ASSUME NEW r \in ast.roles[e], NEW v \in ast.own[e][r]
        PROVE  RoleVerbObj(e, r, v) \in Targets(p) <=>
                \E s \in ast.roles[e] : p = RoleObj(e, s) /\ role_verbs[<<e, s>>][v] = r
    <3>1. v \in Verbs /\ r # NULL
      BY <1>1, <2>5, NullAssumption
    <3>2. RoleVerbObj(e, r, v) \in Targets(p) <=> e = f /\ role_verbs[<<f, q>>][v] = r
      BY <2>1, <3>1, Distinct
    <3>3. \A s : p = RoleObj(e, s) <=> e = f /\ s = q
      BY <1>4, Distinct
    <3>4. q \in ast.roles[f]
      OBVIOUS
    <3> QED
      BY <3>1, <3>2, <3>3, <3>4
  <2> QED
    BY <2>2, <2>3, <2>4, <2>5 DEF PointsTo
<1>5. ASSUME NEW f \in ast.entities, NEW q \in ast.roles[f], NEW w \in ast.own[f][q],
             p = RoleVerbObj(f, q, w)
      PROVE  PointsTo(p, e)
  <2>0. f \in Entities /\ q \in Roles /\ w \in Verbs
    BY AstTypes
  <2>1. \A x : x \in Targets(p) <=> <<f, q, w>> \in linked /\ x = VerbObj(f, w)
    BY <1>5, <2>0, TargetsOf
  <2>2. EntityObj(e) \notin Targets(p)
    BY <2>1, Distinct
  <2>3. ASSUME NEW v \in ast.verbs[e]
        PROVE  VerbObj(e, v) \in Targets(p) <=>
                \/ p = EntityObj(e)
                \/ \E r \in ast.roles[e] : /\ v \in ast.own[e][r]
                                           /\ p = RoleVerbObj(e, r, v)
                                           /\ <<e, r, v>> \in linked
    <3>1. VerbObj(e, v) \in Targets(p) <=> e = f /\ v = w /\ <<f, q, w>> \in linked
      BY <2>1, Distinct
    <3>2. p # EntityObj(e)
      BY <1>5, Distinct
    <3>3. \A r : p = RoleVerbObj(e, r, v) <=> e = f /\ r = q /\ v = w
      BY <1>5, Distinct
    <3>4. q \in ast.roles[f] /\ w \in ast.own[f][q]
      OBVIOUS
    <3> QED
      BY <3>1, <3>2, <3>3, <3>4
  <2>4. ASSUME NEW r \in ast.roles[e]
        PROVE  RoleObj(e, r) \in Targets(p) <=>
                \/ p = EntityObj(e)
                \/ \E s \in ast.roles[e] : p = RoleObj(e, s) /\ extends_role[<<e, s>>] = r
    <3>1. \A s : p # RoleObj(e, s)
      BY <1>5, Distinct
    <3>2. p # EntityObj(e)
      BY <1>5, Distinct
    <3>3. RoleObj(e, r) \notin Targets(p)
      BY <2>1, Distinct
    <3> QED
      BY <3>1, <3>2, <3>3
  <2>5. ASSUME NEW r \in ast.roles[e], NEW v \in ast.own[e][r]
        PROVE  RoleVerbObj(e, r, v) \in Targets(p) <=>
                \E s \in ast.roles[e] : p = RoleObj(e, s) /\ role_verbs[<<e, s>>][v] = r
    <3>1. \A s : p # RoleObj(e, s)
      BY <1>5, Distinct
    <3>2. RoleVerbObj(e, r, v) \notin Targets(p)
      BY <2>1, Distinct
    <3> QED
      BY <3>1, <3>2
  <2> QED
    BY <2>2, <2>3, <2>4, <2>5 DEF PointsTo
<1> QED
  BY <1>2, <1>3, <1>4, <1>5, Kinds

PointersHold ==
  ast \in Ast => \A e \in ast.entities : \A p \in Allocated(ast) : PointsTo(p, e)

(* The same as one formula of the state.                                   *)
LEMMA PointersAlways == PointersHold
  BY Pointers DEF PointersHold

(* Counting pointers is counting in the naturals.                          *)
LEMMA CountsAreNat ==
  ASSUME IsFiniteSet(Allocated(ast)), frames \in Seq((SUBSET Allocated(ast)) \ {{}}), NEW x
  PROVE  /\ IsFiniteSet(Users(x)) /\ Cardinality(Users(x)) \in Nat
         /\ Cardinality(Users(x)) = 0 <=> Users(x) = {}
         /\ Cardinality(Waits(x)) \in Nat
         /\ Cardinality(Waits(x)) = 0 <=> Waits(x) = {}
         /\ Root(x) \in Nat
<1>1. Users(x) \in SUBSET Allocated(ast)
  BY DEF Users
<1>2. IsFiniteSet(Users(x))
  BY <1>1, FS_Subset
<1>3. Cardinality(Users(x)) \in Nat /\ (Cardinality(Users(x)) = 0 <=> Users(x) = {})
  BY <1>2, FS_CardinalityType, FS_EmptySet
<1>4. Cardinality(Waits(x)) \in Nat /\ (Cardinality(Waits(x)) = 0 <=> Waits(x) = {})
  BY AtFinite DEF Waits
<1>5. Root(x) \in Nat
  BY DEF Root
<1> QED
  BY <1>2, <1>3, <1>4, <1>5

(* Every object is allocated with a count of one, for the one pointer the  *)
(* parser stores.                                                          *)
LEMMA InitCounted ==
  ASSUME RelInit, IInv
  PROVE  PointersInv /\ NoRoleCycle /\ FreedInv /\ Counted
<1>1. /\ ast \in Ast /\ ast \in Configs
      /\ extends_role = [x \in Entities \X Roles |-> NULL]
      /\ role_verbs = [x \in Entities \X Roles |->
                     [v \in Verbs |-> IF v \in ast.own[x[1]][x[2]] THEN x[2] ELSE NULL]]
      /\ linked = {}
      /\ refs = [o \in Objects |-> IF o \in Allocated(ast) THEN 1 ELSE 0]
      /\ ~releasing /\ frames = <<>> /\ freed = {}
  BY ConfigsAssumption DEF RelInit, Init
<1>2. /\ \A e \in Entities : \A r \in Roles : extends_role[<<e, r>>] = NULL
      /\ \A e \in Entities : \A r \in Roles : \A v \in Verbs :
           role_verbs[<<e, r>>][v] = IF v \in ast.own[e][r] THEN r ELSE NULL
  BY <1>1
<1>3. PointersInv
  BY <1>1, <1>2, FiniteAssumption DEF PointersInv
<1>4. NoRoleCycle
  <2> SUFFICES ASSUME NEW e \in Entities, NEW S \in SUBSET ast.roles[e],
                      \A r \in S : \E s \in S : extends_role[<<e, s>>] = r
               PROVE  S = {}
    BY DEF NoRoleCycle
  <2>1. S \subseteq Roles
    BY <1>1, AstTypes
  <2>2. ASSUME NEW r \in S PROVE FALSE
    <3>1. PICK s \in S : extends_role[<<e, s>>] = r
      OBVIOUS
    <3>2. s \in Roles /\ r \in Roles
      BY <2>1
    <3> QED
      BY <1>2, <3>1, <3>2, NullAssumption
  <2> QED
    BY <2>2
<1>5. FreedInv
  BY <1>1, EmptySeq DEF FreedInv
<1>6. \A x : Waits(x) = {}
  <2>1. Len(<<>>) = 0 /\ 1 .. 0 = {}
    BY EmptySeq
  <2> QED
    BY <1>1, <2>1 DEF Waits, At
<1>7. Allocated(ast) \subseteq Objects
  BY <1>1, AllocatedObjects
<1>8. \A x \in Allocated(ast) : refs[x] = 1
  BY <1>1, <1>7
<1>9. \A x : Users(x) = {p \in Allocated(ast) : x \in Targets(p)}
  BY <1>1 DEF Users
<1>10. ASSUME NEW x \in Allocated(ast)
       PROVE  \/ Root(x) = 1 /\ Users(x) = {}
              \/ Root(x) = 0 /\ \E p : Users(x) = {p}
  <2>1. ASSUME NEW e \in ast.entities, x = EntityObj(e)
        PROVE  Root(x) = 1 /\ Users(x) = {}
    <3>1. Root(x) = 1
      BY <1>1, <2>1 DEF Root, IsEntity
    <3>2. \A p \in Allocated(ast) : x \notin Targets(p)
      BY <1>1, <2>1, Pointers DEF PointsTo
    <3> QED
      BY <1>9, <3>1, <3>2
  <2>2. ASSUME NEW e \in ast.entities, NEW v \in ast.verbs[e], x = VerbObj(e, v)
        PROVE  Root(x) = 0 /\ Users(x) = {EntityObj(e)}
    <3>1. Root(x) = 0
      BY <2>2, Distinct DEF Root, IsEntity
    <3>2. \A p \in Allocated(ast) : x \in Targets(p) <=> p = EntityObj(e)
      BY <1>1, <2>2, Pointers DEF PointsTo
    <3>3. EntityObj(e) \in Allocated(ast)
      BY <1>1, Kinds
    <3> QED
      BY <1>9, <3>1, <3>2, <3>3
  <2>3. ASSUME NEW e \in ast.entities, NEW r \in ast.roles[e], x = RoleObj(e, r)
        PROVE  Root(x) = 0 /\ Users(x) = {EntityObj(e)}
    <3>1. Root(x) = 0
      BY <2>3, Distinct DEF Root, IsEntity
    <3>2. e \in Entities /\ ast.roles[e] \subseteq Roles /\ r # NULL
      BY <1>1, AstTypes, NullAssumption
    <3>3. \A s \in ast.roles[e] : extends_role[<<e, s>>] # r
      BY <1>2, <3>2
    <3>4. \A p \in Allocated(ast) : x \in Targets(p) <=> p = EntityObj(e)
      <4>1. \A p \in Allocated(ast) : RoleObj(e, r) \in Targets(p) <=>
              \/ p = EntityObj(e)
              \/ \E s \in ast.roles[e] : p = RoleObj(e, s) /\ extends_role[<<e, s>>] = r
        BY <1>1, Pointers DEF PointsTo
      <4> QED
        BY <2>3, <3>3, <4>1
    <3>5. EntityObj(e) \in Allocated(ast)
      BY <1>1, Kinds
    <3> QED
      BY <1>9, <3>1, <3>4, <3>5
  <2>4. ASSUME NEW e \in ast.entities, NEW r \in ast.roles[e], NEW v \in ast.own[e][r],
               x = RoleVerbObj(e, r, v)
        PROVE  Root(x) = 0 /\ Users(x) = {RoleObj(e, r)}
    <3>1. Root(x) = 0
      BY <2>4, Distinct DEF Root, IsEntity
    <3>2. /\ e \in Entities /\ ast.roles[e] \subseteq Roles /\ r \in Roles /\ r # NULL
          /\ v \in Verbs
      BY <1>1, AstTypes, NullAssumption
    <3>3. \A s \in ast.roles[e] : role_verbs[<<e, s>>][v] = r <=> s = r
      BY <1>2, <3>2
    <3>4. \A p \in Allocated(ast) : x \in Targets(p) <=> p = RoleObj(e, r)
      <4>1. ASSUME NEW p \in Allocated(ast)
            PROVE  RoleVerbObj(e, r, v) \in Targets(p) <=>
                     \E s \in ast.roles[e] : p = RoleObj(e, s) /\ role_verbs[<<e, s>>][v] = r
        <5>1. \A q \in ast.roles[e] : \A w \in ast.own[e][q] :
                RoleVerbObj(e, q, w) \in Targets(p) <=>
                  \E s \in ast.roles[e] : p = RoleObj(e, s) /\ role_verbs[<<e, s>>][w] = q
          <6>1. PointsTo(p, e)
            BY <1>1, Pointers
          <6> QED
            BY <6>1 DEF PointsTo
        <5> QED
          BY <5>1
      <4> QED
        BY <2>4, <3>3, <4>1
    <3>5. RoleObj(e, r) \in Allocated(ast)
      BY <1>1, Kinds
    <3> QED
      BY <1>9, <3>1, <3>4, <3>5
  <2> QED
    BY <1>1, <2>1, <2>2, <2>3, <2>4, Kinds
<1>11. ASSUME NEW x \in Allocated(ast)
       PROVE  refs[x] = Root(x) + Cardinality(Users(x)) + Cardinality(Waits(x))
  <2>1. Cardinality(Waits(x)) = 0
    BY <1>6, FS_EmptySet
  <2>2. CASE Root(x) = 1 /\ Users(x) = {}
    BY <1>8, <2>1, <2>2, FS_EmptySet
  <2>3. ASSUME Root(x) = 0, NEW p, Users(x) = {p}
        PROVE  refs[x] = Root(x) + Cardinality(Users(x)) + Cardinality(Waits(x))
    <3>1. Cardinality(Users(x)) = 1
      BY <2>3, FS_Singleton
    <3> QED
      BY <1>8, <2>1, <2>3, <3>1
  <2> QED
    BY <1>10, <2>2, <2>3
<1> QED
  BY <1>3, <1>4, <1>5, <1>11 DEF Counted

-----------------------------------------------------------------------------
(* Completing a role keeps the shape of the pointers.                      *)
LEMMA CompleteKeepsPointers ==
  ASSUME IInv, PointersInv, NEW r \in Roles, CompleteRole(r)
  PROVE  PointersInv'
<1> DEFINE base == BaseOf(ast, entity, r)
<1>0. PICK copied : Copies(r, base, copied)
  BY CompleteRoleCopies
<1>1. /\ entity \in Entities /\ entity \in ast.entities /\ r \in ast.roles[entity]
      /\ base \in Roles \cup {NULL}
      /\ base # NULL => <<entity, base>> \in type_complete
      /\ <<entity, r>> \notin type_complete
      /\ type_complete' = type_complete \cup {<<entity, r>>}
      /\ extends_role' = [extends_role EXCEPT ![<<entity, r>>] = base]
      /\ \A x \in Entities \X Roles : x # <<entity, r>> => role_verbs'[x] = role_verbs[x]
      /\ \A v \in Verbs :
           role_verbs'[<<entity, r>>][v] =
             IF v \in copied THEN role_verbs[<<entity, base>>][v]
             ELSE role_verbs[<<entity, r>>][v]
  BY <1>0, CompleteRoleTrees DEF IInv
<1>2. /\ ast' = ast
      /\ linked' = linked \cup {<<entity, role_verbs[<<entity, r>>][v], v>> : v \in LinkedVerbs(r)}
  BY DEF CompleteRole, VisitRole
<1>3. \A v \in Verbs :
        role_verbs[<<entity, r>>][v] = IF v \in ast.own[entity][r] THEN r ELSE NULL
  BY <1>1 DEF IInv, HeapInv, IncompleteRoles, Complete
<1>4. base # NULL => base \in ast.roles[entity]
  BY DEF BaseOf
<1>5. \A e \in Entities : \A s \in Roles : Complete(e, s) => <<e, s>> \in type_complete'
  BY <1>1 DEF Complete
<1>6. <<entity, r>> \in type_complete'
  BY <1>1
<1>7. extends_role \in [Entities \X Roles -> Roles \cup {NULL}]
  BY DEF IInv, TypeOK
<1> HIDE DEF base
<1>8. ASSUME NEW e \in Entities, NEW s \in Roles, extends_role'[<<e, s>>] # NULL
      PROVE  /\ <<e, s>> \in type_complete'
             /\ <<e, extends_role'[<<e, s>>]>> \in type_complete'
             /\ extends_role'[<<e, s>>] \in ast.roles[e]
  <2>1. CASE <<e, s>> = <<entity, r>>
    <3>1. e = entity /\ s = r /\ extends_role'[<<e, s>>] = base
      BY <1>1, <1>7, <2>1
    <3>2. Complete(entity, base)
      BY <1>1, <1>8, <3>1 DEF Complete
    <3>3. base \in Roles
      BY <1>1, <1>8, <3>1
    <3> QED
      BY <1>1, <1>4, <1>5, <1>6, <1>8, <3>1, <3>2, <3>3
  <2>2. CASE <<e, s>> # <<entity, r>>
    <3>1. extends_role'[<<e, s>>] = extends_role[<<e, s>>] /\ extends_role[<<e, s>>] \in Roles
      BY <1>1, <1>7, <1>8, <2>2
    <3>2. /\ Complete(e, s) /\ Complete(e, extends_role[<<e, s>>])
          /\ extends_role[<<e, s>>] \in ast.roles[e]
      BY <1>8, <3>1 DEF PointersInv
    <3> QED
      BY <1>5, <3>1, <3>2
  <2> QED
    BY <2>1, <2>2
<1>9. ASSUME NEW e \in Entities, NEW s \in Roles, NEW v \in Verbs, <<e, s, v>> \in linked'
      PROVE  <<e, s>> \in type_complete' /\ v \in ast.own[e][s] /\ v \in ast.verbs[e]
  <2>1. CASE <<e, s, v>> \in linked
    BY <1>5, <2>1 DEF PointersInv
  <2>2. CASE <<e, s, v>> \notin linked
    <3>1. PICK w \in LinkedVerbs(r) : <<e, s, v>> = <<entity, role_verbs[<<entity, r>>][w], w>>
      BY <1>2, <1>9, <2>2
    <3>2. v = w /\ e = entity /\ s = role_verbs[<<entity, r>>][v]
      BY <3>1
    <3>3. v \in ast.verbs[entity] /\ role_verbs[<<entity, r>>][v] # NULL
      BY <3>1, <3>2, NullAssumption DEF LinkedVerbs
    <3>4. v \in ast.own[entity][r] /\ s = r
      BY <1>3, <3>2, <3>3
    <3> QED
      BY <1>6, <3>2, <3>3, <3>4
  <2> QED
    BY <2>1, <2>2
<1>10. ASSUME NEW e \in Entities, NEW s \in Roles, NEW v \in Verbs, v \in ast.own[e][s]
       PROVE  role_verbs'[<<e, s>>][v] = s
  <2>1. role_verbs[<<e, s>>][v] = s /\ s # NULL
    BY <1>10, NullAssumption DEF PointersInv
  <2>2. CASE <<e, s>> = <<entity, r>>
    <3>1. v \notin copied
      BY <1>0, <2>1, <2>2, CopiedAreInherited
    <3> QED
      BY <1>1, <2>1, <2>2, <3>1
  <2>3. CASE <<e, s>> # <<entity, r>>
    BY <1>1, <2>1, <2>3
  <2> QED
    BY <2>2, <2>3
<1>11. IsFiniteSet(Allocated(ast)')
  BY <1>2 DEF PointersInv, Allocated
<1> QED
  BY <1>2, <1>8, <1>9, <1>10, <1>11 DEF PointersInv, Complete

(* A role that is completed is not yet the base of another.                *)
LEMMA CompleteMakesNoCycle ==
  ASSUME IInv, PointersInv, NoRoleCycle, NEW r \in Roles, CompleteRole(r)
  PROVE  NoRoleCycle'
<1> DEFINE base == BaseOf(ast, entity, r)
<1>1. /\ entity \in Entities /\ r \in ast.roles[entity]
      /\ base # NULL => <<entity, base>> \in type_complete
      /\ <<entity, r>> \notin type_complete
      /\ extends_role' = [extends_role EXCEPT ![<<entity, r>>] = base]
  BY CompleteRoleTrees DEF IInv
<1>2. ast' = ast /\ ast \in Ast
  BY DEF CompleteRole, VisitRole, IInv, TypeOK
<1>3. extends_role \in [Entities \X Roles -> Roles \cup {NULL}]
  BY DEF IInv, TypeOK
<1> HIDE DEF base
<1> SUFFICES ASSUME NEW e \in Entities, NEW S \in SUBSET ast.roles[e],
                    \A q \in S : \E s \in S : extends_role'[<<e, s>>] = q
             PROVE  S = {}
  BY <1>2 DEF NoRoleCycle
<1>4. S \subseteq Roles
  BY <1>2, AstTypes
<1>5. CASE e = entity /\ r \in S
  <2>1. PICK s \in S : extends_role'[<<e, s>>] = r
    BY <1>5
  <2>2. s \in Roles
    BY <1>4
  <2>3. r # NULL
    BY NullAssumption
  <2>4. CASE s = r
    <3>1. base = r
      BY <1>1, <1>3, <1>5, <2>1, <2>4
    <3> QED
      BY <1>1, <2>3, <3>1
  <2>5. CASE s # r
    <3>1. extends_role[<<e, s>>] = r
      BY <1>1, <1>3, <1>5, <2>1, <2>2, <2>5
    <3>2. Complete(e, r)
      BY <2>2, <2>3, <3>1 DEF PointersInv
    <3> QED
      BY <1>1, <1>5, <3>2 DEF Complete
  <2> QED
    BY <2>4, <2>5
<1>6. CASE ~(e = entity /\ r \in S)
  <2>1. \A s \in S : extends_role'[<<e, s>>] = extends_role[<<e, s>>]
    BY <1>1, <1>3, <1>4, <1>6
  <2>2. \A q \in S : \E s \in S : extends_role[<<e, s>>] = q
    BY <2>1
  <2> QED
    BY <2>2 DEF NoRoleCycle
<1> QED
  BY <1>5, <1>6

(* Every count that completing a role raises is raised for one new pointer *)
(* and every other count keeps its pointers.                               *)
LEMMA CompleteKeepsCounts ==
  ASSUME IInv, PointersInv, PointersInv', FreedInv, Counted, ~releasing,
         NEW r \in Roles, CompleteRole(r), UNCHANGED relVars
  PROVE  Counted'
<1> DEFINE base == BaseOf(ast, entity, r)
<1>0. PICK copied : Copies(r, base, copied)
  BY CompleteRoleCopies
<1>1. /\ entity \in Entities /\ entity \in ast.entities /\ r \in ast.roles[entity]
      /\ base \in Roles \cup {NULL}
      /\ <<entity, r>> \notin type_complete
      /\ extends_role' = [extends_role EXCEPT ![<<entity, r>>] = base]
      /\ \A x \in Entities \X Roles : x # <<entity, r>> => role_verbs'[x] = role_verbs[x]
      /\ \A v \in Verbs :
           role_verbs'[<<entity, r>>][v] =
             IF v \in copied THEN role_verbs[<<entity, base>>][v]
             ELSE role_verbs[<<entity, r>>][v]
  BY <1>0, CompleteRoleTrees DEF IInv
<1>2. /\ ast' = ast /\ ast \in Ast
      /\ linked' = linked \cup {<<entity, role_verbs[<<entity, r>>][v], v>> : v \in LinkedVerbs(r)}
      /\ refs' = [o \in Objects |-> IF o \in Referenced(r, base, copied) THEN refs[o] + 1 ELSE refs[o]]
      /\ extends_role[<<entity, r>>] = NULL
  BY <1>0 DEF Copies, CompleteRole, VisitRole, IInv, TypeOK
<1>3. \A v \in Verbs :
        role_verbs[<<entity, r>>][v] = IF v \in ast.own[entity][r] THEN r ELSE NULL
  BY <1>1 DEF IInv, HeapInv, IncompleteRoles, Complete
<1>4. extends_role \in [Entities \X Roles -> Roles \cup {NULL}]
  BY DEF IInv, TypeOK
<1>5. releasing' = releasing /\ frames' = frames /\ freed' = freed /\ freed = {}
  BY DEF relVars, FreedInv
<1>6. /\ \A e \in Entities : ast.roles[e] \subseteq Roles /\ ast.verbs[e] \subseteq Verbs
      /\ \A e \in Entities : \A s \in Roles : ast.own[e][s] \subseteq Verbs
      /\ ast.entities \subseteq Entities
  BY <1>2, AstTypes
<1>7. Allocated(ast)' = Allocated(ast)
  BY <1>2 DEF Allocated
<1>8. \A e \in ast.entities : \A p \in Allocated(ast) : PointsTo(p, e) /\ PointsTo(p, e)'
  <2>1. PointersHold
    BY PointersAlways
  <2>2. PointersHold'
    BY PointersAlways, PTL
  <2>3. \A e \in ast.entities : \A p \in Allocated(ast) : PointsTo(p, e)'
    BY <1>2, <1>7, <2>2 DEF PointersHold
  <2> QED
    BY <1>2, <2>1, <2>3 DEF PointersHold
<1>9. /\ \A x : Users(x) = {p \in Allocated(ast) : x \in Targets(p)}
      /\ \A x : Users(x)' = {p \in Allocated(ast) : x \in Targets(p)'}
  BY <1>5, <1>7 DEF Users
<1>10. \A x : Root(x)' = Root(x) /\ Waits(x)' = Waits(x)
  BY <1>2, <1>5 DEF Root, IsEntity, Waits, At
<1>11. \A x \in Allocated(ast) :
         /\ Root(x) \in Nat /\ Cardinality(Waits(x)) \in Nat
         /\ IsFiniteSet(Users(x)) /\ Cardinality(Users(x)) \in Nat
         /\ refs[x] = Root(x) + Cardinality(Users(x)) + Cardinality(Waits(x))
  BY CountsAreNat DEF PointersInv, FreedInv, Counted
<1>12. \A x \in Allocated(ast) :
         refs'[x] = IF x \in Referenced(r, base, copied) THEN refs[x] + 1 ELSE refs[x]
  BY <1>2, AllocatedObjects
<1> DEFINE Balanced(x) ==
             refs'[x] = Root(x)' + Cardinality(Users(x)') + Cardinality(Waits(x)')
<1>13. ASSUME NEW x \in Allocated(ast), x \notin Referenced(r, base, copied),
              \A p \in Allocated(ast) : x \in Targets(p)' <=> x \in Targets(p)
       PROVE  Balanced(x)
  <2>1. Users(x)' = Users(x)
    BY <1>9, <1>13
  <2>2. refs'[x] = refs[x]
    BY <1>12, <1>13
  <2> QED
    BY <1>10, <1>11, <2>1, <2>2
<1>14. ASSUME NEW x \in Allocated(ast), x \in Referenced(r, base, copied),
              NEW n \in Allocated(ast), x \notin Targets(n),
              \A p \in Allocated(ast) : x \in Targets(p)' <=> x \in Targets(p) \/ p = n
       PROVE  Balanced(x)
  <2>1. Users(x)' = Users(x) \cup {n} /\ n \notin Users(x)
    BY <1>9, <1>14
  <2>2. Cardinality(Users(x) \cup {n}) = Cardinality(Users(x)) + 1
    BY <1>11, <2>1, FS_AddElement
  <2>3. refs'[x] = refs[x] + 1
    BY <1>12, <1>14
  <2> QED
    BY <1>10, <1>11, <2>1, <2>2, <2>3
<1> HIDE DEF Balanced, base
<1>15. /\ \A v : v \in LinkedVerbs(r) <=> v \in ast.own[entity][r] /\ v \in ast.verbs[entity]
       /\ \A v \in copied :
            /\ v \in Verbs /\ base # NULL
            /\ role_verbs[<<entity, r>>][v] = NULL
            /\ role_verbs[<<entity, base>>][v] # NULL
  <2>1. /\ Held(entity, r) = {v \in Verbs : role_verbs[<<entity, r>>][v] # NULL}
        /\ Held(entity, base) = {v \in Verbs : role_verbs[<<entity, base>>][v] # NULL}
    BY Zenon DEF Held
  <2>2. \A v \in Verbs : v \in Held(entity, r) <=> v \in ast.own[entity][r]
    BY <1>3, <2>1, NullAssumption
  <2> QED
    BY <1>0, <1>1, <1>6, <2>1, <2>2, CopiedAreInherited DEF LinkedVerbs
<1>16. \A x : x \in Referenced(r, base, copied) <=>
         \/ base # NULL /\ x = RoleObj(entity, base)
         \/ \E v \in LinkedVerbs(r) : x = VerbObj(entity, v)
         \/ \E v \in copied :
              x = RoleVerbObj(entity, role_verbs[<<entity, base>>][v], v)
  BY Zenon DEF Referenced
<1>17. ASSUME NEW e \in ast.entities, NEW x, x = EntityObj(e) PROVE Balanced(x)
  <2>1. x \in Allocated(ast)
    BY <1>2, <1>17, Kinds
  <2>2. x \notin Referenced(r, base, copied)
    BY <1>16, <1>17, Distinct
  <2>3. \A p \in Allocated(ast) : x \notin Targets(p) /\ x \notin Targets(p)'
    BY <1>8, <1>17 DEF PointsTo
  <2> QED
    BY <1>13, <2>1, <2>2, <2>3
<1>18. ASSUME NEW e \in ast.entities, NEW v \in ast.verbs[e], NEW x, x = VerbObj(e, v)
       PROVE  Balanced(x)
  <2>1. x \in Allocated(ast)
    BY <1>2, <1>18, Kinds
  <2>2. ASSUME NEW p \in Allocated(ast)
        PROVE  /\ x \in Targets(p) <=>
                    \/ p = EntityObj(e)
                    \/ \E q \in ast.roles[e] : /\ v \in ast.own[e][q]
                                               /\ p = RoleVerbObj(e, q, v)
                                               /\ <<e, q, v>> \in linked
               /\ x \in Targets(p)' <=>
                    \/ p = EntityObj(e)
                    \/ \E q \in ast.roles[e] : /\ v \in ast.own[e][q]
                                               /\ p = RoleVerbObj(e, q, v)
                                               /\ <<e, q, v>> \in linked'
    <3>1. PointsTo(p, e) /\ PointsTo(p, e)'
      BY <1>8
    <3> QED
      BY <1>2, <1>18, <3>1 DEF PointsTo
  <2>3. x \in Referenced(r, base, copied) <=> e = entity /\ v \in LinkedVerbs(r)
    BY <1>16, <1>18, Distinct
  <2>4. \A q \in ast.roles[e] : v \in ast.own[e][q] =>
          (<<e, q, v>> \in linked' <=>
             \/ <<e, q, v>> \in linked
             \/ e = entity /\ q = r /\ v \in LinkedVerbs(r))
    BY <1>2, <1>3, <1>6, <1>15
  <2>5. CASE e = entity /\ v \in LinkedVerbs(r)
    <3>1. v \in ast.own[e][r] /\ r \in ast.roles[e]
      BY <1>1, <1>15, <2>5
    <3>2. RoleVerbObj(e, r, v) \in Allocated(ast)
      BY <1>2, <3>1, Kinds
    <3>3. <<e, r, v>> \notin linked
      BY <1>1, <1>6, <2>5, <3>1 DEF PointersInv, Complete
    <3>4. x \notin Targets(RoleVerbObj(e, r, v))
      <4>1. /\ RoleVerbObj(e, r, v) # EntityObj(e)
            /\ \A q : RoleVerbObj(e, r, v) = RoleVerbObj(e, q, v) => q = r
        BY Distinct
      <4> QED
        BY <2>2, <3>2, <3>3, <4>1
    <3>5. \A p \in Allocated(ast) : x \in Targets(p)' <=> x \in Targets(p) \/ p = RoleVerbObj(e, r, v)
      BY <2>2, <2>4, <2>5, <3>1
    <3> QED
      BY <1>14, <2>1, <2>3, <2>5, <3>2, <3>4, <3>5
  <2>6. CASE ~(e = entity /\ v \in LinkedVerbs(r))
    <3>1. \A p \in Allocated(ast) : x \in Targets(p)' <=> x \in Targets(p)
      BY <2>2, <2>4, <2>6
    <3> QED
      BY <1>13, <2>1, <2>3, <2>6, <3>1
  <2> QED
    BY <2>5, <2>6
<1>19. ASSUME NEW e \in ast.entities, NEW q \in ast.roles[e], NEW x, x = RoleObj(e, q)
       PROVE  Balanced(x)
  <2>1. x \in Allocated(ast) /\ q \in Roles /\ e \in Entities /\ q # NULL
    BY <1>2, <1>6, <1>19, Kinds, NullAssumption
  <2>2. ASSUME NEW p \in Allocated(ast)
        PROVE  /\ x \in Targets(p) <=>
                    \/ p = EntityObj(e)
                    \/ \E s \in ast.roles[e] : p = RoleObj(e, s) /\ extends_role[<<e, s>>] = q
               /\ x \in Targets(p)' <=>
                    \/ p = EntityObj(e)
                    \/ \E s \in ast.roles[e] : p = RoleObj(e, s) /\ extends_role'[<<e, s>>] = q
    <3>1. PointsTo(p, e) /\ PointsTo(p, e)'
      BY <1>8
    <3> QED
      BY <1>2, <1>19, <3>1 DEF PointsTo
  <2>3. x \in Referenced(r, base, copied) <=> e = entity /\ q = base
    BY <1>16, <1>19, <2>1, Distinct
  <2>4. \A s \in ast.roles[e] :
          extends_role'[<<e, s>>] = q <=>
            \/ extends_role[<<e, s>>] = q
            \/ e = entity /\ s = r /\ q = base
    BY <1>1, <1>2, <1>4, <1>6, <2>1
  <2>5. CASE e = entity /\ q = base
    <3>1. RoleObj(e, r) \in Allocated(ast)
      BY <1>1, <1>2, <2>5, Kinds
    <3>2. x \notin Targets(RoleObj(e, r))
      <4>1. /\ RoleObj(e, r) # EntityObj(e)
            /\ \A s : RoleObj(e, r) = RoleObj(e, s) => s = r
        BY Distinct
      <4>2. extends_role[<<e, r>>] # q
        BY <1>2, <2>1, <2>5
      <4> QED
        BY <2>2, <3>1, <4>1, <4>2
    <3>3. \A p \in Allocated(ast) : x \in Targets(p)' <=> x \in Targets(p) \/ p = RoleObj(e, r)
      BY <1>1, <2>2, <2>4, <2>5
    <3> QED
      BY <1>14, <2>1, <2>3, <2>5, <3>1, <3>2, <3>3
  <2>6. CASE ~(e = entity /\ q = base)
    <3>1. \A p \in Allocated(ast) : x \in Targets(p)' <=> x \in Targets(p)
      BY <2>2, <2>4, <2>6
    <3> QED
      BY <1>13, <2>1, <2>3, <2>6, <3>1
  <2> QED
    BY <2>5, <2>6
<1>20. ASSUME NEW e \in ast.entities, NEW q \in ast.roles[e], NEW v \in ast.own[e][q],
              NEW x, x = RoleVerbObj(e, q, v)
       PROVE  Balanced(x)
  <2>1. x \in Allocated(ast) /\ q \in Roles /\ e \in Entities /\ v \in Verbs /\ q # NULL
    BY <1>2, <1>6, <1>20, Kinds, NullAssumption
  <2>2. ASSUME NEW p \in Allocated(ast)
        PROVE  /\ x \in Targets(p) <=>
                    \E s \in ast.roles[e] : p = RoleObj(e, s) /\ role_verbs[<<e, s>>][v] = q
               /\ x \in Targets(p)' <=>
                    \E s \in ast.roles[e] : p = RoleObj(e, s) /\ role_verbs'[<<e, s>>][v] = q
    <3>1. PointsTo(p, e) /\ PointsTo(p, e)'
      BY <1>8
    <3> QED
      BY <1>2, <1>20, <3>1 DEF PointsTo
  <2> DEFINE gains == /\ e = entity
                      /\ v \in copied
                      /\ role_verbs[<<entity, base>>][v] = q
  <2>3. x \in Referenced(r, base, copied) <=> gains
    BY <1>16, <1>20, Distinct
  <2>4. \A s \in ast.roles[e] :
          role_verbs'[<<e, s>>][v] = q <=> role_verbs[<<e, s>>][v] = q \/ (s = r /\ gains)
    <3> SUFFICES ASSUME NEW s \in ast.roles[e]
                 PROVE  role_verbs'[<<e, s>>][v] = q <=>
                          role_verbs[<<e, s>>][v] = q \/ (s = r /\ gains)
      OBVIOUS
    <3>1. s \in Roles
      BY <1>6, <2>1
    <3>2. CASE e = entity /\ s = r
      BY <1>1, <1>15, <2>1, <3>2
    <3>3. CASE ~(e = entity /\ s = r)
      <4>1. role_verbs'[<<e, s>>] = role_verbs[<<e, s>>]
        BY <1>1, <2>1, <3>1, <3>3
      <4> QED
        BY <3>3, <4>1
    <3> QED
      BY <3>2, <3>3
  <2>5. gains => role_verbs[<<e, r>>][v] # q
    BY <1>15, <2>1
  <2> HIDE DEF gains
  <2>6. CASE gains
    <3>1. e = entity
      BY <2>6 DEF gains
    <3>2. RoleObj(e, r) \in Allocated(ast)
      BY <1>1, <1>2, <3>1, Kinds
    <3>3. x \notin Targets(RoleObj(e, r))
      <4>1. \A s : RoleObj(e, r) = RoleObj(e, s) => s = r
        BY Distinct
      <4> QED
        BY <2>2, <2>5, <2>6, <3>2, <4>1
    <3>4. \A p \in Allocated(ast) : x \in Targets(p)' <=> x \in Targets(p) \/ p = RoleObj(e, r)
      BY <1>1, <2>2, <2>4, <2>6, <3>1
    <3> QED
      BY <1>14, <2>1, <2>3, <2>6, <3>2, <3>3, <3>4
  <2>7. CASE ~gains
    <3>1. \A p \in Allocated(ast) : x \in Targets(p)' <=> x \in Targets(p)
      <4>1. \A s \in ast.roles[e] :
              role_verbs'[<<e, s>>][v] = q <=> role_verbs[<<e, s>>][v] = q
        BY <2>4, <2>7
      <4> QED
        BY <2>2, <4>1
    <3> QED
      BY <1>13, <2>1, <2>3, <2>7, <3>1
  <2> QED
    BY <2>6, <2>7
<1>21. \A x \in Allocated(ast) : Balanced(x)
  BY <1>2, <1>17, <1>18, <1>19, <1>20, Kinds
<1> QED
  BY <1>7, <1>21 DEF Counted, Balanced

-----------------------------------------------------------------------------
(* Steps that leave the heap and the stack alone.                          *)
LEMMA HeapUntouched ==
  ASSUME PointersInv, NoRoleCycle, Counted, UNCHANGED <<ast, heapVars, relVars>>
  PROVE  PointersInv' /\ NoRoleCycle' /\ Counted'
<1>1. /\ ast' = ast /\ type_complete' = type_complete /\ extends_role' = extends_role
      /\ role_verbs' = role_verbs /\ linked' = linked /\ refs' = refs
      /\ releasing' = releasing /\ frames' = frames /\ freed' = freed
  BY DEF heapVars, relVars
<1>2. Allocated(ast)' = Allocated(ast)
  BY <1>1 DEF Allocated
<1>3. PointersInv'
  BY <1>1, <1>2 DEF PointersInv, Complete
<1>4. NoRoleCycle'
  BY <1>1 DEF NoRoleCycle
<1>5. Counted'
  <2>1. \A x : Root(x)' = Root(x) /\ Waits(x)' = Waits(x)
    BY <1>1 DEF Root, IsEntity, Waits, At
  <2>2. \A p : Targets(p)' = Targets(p)
    <3>1. \A e, r : Held(e, r)' = Held(e, r)
      BY <1>1 DEF Held
    <3>2. \A p : Holds(p)' = Holds(p)
      BY <1>1, <3>1 DEF Holds, EntityHolds, RoleHolds, RoleVerbHolds
    <3> QED
      BY <3>2 DEF Targets
  <2>3. \A x : Users(x)' = Users(x)
    BY <1>1, <1>2, <2>2 DEF Users
  <2> QED
    BY <1>1, <1>2, <2>1, <2>3 DEF Counted
<1> QED
  BY <1>3, <1>4, <1>5

(* The invariant of the analyzer does not speak of the stack, and of the   *)
(* counts only that they are naturals.                                     *)
LEMMA AnalyzerUntouched ==
  ASSUME IInv, refs' \in [Objects -> Nat],
         UNCHANGED <<ast, pc, loopVars, fail, errors, type_complete, extends_role,
                     role_verbs, linked>>
  PROVE  IInv'
<1>1. TypeOK'
  BY DEF IInv, TypeOK, loopVars
<1>2. HeapInv'
  BY DEF IInv, HeapInv, CompletedRoles, IncompleteRoles, LoopsIncomplete, Complete
<1>3. PassInv'
  BY DEF IInv, PassInv, Complete, loopVars
<1>4. SoundSoFar' /\ StatusInv'
  BY DEF IInv, SoundSoFar, StatusInv, Complete, Whole, loopVars
<1> QED
  BY <1>1, <1>2, <1>3, <1>4 DEF IInv

(* A step of endorse_analyze.                                              *)
LEMMA AnalyzeStep ==
  ASSUME RelInv, Analyze
  PROVE  RelInv'
<1>1. IInv /\ PointersInv /\ NoRoleCycle /\ FreedInv /\ Counted /\ ~releasing
      /\ Next /\ UNCHANGED relVars
  BY DEF RelInv, Analyze
<1>2. IInv'
  BY <1>1, NextType, NextHeap, NextPassInv, NextSound, NextStatus DEF IInv
<1>3. \/ \E r \in Roles : CompleteRole(r)
      \/ UNCHANGED heapVars
  BY <1>1 DEF Next, RoleStep, vars, VisitEntity, SkipCompleteRole, DeferRole, VisitRole,
         CircularLoop, NextPass, EntityDone, Return, Returned
<1>4. ast' = ast
  BY <1>1 DEF Next, RoleStep, vars, VisitEntity, SkipCompleteRole, DeferRole, CompleteRole,
         VisitRole, CircularLoop, NextPass, EntityDone, Return, Returned
<1>5. PointersInv' /\ NoRoleCycle' /\ Counted'
  <2>1. ASSUME NEW r \in Roles, CompleteRole(r)
        PROVE  PointersInv' /\ NoRoleCycle' /\ Counted'
    <3>1. PointersInv' /\ NoRoleCycle'
      BY <1>1, <2>1, CompleteKeepsPointers, CompleteMakesNoCycle
    <3> QED
      BY <1>1, <2>1, <3>1, CompleteKeepsCounts
  <2>2. CASE UNCHANGED heapVars
    BY <1>1, <1>4, <2>2, HeapUntouched
  <2> QED
    BY <1>3, <2>1, <2>2
<1>6. FreedInv'
  <2>1. Allocated(ast)' = Allocated(ast)
    BY <1>4 DEF Allocated
  <2>2. releasing' = releasing /\ frames' = frames /\ freed' = freed
    BY <1>1 DEF relVars
  <2> QED
    BY <1>1, <2>1, <2>2 DEF FreedInv
<1> QED
  BY <1>2, <1>5, <1>6 DEF RelInv

(* What an object points to depends on the syntax tree and the trees of    *)
(* the roles only.                                                         *)
LEMMA HoldsFrame ==
  ASSUME UNCHANGED <<ast, extends_role, role_verbs, linked>>
  PROVE  \A p : Holds(p)' = Holds(p) /\ Targets(p)' = Targets(p)
<1>1. \A e, r : Held(e, r)' = Held(e, r)
  BY DEF Held
<1>2. \A p : Holds(p)' = Holds(p)
  BY <1>1 DEF Holds, EntityHolds, RoleHolds, RoleVerbHolds
<1> QED
  BY <1>2 DEF Targets

(* The same for the shape of the pointers.                                 *)
LEMMA ShapeFrame ==
  ASSUME PointersInv, NoRoleCycle,
         UNCHANGED <<ast, type_complete, extends_role, role_verbs, linked>>
  PROVE  PointersInv' /\ NoRoleCycle'
<1>1. Allocated(ast)' = Allocated(ast)
  BY DEF Allocated
<1> QED
  BY <1>1 DEF PointersInv, NoRoleCycle, Complete

(* Before the release every object of the config has a pointer to it.      *)
LEMMA EveryObjectHasAPointer ==
  ASSUME IInv, PointersInv, FreedInv, Counted, ~releasing, NEW x \in Allocated(ast)
  PROVE  refs[x] \in Nat /\ refs[x] # 0
<1>1. ast \in Ast /\ freed = {}
  BY DEF IInv, TypeOK, FreedInv
<1>2. /\ Root(x) \in Nat /\ Cardinality(Waits(x)) \in Nat /\ Cardinality(Users(x)) \in Nat
      /\ Cardinality(Users(x)) = 0 <=> Users(x) = {}
      /\ refs[x] = Root(x) + Cardinality(Users(x)) + Cardinality(Waits(x))
  BY CountsAreNat DEF PointersInv, FreedInv, Counted
<1>3. Users(x) = {p \in Allocated(ast) : x \in Targets(p)}
  BY <1>1 DEF Users
<1>4. Root(x) = 1 \/ Users(x) # {}
  <2>1. ASSUME NEW e \in ast.entities, x = EntityObj(e) PROVE Root(x) = 1
    BY <2>1 DEF Root, IsEntity
  <2>2. ASSUME NEW e \in ast.entities, NEW v \in ast.verbs[e], x = VerbObj(e, v)
        PROVE  Users(x) # {}
    <3>1. EntityObj(e) \in Allocated(ast)
      BY <1>1, Kinds
    <3>2. PointsTo(EntityObj(e), e)
      BY <1>1, <3>1, Pointers
    <3>3. x \in Targets(EntityObj(e))
      BY <2>2, <3>2 DEF PointsTo
    <3> QED
      BY <1>3, <3>1, <3>3
  <2>3. ASSUME NEW e \in ast.entities, NEW r \in ast.roles[e], x = RoleObj(e, r)
        PROVE  Users(x) # {}
    <3>1. EntityObj(e) \in Allocated(ast)
      BY <1>1, Kinds
    <3>2. PointsTo(EntityObj(e), e)
      BY <1>1, <3>1, Pointers
    <3>3. x \in Targets(EntityObj(e))
      BY <2>3, <3>2 DEF PointsTo
    <3> QED
      BY <1>3, <3>1, <3>3
  <2>4. ASSUME NEW e \in ast.entities, NEW r \in ast.roles[e], NEW v \in ast.own[e][r],
               x = RoleVerbObj(e, r, v)
        PROVE  Users(x) # {}
    <3>1. RoleObj(e, r) \in Allocated(ast)
      BY <1>1, Kinds
    <3>2. PointsTo(RoleObj(e, r), e)
      BY <1>1, <3>1, Pointers
    <3>3. e \in Entities /\ r \in Roles /\ v \in Verbs
      BY <1>1, AstTypes
    <3>4. role_verbs[<<e, r>>][v] = r
      BY <3>3 DEF PointersInv
    <3>5. x \in Targets(RoleObj(e, r))
      <4>1. RoleVerbObj(e, r, v) \in Targets(RoleObj(e, r)) <=>
              \E s \in ast.roles[e] : RoleObj(e, r) = RoleObj(e, s) /\ role_verbs[<<e, s>>][v] = r
        BY <3>2 DEF PointsTo
      <4> QED
        BY <2>4, <3>4, <4>1
    <3> QED
      BY <1>3, <3>1, <3>5
  <2> QED
    BY <1>1, <2>1, <2>2, <2>3, <2>4, Kinds
<1> QED
  BY <1>2, <1>4

(* The config hands its pointers to the entities over to the stack.        *)
LEMMA ReleaseConfigStep ==
  ASSUME RelInv, ReleaseConfig
  PROVE  RelInv'
<1>1. /\ IInv /\ PointersInv /\ NoRoleCycle /\ FreedInv /\ Counted
      /\ Done /\ ~releasing /\ releasing' = TRUE
      /\ frames' = Push(<<>>, {EntityObj(e) : e \in ast.entities})
      /\ UNCHANGED <<vars, freed>>
  BY DEF RelInv, ReleaseConfig
<1>2. /\ UNCHANGED <<ast, pc, loopVars, fail, errors, type_complete, extends_role,
                     role_verbs, linked, refs>>
      /\ freed' = freed /\ freed = {} /\ frames = <<>>
  BY <1>1 DEF vars, heapVars, FreedInv
<1>3. IInv'
  <2>1. refs' \in [Objects -> Nat]
    BY <1>1, <1>2 DEF IInv, TypeOK
  <2> QED
    BY <1>1, <1>2, <2>1, AnalyzerUntouched
<1>4. PointersInv' /\ NoRoleCycle'
  BY <1>1, <1>2, ShapeFrame
<1>5. Allocated(ast)' = Allocated(ast) /\ ast \in Ast
  BY <1>1, <1>2 DEF Allocated, IInv, TypeOK
<1> DEFINE S == (SUBSET Allocated(ast)) \ {{}}
           tree == {EntityObj(e) : e \in ast.entities}
<1>6. <<>> \in Seq(S) /\ tree \in (S \cup {{}}) /\ \A x : At(<<>>, x) = {}
  <2>1. tree \in SUBSET Allocated(ast)
    BY <1>5, Kinds
  <2>2. Len(<<>>) = 0 /\ 1 .. 0 = {}
    BY EmptySeq
  <2> QED
    BY <2>1, <2>2, EmptySeq DEF At
<1> HIDE DEF S, tree
<1>7. /\ Push(<<>>, tree) \in Seq(S)
      /\ \A x : x \in tree => Cardinality(At(Push(<<>>, tree), x)) = Cardinality(At(<<>>, x)) + 1
      /\ \A x : x \notin tree => At(Push(<<>>, tree), x) = At(<<>>, x)
  BY <1>6, PushAt
<1>8. frames' = Push(<<>>, tree)
  BY <1>1 DEF tree
<1>9. ASSUME NEW x \in Allocated(ast)
      PROVE  /\ refs'[x] = Root(x)' + Cardinality(Users(x)') + Cardinality(Waits(x)')
             /\ refs'[x] # 0
  <2>1. /\ Root(x) \in Nat /\ Cardinality(Users(x)) \in Nat
        /\ refs[x] = Root(x) + Cardinality(Users(x)) + Cardinality(Waits(x))
    BY <1>1, CountsAreNat DEF PointersInv, FreedInv, Counted
  <2>2. Waits(x) = {} /\ Cardinality({}) = 0
    BY <1>2, <1>6, FS_EmptySet DEF Waits
  <2>3. Root(x) = (IF x \in tree THEN 1 ELSE 0) /\ Root(x)' = 0
    BY <1>1 DEF Root, IsEntity, tree
  <2>4. Cardinality(Waits(x)') = IF x \in tree THEN 1 ELSE 0
    <3>1. Waits(x)' = At(Push(<<>>, tree), x)
      BY <1>8 DEF Waits, At
    <3>2. Cardinality(At(<<>>, x)) = 0
      BY <1>6, <2>2
    <3>3. CASE x \in tree
      BY <1>7, <3>1, <3>2, <3>3
    <3>4. CASE x \notin tree
      BY <1>7, <3>1, <3>2, <3>4
    <3> QED
      BY <3>3, <3>4
  <2>5. Users(x)' = Users(x)
    BY <1>2, <1>5, HoldsFrame DEF Users
  <2>6. refs'[x] = refs[x] /\ refs[x] # 0
    BY <1>1, <1>2, EveryObjectHasAPointer
  <2> QED
    BY <2>1, <2>2, <2>3, <2>4, <2>5, <2>6
<1>10. Counted'
  BY <1>5, <1>9 DEF Counted
<1>11. FreedInv'
  <2>1. frames' \in Seq((SUBSET Allocated(ast)') \ {{}})
    BY <1>5, <1>7, <1>8 DEF S
  <2>2. {x \in Allocated(ast)' : refs'[x] = 0} = {}
    BY <1>5, <1>9
  <2>3. Done'
    BY <1>1, <1>2 DEF Done
  <2> QED
    BY <1>1, <1>2, <2>1, <2>2, <2>3 DEF FreedInv
<1> QED
  BY <1>3, <1>4, <1>10, <1>11 DEF RelInv

(* One call of a release function takes one pointer away; the call that    *)
(* takes the last one passes the object's own pointers on to the stack.    *)
LEMMA ReleaseStep ==
  ASSUME RelInv, NEW o \in Objects, Release(o)
  PROVE  RelInv'
<1>1. /\ IInv /\ PointersInv /\ NoRoleCycle /\ FreedInv /\ Counted
      /\ releasing /\ releasing' = releasing
      /\ frames # <<>> /\ o \in frames[Len(frames)]
      /\ refs' = [refs EXCEPT ![o] = @ - 1]
      /\ UNCHANGED <<ast, pc, loopVars, fail, errors, type_complete, extends_role,
                     role_verbs, linked>>
  BY DEF RelInv, Release
<1>2. /\ ast \in Ast /\ refs \in [Objects -> Nat]
      /\ Allocated(ast)' = Allocated(ast) /\ Allocated(ast) \subseteq Objects
      /\ IsFiniteSet(Allocated(ast)) /\ Done
      /\ frames \in Seq((SUBSET Allocated(ast)) \ {{}})
      /\ freed = {x \in Allocated(ast) : refs[x] = 0}
  BY <1>1, AllocatedObjects DEF IInv, TypeOK, Allocated, PointersInv, FreedInv
<1> DEFINE S == (SUBSET Allocated(ast)) \ {{}}
<1>3. /\ o \in Allocated(ast)
      /\ Pop(frames, o) \in Seq(S)
      /\ Waits(o) # {}
      /\ Cardinality(At(Pop(frames, o), o)) = Cardinality(Waits(o)) - 1
      /\ \A x : x # o => Cardinality(At(Pop(frames, o), x)) = Cardinality(Waits(x))
  <2>1. frames \in Seq((SUBSET Allocated(ast)) \ {{}}) /\ frames # <<>>
        /\ o \in frames[Len(frames)]
    BY <1>1, <1>2
  <2>2. /\ o \in Allocated(ast)
        /\ Pop(frames, o) \in Seq((SUBSET Allocated(ast)) \ {{}})
        /\ At(frames, o) # {}
        /\ Cardinality(At(Pop(frames, o), o)) = Cardinality(At(frames, o)) - 1
        /\ \A x : x # o => Cardinality(At(Pop(frames, o), x)) = Cardinality(At(frames, x))
    BY <2>1, PopAt
  <2> QED
    BY <2>2 DEF Waits
<1>4. \A x \in Allocated(ast) :
        /\ refs[x] \in Nat
        /\ Root(x) = 0 /\ Root(x)' = 0
        /\ Cardinality(Waits(x)) \in Nat /\ (Cardinality(Waits(x)) = 0 <=> Waits(x) = {})
        /\ IsFiniteSet(Users(x)) /\ Cardinality(Users(x)) \in Nat
        /\ Cardinality(Users(x)) = 0 <=> Users(x) = {}
        /\ refs[x] = Cardinality(Users(x)) + Cardinality(Waits(x))
  <2>1. ASSUME NEW x \in Allocated(ast)
        PROVE  /\ Root(x) = 0 /\ Root(x)' = 0
               /\ Cardinality(Waits(x)) \in Nat /\ (Cardinality(Waits(x)) = 0 <=> Waits(x) = {})
               /\ IsFiniteSet(Users(x)) /\ Cardinality(Users(x)) \in Nat
               /\ Cardinality(Users(x)) = 0 <=> Users(x) = {}
               /\ refs[x] = Root(x) + Cardinality(Users(x)) + Cardinality(Waits(x))
    <3>1. Root(x) = 0 /\ Root(x)' = 0
      BY <1>1 DEF Root
    <3>2. refs[x] = Root(x) + Cardinality(Users(x)) + Cardinality(Waits(x))
      BY <1>1 DEF Counted
    <3> QED
      BY <1>2, <3>1, <3>2, CountsAreNat
  <2> QED
    BY <1>2, <2>1
<1>5. /\ refs[o] # 0 /\ refs[o] \in Nat
      /\ refs'[o] = refs[o] - 1 /\ refs'[o] \in Nat
      /\ \A x \in Allocated(ast) : x # o => refs'[x] = refs[x]
      /\ refs' \in [Objects -> Nat]
  <2>1. Cardinality(Waits(o)) # 0 /\ Cardinality(Waits(o)) \in Nat
    BY <1>3, <1>4
  <2>2. refs[o] # 0 /\ refs[o] \in Nat
    BY <1>3, <1>4, <2>1
  <2>3. refs[o] - 1 \in Nat
    BY <2>2
  <2> QED
    BY <1>1, <1>2, <1>3, <2>2, <2>3
<1>6. IInv'
  BY <1>1, <1>5, AnalyzerUntouched
<1>7. PointersInv' /\ NoRoleCycle'
  BY <1>1, ShapeFrame
<1>8. \A p : Holds(p)' = Holds(p) /\ Targets(p)' = Targets(p)
  BY <1>1, HoldsFrame
<1> HIDE DEF S
<1>9. CASE refs'[o] > 0
  <2>1. frames' = Pop(frames, o) /\ freed' = freed
    BY <1>5, <1>9 DEF Release
  <2>2. refs'[o] # 0
    BY <1>5, <1>9
  <2>3. \A x : Users(x)' = Users(x)
    BY <1>2, <1>8, <2>1 DEF Users
  <2>4. ASSUME NEW x \in Allocated(ast)
        PROVE  refs'[x] = Root(x)' + Cardinality(Users(x)') + Cardinality(Waits(x)')
    <3>1. Waits(x)' = At(Pop(frames, o), x)
      BY <2>1 DEF Waits, At
    <3>2. CASE x = o
      BY <1>3, <1>4, <1>5, <2>3, <3>1, <3>2
    <3>3. CASE x # o
      BY <1>3, <1>4, <1>5, <2>3, <3>1, <3>3
    <3> QED
      BY <3>2, <3>3
  <2>5. Counted'
    BY <1>2, <2>4 DEF Counted
  <2>6. freed' = {x \in Allocated(ast)' : refs'[x] = 0}
    BY <1>2, <1>5, <2>1, <2>2
  <2>7. FreedInv'
    BY <1>1, <1>2, <1>3, <2>1, <2>6 DEF FreedInv, S, Done
  <2> QED
    BY <1>6, <1>7, <2>5, <2>7 DEF RelInv
<1>10. CASE ~(refs'[o] > 0)
  <2>1. /\ frames' = Push(Push(Pop(frames, o), Holds(o)[2]), Holds(o)[1])
        /\ freed' = freed \cup {o}
    BY <1>5, <1>10 DEF Release
  <2>2. refs'[o] = 0 /\ refs[o] = 1
    BY <1>5, <1>10
  <2>3. o \notin freed /\ Users(o) = {} /\ Cardinality(Waits(o)) = 1
    <3>1. Cardinality(Waits(o)) # 0
      BY <1>3, <1>4
    <3>2. Cardinality(Users(o)) = 0 /\ Cardinality(Waits(o)) = 1
      BY <1>3, <1>4, <2>2, <3>1
    <3> QED
      BY <1>2, <1>3, <1>4, <1>5, <3>2
  <2>4. /\ Holds(o)[1] \in SUBSET Allocated(ast) /\ Holds(o)[2] \in SUBSET Allocated(ast)
        /\ Holds(o)[1] \cap Holds(o)[2] = {}
    BY <1>1, <1>3, TargetsAllocated
  <2> DEFINE first == Holds(o)[1]
             second == Holds(o)[2]
             popped == Pop(frames, o)
             half == Push(popped, second)
  <2>5. first \in (S \cup {{}}) /\ second \in (S \cup {{}})
    BY <2>4 DEF S
  <2>6. first \cap second = {} /\ Targets(o) = first \cup second
    BY <2>4 DEF Targets
  <2>7. frames' = Push(half, first)
    BY <2>1
  <2>8. popped \in Seq(S)
    BY <1>3
  <2> HIDE DEF first, second, half
  <2>9. /\ half \in Seq(S)
        /\ \A x : x \in second => Cardinality(At(half, x)) = Cardinality(At(popped, x)) + 1
        /\ \A x : x \notin second => At(half, x) = At(popped, x)
    <3> HIDE DEF popped
    <3>1. /\ Push(popped, second) \in Seq(S)
          /\ \A x : x \in second =>
               Cardinality(At(Push(popped, second), x)) = Cardinality(At(popped, x)) + 1
          /\ \A x : x \notin second => At(Push(popped, second), x) = At(popped, x)
      BY <2>5, <2>8, PushAt
    <3> QED
      BY <3>1 DEF half
  <2>10. /\ frames' \in Seq(S)
         /\ \A x : x \in first => Cardinality(At(frames', x)) = Cardinality(At(half, x)) + 1
         /\ \A x : x \notin first => At(frames', x) = At(half, x)
    <3>1. /\ Push(half, first) \in Seq(S)
          /\ \A x : x \in first =>
               Cardinality(At(Push(half, first), x)) = Cardinality(At(half, x)) + 1
          /\ \A x : x \notin first => At(Push(half, first), x) = At(half, x)
      BY <2>5, <2>9, PushAt
    <3> QED
      BY <2>7, <3>1
  <2>11. ASSUME NEW x
         PROVE  /\ Users(x)' = Users(x) \ {o}
                /\ o \in Users(x) <=> x \in first \/ x \in second
    BY <1>2, <1>3, <1>8, <2>1, <2>3, <2>6 DEF Users
  <2>12. ASSUME NEW x \in Allocated(ast)
         PROVE  refs'[x] = Root(x)' + Cardinality(Users(x)') + Cardinality(Waits(x)')
    <3>1. Waits(x)' = At(frames', x)
      BY DEF Waits, At
    <3>2. /\ Cardinality(Users(x)) \in Nat /\ Cardinality(Waits(x)) \in Nat
          /\ Root(x)' = 0 /\ refs[x] = Cardinality(Users(x)) + Cardinality(Waits(x))
          /\ IsFiniteSet(Users(x))
      BY <1>4
    <3>3. CASE x = o
      <4>1. x \notin first /\ x \notin second /\ Users(x)' = {}
        BY <2>3, <2>11, <3>3
      <4>2. Cardinality(Waits(x)') = Cardinality(At(popped, o))
        BY <2>9, <2>10, <3>1, <3>3, <4>1
      <4>3. Cardinality(At(popped, o)) = 0
        BY <1>3, <2>3
      <4>4. Cardinality({}) = 0
        BY FS_EmptySet
      <4> QED
        BY <2>2, <3>2, <3>3, <4>1, <4>2, <4>3, <4>4
    <3>4. CASE x # o /\ o \in Users(x)
      <4>1. Cardinality(Users(x) \ {o}) = Cardinality(Users(x)) - 1
        BY <3>2, <3>4, FS_RemoveElement
      <4>2. Cardinality(At(popped, x)) = Cardinality(Waits(x))
        BY <1>3, <3>4
      <4>3. Cardinality(At(frames', x)) = Cardinality(At(popped, x)) + 1
        BY <2>6, <2>9, <2>10, <2>11, <3>4
      <4>4. refs'[x] = refs[x]
        BY <1>5, <3>4
      <4> QED
        <5>1. Cardinality(Users(x)') = Cardinality(Users(x)) - 1
          BY <2>11, <4>1
        <5>2. Cardinality(Waits(x)') = Cardinality(Waits(x)) + 1
          BY <3>1, <4>2, <4>3
        <5> QED
          BY <3>2, <4>4, <5>1, <5>2
    <3>5. CASE x # o /\ o \notin Users(x)
      <4>1. Users(x)' = Users(x)
        BY <2>11, <3>5
      <4>2. Cardinality(At(popped, x)) = Cardinality(Waits(x))
        BY <1>3, <3>5
      <4>3. At(frames', x) = At(popped, x)
        BY <2>9, <2>10, <2>11, <3>5
      <4>4. refs'[x] = refs[x]
        BY <1>5, <3>5
      <4> QED
        BY <3>1, <3>2, <4>1, <4>2, <4>3, <4>4
    <3> QED
      BY <3>3, <3>4, <3>5
  <2>13. Counted'
    BY <1>2, <2>12 DEF Counted
  <2>14. freed' = {x \in Allocated(ast)' : refs'[x] = 0}
    BY <1>2, <1>3, <1>5, <2>1, <2>2
  <2>15. FreedInv'
    BY <1>1, <1>2, <2>10, <2>14 DEF FreedInv, S, Done
  <2> QED
    BY <1>6, <1>7, <2>13, <2>15 DEF RelInv
<1> QED
  BY <1>9, <1>10

-----------------------------------------------------------------------------
(* The reference counts are right at every step from the first pass of the *)
(* analyzer to the last call of a release function.                        *)
THEOREM ReleaseInvariant == RelSpec => []RelInv
<1>1. RelInit => RelInv
  BY InitIInv, InitCounted DEF RelInit, RelInv
<1>2. RelInv /\ [RelNext]_allVars => RelInv'
  <2> SUFFICES ASSUME RelInv, [RelNext]_allVars PROVE RelInv'
    OBVIOUS
  <2>1. CASE Analyze
    BY <2>1, AnalyzeStep
  <2>2. CASE ReleaseConfig
    BY <2>2, ReleaseConfigStep
  <2>3. ASSUME NEW o \in Objects, Release(o) PROVE RelInv'
    BY <2>3, ReleaseStep
  <2>4. CASE UNCHANGED allVars
    <3>1. /\ UNCHANGED <<ast, pc, loopVars, fail, errors, type_complete, extends_role,
                         role_verbs, linked, refs>>
          /\ UNCHANGED <<ast, heapVars, relVars>>
      BY <2>4 DEF allVars, vars, heapVars
    <3>2. PointersInv' /\ NoRoleCycle' /\ Counted'
      BY <3>1, HeapUntouched DEF RelInv
    <3>3. IInv'
      BY <3>1, AnalyzerUntouched DEF RelInv, IInv, TypeOK
    <3>4. FreedInv'
      BY <3>1 DEF RelInv, FreedInv, relVars, Allocated, Done
    <3> QED
      BY <3>2, <3>3, <3>4 DEF RelInv
  <2> QED
    BY <2>1, <2>2, <2>3, <2>4 DEF RelNext, Gone
<1> QED
  BY <1>1, <1>2, PTL DEF RelSpec

(* The variables of the release keep their types: what waits and what is   *)
(* freed are objects, and no tree on the stack is empty.                   *)
THEOREM ReleaseTypeCorrect == RelSpec => []RelTypeOK
<1>1. RelInit => releasing \in BOOLEAN
  BY DEF RelInit
<1>2. releasing \in BOOLEAN /\ [RelNext]_allVars => (releasing \in BOOLEAN)'
  BY DEF RelNext, Analyze, ReleaseConfig, Release, Gone, allVars, relVars
<1>3. RelInv /\ releasing \in BOOLEAN => RelTypeOK
  <2> SUFFICES ASSUME RelInv, releasing \in BOOLEAN PROVE RelTypeOK
    OBVIOUS
  <2>1. /\ TypeOK /\ Allocated(ast) \subseteq Objects
        /\ frames \in Seq((SUBSET Allocated(ast)) \ {{}})
    BY AllocatedObjects DEF RelInv, IInv, TypeOK, FreedInv
  <2>2. freed \in SUBSET Objects
    BY <2>1 DEF RelInv, FreedInv
  <2>3. frames \in Seq((SUBSET Objects) \ {{}})
    <3>1. \A i \in 1 .. Len(frames) : frames[i] \in (SUBSET Objects) \ {{}}
      BY <2>1, ElementOfSeq
    <3> QED
      BY <2>1, <3>1, LenProperties, IsASeq
  <2> QED
    BY <2>1, <2>2, <2>3 DEF RelTypeOK
<1> QED
  BY <1>1, <1>2, <1>3, ReleaseInvariant, PTL DEF RelSpec

(* For every config and every order in which its trees are taken apart: no *)
(* release function is called on an object that has been reclaimed.        *)
THEOREM NoUseAfterFree == RelSpec => []NoReleaseAfterFree
<1>1. RelInv => NoReleaseAfterFree
  <2> SUFFICES ASSUME RelInv, NEW i \in DOMAIN frames, NEW x \in frames[i], x \in freed
               PROVE  FALSE
    BY DEF NoReleaseAfterFree
  <2>1. frames \in Seq((SUBSET Allocated(ast)) \ {{}}) /\ IsFiniteSet(Allocated(ast))
    BY DEF RelInv, FreedInv, PointersInv
  <2>2. i \in 1 .. Len(frames)
    BY <2>1, LenProperties
  <2>3. x \in Allocated(ast)
    BY <2>1, <2>2, ElementOfSeq
  <2>4. Waits(x) # {}
    BY <2>2 DEF Waits, At
  <2>5. refs[x] = 0
    BY <2>3 DEF RelInv, FreedInv
  <2>6. refs[x] = Root(x) + Cardinality(Users(x)) + Cardinality(Waits(x))
    BY <2>3 DEF RelInv, Counted
  <2>7. /\ Root(x) \in Nat /\ Cardinality(Users(x)) \in Nat
        /\ Cardinality(Waits(x)) \in Nat /\ Cardinality(Waits(x)) # 0
    BY <2>1, <2>4, CountsAreNat
  <2> QED
    BY <2>5, <2>6, <2>7
<1> QED
  BY <1>1, ReleaseInvariant, PTL

(* For every config, well formed or not: when the last release function    *)
(* has returned, every object the parser allocated is reclaimed.           *)
THEOREM NothingLeaksEver == RelSpec => []NothingLeaks
<1>1. RelInv => NothingLeaks
  <2> SUFFICES ASSUME RelInv, Released PROVE freed = Allocated(ast)
    BY DEF NothingLeaks
  <2>1. /\ releasing /\ frames = <<>> /\ ast \in Ast
        /\ freed = {x \in Allocated(ast) : refs[x] = 0}
        /\ IsFiniteSet(Allocated(ast))
        /\ frames \in Seq((SUBSET Allocated(ast)) \ {{}})
    BY DEF RelInv, Released, FreedInv, PointersInv, IInv, TypeOK
  <2>2. ASSUME NEW x \in Allocated(ast), x \notin freed
        PROVE  \E p \in Allocated(ast) \ freed : x \in Targets(p)
    <3>1. Root(x) = 0
      BY <2>1 DEF Root
    <3>2. Waits(x) = {}
      <4>1. Len(<<>>) = 0 /\ 1 .. 0 = {}
        BY EmptySeq
      <4> QED
        BY <2>1, <4>1 DEF Waits, At
    <3>3. refs[x] # 0 /\ refs[x] = Root(x) + Cardinality(Users(x)) + Cardinality(Waits(x))
      BY <2>1, <2>2 DEF RelInv, Counted
    <3>4. /\ Cardinality(Waits(x)) = 0 /\ Cardinality(Users(x)) \in Nat
          /\ Cardinality(Users(x)) = 0 <=> Users(x) = {}
      BY <2>1, <3>2, CountsAreNat
    <3>5. Users(x) # {}
      BY <3>1, <3>3, <3>4
    <3> QED
      BY <3>5 DEF Users
  <2>3. ASSUME NEW e \in ast.entities PROVE EntityObj(e) \in freed
    <3>1. EntityObj(e) \in Allocated(ast)
      BY <2>1, Kinds
    <3>2. \A p \in Allocated(ast) : EntityObj(e) \notin Targets(p)
      BY <2>1, Pointers DEF PointsTo
    <3> QED
      BY <2>2, <3>1, <3>2
  <2>4. ASSUME NEW e \in ast.entities, NEW r \in ast.roles[e] PROVE RoleObj(e, r) \in freed
    <3> DEFINE live == {q \in ast.roles[e] : RoleObj(e, q) \notin freed}
    <3>1. e \in Entities
      BY <2>1, AstTypes
    <3>2. ASSUME NEW q \in live PROVE \E s \in live : extends_role[<<e, s>>] = q
      <4>1. RoleObj(e, q) \in Allocated(ast) /\ RoleObj(e, q) \notin freed
        BY <2>1, Kinds
      <4>2. PICK p \in Allocated(ast) \ freed : RoleObj(e, q) \in Targets(p)
        BY <2>2, <4>1
      <4>3. PointsTo(p, e)
        BY <2>1, <4>2, Pointers
      <4>4. \/ p = EntityObj(e)
            \/ \E s \in ast.roles[e] : p = RoleObj(e, s) /\ extends_role[<<e, s>>] = q
        BY <4>2, <4>3 DEF PointsTo
      <4> QED
        BY <2>3, <4>2, <4>4
    <3> HIDE DEF live
    <3>3. live \in SUBSET ast.roles[e]
      BY DEF live
    <3>4. live = {}
      BY <3>1, <3>2, <3>3 DEF RelInv, NoRoleCycle
    <3> QED
      BY <3>4 DEF live
  <2>5. ASSUME NEW e \in ast.entities, NEW r \in ast.roles[e], NEW v \in ast.own[e][r]
        PROVE  RoleVerbObj(e, r, v) \in freed
    <3> SUFFICES ASSUME RoleVerbObj(e, r, v) \notin freed PROVE FALSE
      OBVIOUS
    <3>1. RoleVerbObj(e, r, v) \in Allocated(ast)
      BY <2>1, Kinds
    <3>2. PICK p \in Allocated(ast) \ freed : RoleVerbObj(e, r, v) \in Targets(p)
      BY <2>2, <3>1
    <3>3. PointsTo(p, e)
      BY <2>1, <3>2, Pointers
    <3>4. \E s \in ast.roles[e] : p = RoleObj(e, s)
      BY <3>2, <3>3 DEF PointsTo
    <3> QED
      BY <2>4, <3>2, <3>4
  <2>6. ASSUME NEW e \in ast.entities, NEW v \in ast.verbs[e] PROVE VerbObj(e, v) \in freed
    <3> SUFFICES ASSUME VerbObj(e, v) \notin freed PROVE FALSE
      OBVIOUS
    <3>1. VerbObj(e, v) \in Allocated(ast)
      BY <2>1, Kinds
    <3>2. PICK p \in Allocated(ast) \ freed : VerbObj(e, v) \in Targets(p)
      BY <2>2, <3>1
    <3>3. PointsTo(p, e)
      BY <2>1, <3>2, Pointers
    <3>4. \/ p = EntityObj(e)
          \/ \E r \in ast.roles[e] : v \in ast.own[e][r] /\ p = RoleVerbObj(e, r, v)
      BY <3>2, <3>3 DEF PointsTo
    <3> QED
      BY <2>3, <2>5, <3>2, <3>4
  <2>7. \A x \in Allocated(ast) : x \in freed
    BY <2>1, <2>3, <2>4, <2>5, <2>6, Kinds
  <2> QED
    BY <2>1, <2>7
<1> QED
  BY <1>1, ReleaseInvariant, PTL
=============================================================================
