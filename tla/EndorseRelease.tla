--------------------------- MODULE EndorseRelease ---------------------------
(***************************************************************************)
(* The life of a config's objects after parsing: endorse_analyze, and then *)
(* the release of the config by its context, whatever the status of the    *)
(* analysis.  Each release function decrements the object's count and, at  *)
(* zero, releases what the object points to: an entity its verbs and then  *)
(* its roles, a role its role_verbs and then the role it extends, a        *)
(* role_verb its verb.                                                     *)
(*                                                                         *)
(* The calls nest.  `frames' is the call stack: a frame holds the objects  *)
(* that an unfinished tree (or pointer) still has to release.  In which    *)
(* order rcpr releases the nodes of a tree is its own affair: any object   *)
(* of the last frame may be next.                                          *)
(***************************************************************************)
EXTENDS EndorseAnalyze, Sequences

(* A config file is finite, whatever names there are. *)
ASSUME FiniteAssumption == \A c \in Configs : IsFiniteSet(Allocated(c))

VARIABLES
  releasing,   \* the config's own count has dropped to zero
  frames,      \* the objects waiting to be released, innermost tree last
  freed        \* the objects whose memory has been reclaimed

relVars == <<releasing, frames, freed>>
allVars == <<vars, relVars>>

RelTypeOK ==
  /\ TypeOK
  /\ releasing \in BOOLEAN
  /\ frames \in Seq((SUBSET Objects) \ {{}})
  /\ freed \in SUBSET Objects

RelInit ==
  /\ Init
  /\ releasing = FALSE
  /\ frames = <<>>
  /\ freed = {}

(* A tree or a pointer is released: there is nothing to do when it is      *)
(* empty.                                                                  *)
Push(fs, tree) == IF tree = {} THEN fs ELSE Append(fs, tree)

(* The release of the innermost tree has come to object o. *)
Pop(fs, o) == Push(SubSeq(fs, 1, Len(fs) - 1), fs[Len(fs)] \ {o})

(* The two trees, or tree and pointer, of an object, in the order it       *)
(* releases them.                                                          *)
EntityHolds(e) ==
  <<{VerbObj(e, v) : v \in ast.verbs[e]}, {RoleObj(e, r) : r \in ast.roles[e]}>>

(* Mutant: the role lets go of its verbs but not of its base. *)
RoleHoldsNoBase(e, r) ==
  <<{RoleVerbObj(e, role_verbs[<<e, r>>][v], v) : v \in Held(e, r)}, {}>>

RoleHolds(e, r) ==
  <<{RoleVerbObj(e, role_verbs[<<e, r>>][v], v) : v \in Held(e, r)},
    {RoleObj(e, s) : s \in {extends_role[<<e, r>>]} \ {NULL}}>>

RoleVerbHolds(e, r, v) ==
  <<{VerbObj(e, w) : w \in {x \in {v} : <<e, r, x>> \in linked}}, {}>>

Holds(o) ==
  CASE o[1] = "entity"    -> EntityHolds(o[2])
    [] o[1] = "role"      -> RoleHolds(o[2], o[3])
    [] o[1] = "role_verb" -> RoleVerbHolds(o[2], o[3], o[4])
    [] o[1] = "verb"      -> <<{}, {}>>

(* The context releases the config, whose count is one after parsing. *)
ReleaseConfig ==
  /\ Done
  /\ ~releasing
  /\ releasing' = TRUE
  /\ frames' = Push(<<>>, {EntityObj(e) : e \in ast.entities})
  /\ UNCHANGED <<vars, freed>>

(* One call of a release function. *)
Release(o) ==
  /\ releasing
  /\ frames # <<>>
  /\ o \in frames[Len(frames)]
  /\ refs' = [refs EXCEPT ![o] = @ - 1]
  /\ \/ /\ refs'[o] > 0
        /\ frames' = Pop(frames, o)
        /\ UNCHANGED freed
     \/ /\ refs'[o] <= 0
        /\ frames' = Push(Push(Pop(frames, o), Holds(o)[2]), Holds(o)[1])
        /\ freed' = freed \cup {o}
  /\ UNCHANGED <<ast, pc, loopVars, fail, errors, type_complete, extends_role,
                 role_verbs, linked, releasing>>

Released == releasing /\ frames = <<>>

Gone == Released /\ UNCHANGED allVars

Analyze == ~releasing /\ Next /\ UNCHANGED relVars

RelNext ==
  \/ Analyze
  \/ ReleaseConfig
  \/ \E o \in Objects : Release(o)
  \/ Gone

RelSpec == RelInit /\ [][RelNext]_allVars

(* The context is released on every path out of the endorse command. *)
RelFairSpec == RelSpec /\ WF_allVars(RelNext)

-----------------------------------------------------------------------------
(* No release function is ever called, or waiting to be called, on an      *)
(* object whose memory has been reclaimed, although trees share role_verbs *)
(* and verbs and roles point to each other, in whatever order the trees    *)
(* are taken apart.                                                        *)
NoReleaseAfterFree ==
  \A i \in DOMAIN frames : frames[i] \cap freed = {}

(* Once the config is gone, so is every object the parser allocated: the   *)
(* counts that the analysis raised are all given back.                     *)
NothingLeaks == Released => freed = Allocated(ast)

(* The release comes to an end. *)
EventuallyReleased == <>Released
=============================================================================
